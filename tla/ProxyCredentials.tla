--------------------------- MODULE ProxyCredentials ---------------------------
(***************************************************************************)
(* The check both proxies make when a mail client logs in:                 *)
(* authenticate_proxy_credentials of app/proxies/imap/session.py, which    *)
(* app/proxies/smtp/session.py calls too.  A password is the number of the *)
(* request that issued it; the stored hash is modelled by that number,     *)
(* since bcrypt accepts the password it was computed from and no other.    *)
(***************************************************************************)
EXTENDS Naturals

(***************************************************************************)
(* MailboxStatus.  INACTIVE is declared too and no code ever stores it.    *)
(***************************************************************************)
MailboxStatus == {"pending_verification", "active", "connection_error"}

(***************************************************************************)
(* A login opens a session when the password is the current one and the    *)
(* last connectivity test, if any, did not fail.  An unknown user name, a  *)
(* wrong password and a mailbox in error get the same refusal.             *)
(***************************************************************************)
AuthenticateProxyCredentials(row, password) ==
  /\ row.hash = password
  /\ row.status \in {"active", "pending_verification"}
=============================================================================
