--------------------------- MODULE MailboxProfiles ---------------------------
(***************************************************************************)
(* The mailbox profiles: the handlers of app/mailboxes/router.py and the   *)
(* operations of app/mailboxes/service.py they call.                       *)
(*                                                                         *)
(* A handler reads the profile when it starts and commits when it ends;    *)
(* between the two it awaits the database and, for a connectivity test,    *)
(* two upstream servers with a timeout of seconds.  Nothing locks the row, *)
(* so other requests commit in between.  The mapper then sends the columns *)
(* whose value differs from the one the handler read, and only those.      *)
(*                                                                         *)
(* A request for a profile that does not exist, or belongs to another user *)
(* (get_mailbox_by_id), or whose form is invalid (_form_to_schema, a blank *)
(* password on creation) is refused and changes nothing: it is no step.    *)
(* The two upstream passwords are treated alike and are one column here.   *)
(*                                                                         *)
(* A definition whose comment starts with "Mutant" is not part of the      *)
(* model: it is the one after it with a plausible bug.                     *)
(***************************************************************************)
EXTENDS ProxyCredentials

CONSTANTS
  Mailbox,      \* ids of mailbox profiles
  Handler,      \* request handlers that may run at the same time
  Settings,     \* the hosts, ports and names an owner can enter
  Failure,      \* the sides a connectivity test may find in error
  MaxRequests   \* bound: requests

ASSUME MPConstants ==
  /\ MaxRequests \in Nat
  /\ "ok" \notin Failure /\ "none" \notin Failure

VARIABLES
  profile,   \* mailbox_profiles: the rows, by id
  request,   \* what each handler is doing and the row it has read
  requests,  \* requests so far: the number of a request names what it issues
  last,      \* history: what was last committed for each id, and how
  deleted    \* the ids that were deleted; the database gives none out again

profileVars == <<profile, request, requests, last, deleted>>

Outcome == {"ok"} \cup Failure

Row == [settings : Settings, secret : Nat, hash : Nat,
        status : MailboxStatus, error : Failure \cup {"none"}]

NoRow == [settings |-> "none", secret |-> 0, hash |-> 0,
          status |-> "pending_verification", error |-> "none"]

Request == [kind : {"idle", "edit", "test", "reset", "delete"},
            mailbox : Mailbox \cup {"none"}, seen : Row \cup {NoRow},
            number : Nat, overtaken : BOOLEAN]

Idle == [kind |-> "idle", mailbox |-> "none", seen |-> NoRow,
         number |-> 0, overtaken |-> FALSE]

\* What was last committed: the numbers of the last reset and of the last
\* request that typed a secret, the outcome of the last test, and whether
\* another test of the mailbox was committed while that one ran.
Last == [reset : Nat, typed : Nat, outcome : Outcome \cup {"none"},
         overtaken : BOOLEAN]

NothingYet == [reset |-> 0, typed |-> 0, outcome |-> "none", overtaken |-> FALSE]

ProfilesTypeOK ==
  /\ DOMAIN profile \subseteq Mailbox
  /\ \A m \in DOMAIN profile : profile[m] \in Row
  /\ request \in [Handler -> Request]
  /\ requests \in 0 .. MaxRequests
  /\ last \in [Mailbox -> Last]
  /\ deleted \subseteq Mailbox

-----------------------------------------------------------------------------
(***************************************************************************)
(* create_mailbox: a profile nobody tested yet, with a proxy password of   *)
(* its own.  Nothing is read first, so the whole request is one step.      *)
(***************************************************************************)
NewProfile(settings, number) ==
  [settings |-> settings, secret |-> number, hash |-> number,
   status |-> "pending_verification", error |-> "none"]

CreateMailbox(m, settings) ==
  /\ m \notin DOMAIN profile \cup deleted
  /\ requests < MaxRequests
  /\ requests' = requests + 1
  /\ profile' = [x \in DOMAIN profile \cup {m} |->
                   IF x = m THEN NewProfile(settings, requests') ELSE profile[x]]
  /\ last' = [last EXCEPT ![m].reset = requests', ![m].typed = requests']
  /\ UNCHANGED <<request, deleted>>

\* get_mailbox_by_id, at the start of every other handler.
Open(h, m, kind) ==
  /\ request[h].kind = "idle"
  /\ m \in DOMAIN profile
  /\ requests < MaxRequests
  /\ requests' = requests + 1
  /\ request' = [request EXCEPT ![h] =
       [kind |-> kind, mailbox |-> m, seen |-> profile[m],
        number |-> requests', overtaken |-> FALSE]]
  /\ UNCHANGED <<profile, last, deleted>>

\* Mutant: the whole row is written back, as it was read.
SentWhole(row, seen, new) == new

(***************************************************************************)
(* The UPDATE of the mapper: the columns that differ from the ones read.   *)
(***************************************************************************)
Sent(row, seen, new) ==
  [c \in DOMAIN row |-> IF new[c] # seen[c] THEN new[c] ELSE row[c]]

\* Mutant: a row that is gone is inserted again, as a merge would.
FlushMerging(h, new) ==
  LET m == request[h].mailbox
  IN  profile' = [x \in DOMAIN profile \cup {m} |-> IF x = m THEN new ELSE profile[x]]

\* An UPDATE that finds no row raises: the request fails and rolls back.
Flush(h, new) ==
  LET m == request[h].mailbox
  IN  profile' = IF m \in DOMAIN profile
                 THEN [profile EXCEPT ![m] = Sent(profile[m], request[h].seen, new)]
                 ELSE profile

\* The request is over.
Leave(h) == request' = [request EXCEPT ![h] = Idle]

Record(m, field) ==
  last' = IF m \in DOMAIN profile THEN [last EXCEPT ![m] = field] ELSE last

\* Mutant: a blank password overwrites the stored one.
EditedBlank(row, settings, typed, number) ==
  [row EXCEPT !.settings = settings, !.secret = IF typed THEN number ELSE 0]

(***************************************************************************)
(* update_mailbox: every setting of the form, and the password if one was  *)
(* typed.  The status stays: the new settings count as tested if the old   *)
(* ones were.                                                              *)
(***************************************************************************)
Edited(row, settings, typed, number) ==
  [row EXCEPT !.settings = settings, !.secret = IF typed THEN number ELSE @]

UpdateMailbox(h, settings, typed) ==
  LET r == request[h]
  IN  /\ r.kind = "edit"
      /\ Flush(h, Edited(r.seen, settings, typed, r.number))
      /\ IF typed THEN Record(r.mailbox, [last[r.mailbox] EXCEPT !.typed = r.number])
                  ELSE UNCHANGED last
      /\ Leave(h)
      /\ UNCHANGED <<requests, deleted>>

\* reset_proxy_password: a new password, stored as a hash.
ResetProxyPassword(h) ==
  LET r == request[h]
  IN  /\ r.kind = "reset"
      /\ Flush(h, [r.seen EXCEPT !.hash = r.number])
      /\ Record(r.mailbox, [last[r.mailbox] EXCEPT !.reset = r.number])
      /\ Leave(h)
      /\ UNCHANGED <<requests, deleted>>

\* Mutant: a test that succeeds leaves the error of an earlier one.
TestedKeepingError(row, outcome) ==
  IF outcome = "ok" THEN [row EXCEPT !.status = "active"]
                    ELSE [row EXCEPT !.status = "connection_error", !.error = outcome]

\* Mutant: a mailbox that cannot be reached is switched off.
TestedInactive(row, outcome) ==
  IF outcome = "ok" THEN [row EXCEPT !.status = "active", !.error = "none"]
                    ELSE [row EXCEPT !.status = "inactive", !.error = outcome]

\* What test_mailbox_connectivity stores: the sides that failed.
Tested(row, outcome) ==
  IF outcome = "ok" THEN [row EXCEPT !.status = "active", !.error = "none"]
                    ELSE [row EXCEPT !.status = "connection_error", !.error = outcome]

(***************************************************************************)
(* The end of a connectivity test.  Each side reports success or an error  *)
(* and never raises, so every outcome reaches the row.  Tests of the same  *)
(* mailbox still running are overtaken by this one.                        *)
(***************************************************************************)
TestConnectivity(h, outcome) ==
  LET r == request[h]
      m == r.mailbox
      Overtake(g) == IF request[g].kind = "test" /\ request[g].mailbox = m
                     THEN [request[g] EXCEPT !.overtaken = TRUE]
                     ELSE request[g]
  IN  /\ r.kind = "test"
      /\ Flush(h, Tested(r.seen, outcome))
      /\ Record(m, [last[m] EXCEPT !.outcome = outcome, !.overtaken = r.overtaken])
      /\ request' = [g \in Handler |-> IF g = h THEN Idle ELSE Overtake(g)]
      /\ UNCHANGED <<requests, deleted>>

\* delete_mailbox.  Deleting a row that is gone is no error.
DeleteMailbox(h) ==
  LET m == request[h].mailbox
  IN  /\ request[h].kind = "delete"
      /\ profile' = [x \in DOMAIN profile \ {m} |-> profile[x]]
      /\ deleted' = deleted \cup {m}
      /\ Leave(h)
      /\ UNCHANGED <<requests, last>>

\* A handler that fails or is lost: its transaction is rolled back.
Abandon(h) ==
  /\ request[h].kind # "idle"
  /\ Leave(h)
  /\ UNCHANGED <<profile, requests, last, deleted>>

ProfilesInit ==
  /\ profile = << >>
  /\ request = [h \in Handler |-> Idle]
  /\ requests = 0
  /\ last = [m \in Mailbox |-> NothingYet]
  /\ deleted = {}

ProfilesNext ==
  \/ \E m \in Mailbox, s \in Settings : CreateMailbox(m, s)
  \/ \E h \in Handler :
       \/ \E m \in Mailbox, kind \in {"edit", "test", "reset", "delete"} :
            Open(h, m, kind)
       \/ \E s \in Settings, typed \in BOOLEAN : UpdateMailbox(h, s, typed)
       \/ \E o \in Outcome : TestConnectivity(h, o)
       \/ ResetProxyPassword(h)
       \/ DeleteMailbox(h)
       \/ Abandon(h)

ProfilesSpec == ProfilesInit /\ [][ProfilesNext]_profileVars

-----------------------------------------------------------------------------
(***************************************************************************)
(* Whatever edits, tests and resets overlap, the credentials of a profile  *)
(* are the ones last set: the proxy password of the last reset, which is   *)
(* the one its owner was shown, and the upstream password of the last      *)
(* request that typed one.  No handler brings back a value it read before. *)
(***************************************************************************)
CredentialsAsLastSet ==
  \A m \in DOMAIN profile : /\ profile[m].hash = last[m].reset
                            /\ profile[m].secret = last[m].typed

(***************************************************************************)
(* The status and the error of a profile are those of the last test that   *)
(* was committed, unless another test of the mailbox was committed while   *)
(* it ran: then columns of both may stand side by side (an active mailbox  *)
(* with the error of the other test).                                      *)
(***************************************************************************)
TestResultStands ==
  \A m \in DOMAIN profile :
    IF last[m].outcome = "none"
    THEN profile[m].status = "pending_verification" /\ profile[m].error = "none"
    ELSE \/ last[m].overtaken
         \/ last[m].outcome = "ok" /\ profile[m].status = "active" /\ profile[m].error = "none"
         \/ profile[m].status = "connection_error" /\ profile[m].error = last[m].outcome

(***************************************************************************)
(* A deleted mailbox stays deleted: a request that read it before and      *)
(* writes after cannot bring it back, nor its credentials.                 *)
(***************************************************************************)
DeletedStaysDeleted == DOMAIN profile \cap deleted = {}
=============================================================================
