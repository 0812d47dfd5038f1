----------------------------- MODULE MCImapProxy -----------------------------
EXTENDS ImapProxy, TLC

\* 1:* and a single number.
MCSets == {{<<1, 0>>}, {<<2, 2>>}}

MCWants == {{"FLAGS", "BODY[HEADER]"}, {"ENVELOPE", "RFC822.SIZE"}}

\* Mailboxes are interchangeable, and so are syncs.
Interchangeable == Permutations(Mailbox) \cup Permutations(Sync)
=============================================================================
