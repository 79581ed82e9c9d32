---------------------------- MODULE MCMailImport ----------------------------
(* Small instances of MailImport for TLC: two letters of a new sender, one of
   them without a Message-ID and naming a lead, and one letter without From. *)
EXTENDS MailImport, TLC

CONSTANTS first, second, spam, anna

MCLetters == {first, second, spam}
MCSenders == {anna}
MCSender == [l \in MCLetters |-> anna]
MCNamed == {first}
MCBroken == {spam}
MCReplies == {second}
MCPosts == {<<<<second, first>>>>, <<<<spam, first>>>>}
=============================================================================
