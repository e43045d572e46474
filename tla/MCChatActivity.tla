--------------------------- MODULE MCChatActivity ---------------------------
(* Small instances of ChatActivity: two senders, two dates, so that two    *)
(* messages of a sender may share an id and the clocks may disagree.       *)
EXTENDS ChatActivity
=============================================================================
