---------------------------- MODULE MCLiveIngest ----------------------------
(* TLC instances of LiveIngest: one segment of one device.                 *)
EXTENDS LiveIngest

(* One after the other: answers in time and two chunks lost; answers at    *)
(* any time, one chunk lost and one doubled; a seal that may overtake its  *)
(* segment and one chunk lost; and all of these with pushes that fail.     *)
PromptOrLate ==
  {[prompt |-> TRUE, inOrder |-> TRUE, failing |-> FALSE, lost |-> 2, twice |-> 0],
   [prompt |-> FALSE, inOrder |-> TRUE, failing |-> FALSE, lost |-> 1, twice |-> 1],
   [prompt |-> TRUE, inOrder |-> FALSE, failing |-> FALSE, lost |-> 1, twice |-> 0],
   [prompt |-> FALSE, inOrder |-> FALSE, failing |-> TRUE, lost |-> 1, twice |-> 0]}
=============================================================================
