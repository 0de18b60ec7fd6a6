---------------------------- MODULE PublishedUpload ----------------------------
(***************************************************************************)
(* What an upload promises to those who have its URL and to those who      *)
(* manage it, without the objects and requests it is made of: a directory  *)
(* is claimed once; its entry page is shown only while everything it leads *)
(* to is there; it is given up for good, and only when nothing is left.    *)
(***************************************************************************)
VARIABLES phase,   \* "free", "held" (there is an owner's marker) or "gone"
          whole,   \* whether all the entry page leads to is there
          empty,   \* whether nothing of the payload is there
          entry    \* whether the entry page is there

vars == <<phase, whole, empty, entry>>

Init ==
  /\ phase \in {"free", "held"}
  /\ whole \in BOOLEAN /\ empty \in BOOLEAN /\ entry \in BOOLEAN
  /\ entry => whole /\ ~empty
  /\ phase = "free" => empty

Claim == phase = "free" /\ phase' = "held" /\ UNCHANGED <<whole, empty, entry>>

(* Objects come and go behind the entry page.                              *)
Fill == /\ phase = "held" /\ UNCHANGED <<phase, entry>>
        /\ empty' = FALSE /\ (whole => whole')
Show == /\ phase = "held" /\ whole
        /\ entry' = TRUE /\ empty' = FALSE /\ UNCHANGED <<phase, whole>>
Withdraw == /\ phase = "held" /\ UNCHANGED phase
            /\ (entry' => entry) /\ (empty => empty') /\ whole' \in BOOLEAN
GiveUp == /\ phase = "held" /\ empty
          /\ phase' = "gone" /\ UNCHANGED <<whole, empty, entry>>

Next == Claim \/ Fill \/ Show \/ Withdraw \/ GiveUp

Spec == Init /\ [][Next]_vars
=============================================================================
