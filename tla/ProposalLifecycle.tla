-------------------------- MODULE ProposalLifecycle --------------------------
(***************************************************************************)
(* What the FortisX program promises about proposals, without accounts,    *)
(* slots, clocks or money: a council of members opens numbered proposals,  *)
(* one after the other; only the latest one can be voted on or enacted;    *)
(* there is one vote per proposal in every member's name; the vote that    *)
(* brings the number of distinct names to the threshold approves; an       *)
(* approved proposal is enacted at most once, and a number is never used   *)
(* again.  Who casts a vote in a member's name is left open: the program   *)
(* asks for no signature, its clients sign.                                *)
(* FortisMultisig implements this specification.                           *)
(***************************************************************************)
EXTENDS Integers, FiniteSets

CONSTANTS
  Keys,        (* every public key                                         *)
  Thresholds,  (* the thresholds a council may have                        *)
  Indices,     (* the numbers a proposal may have                          *)
  NoCouncil    (* the council before it is founded                         *)

VARIABLES
  council,     (* [members |-> set of keys, threshold |-> number       ]  *)
  latest,      (* number of the latest proposal, 0 when there is none      *)
  phase,       (* phase of every proposal                                  *)
  votes        (* the members in whose name a live proposal was voted for  *)

lifecycleVars == <<council, latest, phase, votes>>

LInit ==
  /\ council = NoCouncil
  /\ latest = 0
  /\ phase = [i \in Indices |-> "unused"]
  /\ votes = [i \in Indices |-> {}]

Found(members, threshold) ==
  /\ council = NoCouncil
  /\ council' = [members |-> members, threshold |-> threshold]
  /\ UNCHANGED <<latest, phase, votes>>

Open(i) ==
  /\ council # NoCouncil
  /\ i = latest + 1
  /\ phase[i] = "unused"
  /\ latest' = i
  /\ phase' = [phase EXCEPT ![i] = "voting"]
  /\ UNCHANGED <<council, votes>>

Vote(i, m) ==
  /\ i = latest
  /\ phase[i] = "voting"
  /\ m \in council.members \ votes[i]
  /\ votes' = [votes EXCEPT ![i] = @ \cup {m}]
  /\ phase' = [phase EXCEPT ![i] =
                 IF Cardinality(votes[i] \cup {m}) >= council.threshold
                   THEN "approved" ELSE "voting"]
  /\ UNCHANGED <<council, latest>>

Enact(i) ==
  /\ i = latest
  /\ phase[i] = "approved"
  /\ phase' = [phase EXCEPT ![i] = "executed"]
  /\ UNCHANGED <<council, latest, votes>>

(* The accounts of a proposal are taken back: never those of an approved one. *)
Retire(i) ==
  /\ phase[i] \in {"voting", "executed"}
  /\ phase' = [phase EXCEPT ![i] = "retired"]
  /\ votes' = [votes EXCEPT ![i] = {}]
  /\ UNCHANGED <<council, latest>>

LNext ==
  \/ \E members \in SUBSET Keys, threshold \in Thresholds : Found(members, threshold)
  \/ \E i \in Indices :
       \/ Open(i)
       \/ \E m \in Keys : Vote(i, m)
       \/ Enact(i)
       \/ Retire(i)

LSpec == LInit /\ [][LNext]_lifecycleVars
=============================================================================
