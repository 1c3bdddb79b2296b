--------------------------- MODULE MCWrappedMessage ---------------------------
(* Small instances of WrappedMessage: all pairs of instructions over a few    *)
(* accounts, and the one message the command line builds.                     *)
EXTENDS WrappedMessage

CONSTANTS creator, member, target, system, other, d

MCAccounts ==
  {<<>>} \cup [1..1 -> [key : {creator, Vault, target}, signer : BOOLEAN, writable : BOOLEAN]]

MCAccountPairs ==
  [1..2 -> [key : {creator, Vault, target}, signer : BOOLEAN, writable : BOOLEAN]]

(* Data longer than one cell can count. *)
MCLongData == [j \in 1..Radix + 1 |-> d]

MCInstructions(programs, accounts, datas) ==
  [program : programs, keys : accounts, data : datas]

(* Five keys: one more than a message can carry. *)
MCTooManyKeys ==
  <<[program |-> system, data |-> <<>>,
     keys |-> <<[key |-> Vault, signer |-> TRUE, writable |-> TRUE],
                [key |-> target, signer |-> FALSE, writable |-> TRUE],
                [key |-> other, signer |-> FALSE, writable |-> FALSE]>>]>>

MCInstructionLists ==
  {<<>>, MCTooManyKeys}
  \cup { <<i>> : i \in MCInstructions({system}, MCAccountPairs, {<<>>, MCLongData}) }
  \cup { <<i, j>> : i \in MCInstructions({system}, MCAccountPairs, {<<d>>}),
                    j \in MCInstructions({system, target}, MCAccounts, {<<>>, MCLongData}) }

(* SystemProgram.transfer from the vault, as create_transfer_proposal builds it. *)
MCTransfer ==
  { <<[program |-> system, data |-> <<d>>,
       keys |-> <<[key |-> Vault, signer |-> TRUE, writable |-> TRUE],
                  [key |-> to, signer |-> FALSE, writable |-> TRUE]>>]>>
    : to \in {target, creator} }
=============================================================================
