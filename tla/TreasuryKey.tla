------------------------------ MODULE TreasuryKey ------------------------------
(***************************************************************************)
(* The treasury's private key on its way from create_multisig, which       *)
(* generates, splits and encrypts it, through the shares in the multisig   *)
(* account to execute_private_proposal, which combines the shares that the *)
(* members have decrypted.                                                 *)
(*                                                                         *)
(* A key has two bytes instead of 32.  Shamir's scheme and the encryption  *)
(* are libraries: a share knows the bytes and the threshold it is from,    *)
(* and a ciphertext opens for the member it was made for.                  *)
(***************************************************************************)
EXTENDS Integers, Sequences, FiniteSetsExt

CONSTANTS
  Base,            (* values of a byte                                      *)
  PublicKeyOf,     (* generateUtxoKeypair: public key of every private key  *)
  NoShare          (* no entry for the member, or it does not decrypt       *)

Secrets == DOMAIN PublicKeyOf

ASSUME SecretsAssumption ==
  /\ Base \in Nat \ {0}
  /\ Secrets \subseteq 0..Base * Base - 1
  /\ \A k \in Secrets : PublicKeyOf[k] \in 0..Base * Base - 1
  /\ \A k, l \in Secrets : PublicKeyOf[k] = PublicKeyOf[l] => k = l
  /\ NoShare \notin [secret : (0..Base - 1) \X (0..Base - 1), threshold : 2..255,
                     coordinate : 1..255]

(* What stands for a key that cannot be reconstructed: `combine` throws, or      *)
(* interpolates bytes that mean nothing.                                      *)
NoKey == -1

(* bigIntToLittleEndianBytes(value, 32), and its inverse bytes32ToBigint. *)
LittleEndian(value) == <<value % Base, (value \div Base) % Base>>

FromLittleEndian(bytes) == bytes[2] * Base + bytes[1]

(* Uint8Array.reverse *)
Backwards(bytes) == <<bytes[2], bytes[1]>>

(* be32ToBigint *)
FromBigEndianMutLittle(bytes) == FromLittleEndian(bytes)

FromBigEndian(bytes) == bytes[1] * Base + bytes[2]

------------------------------------------------------------------------------
(* shamir-secret-sharing *)

(* What `split` accepts. *)
CanSplit(shares, threshold) ==
  /\ shares \in 2..255 /\ threshold \in 2..255
  /\ threshold <= shares

Split(secret, shares, threshold) ==
  [i \in 1..shares |->
     [secret |-> secret, threshold |-> threshold, coordinate |-> i]]

(* `combine` of the shares that so many members submitted: it refuses a single   *)
(* share and two of the same coordinate; the interpolation yields the secret    *)
(* from enough shares of one splitting, and otherwise meaningless bytes.        *)
Coordinates(shares) == { s.coordinate : s \in shares }

CanCombine(shares, submitted) ==
  /\ submitted \in 2..255
  /\ Cardinality(Coordinates(shares)) = submitted

SplitTogether(shares) ==
  \A s, t \in shares : s.secret = t.secret /\ s.threshold <= Cardinality(shares)

------------------------------------------------------------------------------
(* createMultisig: the list of encrypted shares, in the order of the members. *)

Encrypt(share, member) == [to |-> member, share |-> share]

EncryptedSharesMutFirst(shares, members) ==
  [i \in DOMAIN members |->
     [member |-> members[i], ciphertext |-> Encrypt(shares[1], members[i])]]

EncryptedShares(shares, members) ==
  [i \in DOMAIN members |->
     [member |-> members[i], ciphertext |-> Encrypt(shares[i], members[i])]]

(* treasuryPkBytesBE, split and encrypted. *)
SharesOfKey(secret, members, threshold) ==
  EncryptedShares(Split(Backwards(LittleEndian(secret)), Len(members), threshold), members)

(* fetchAndDecryptShare: the first entry under the member's key. *)
Decrypt(ciphertext, member) ==
  IF ciphertext.to = member THEN ciphertext.share ELSE NoShare

Entries(entries, member) == {i \in DOMAIN entries : entries[i].member = member}

FetchShare(entries, member) ==
  IF Entries(entries, member) = {} THEN NoShare
  ELSE Decrypt(entries[Min(Entries(entries, member))].ciphertext, member)

(* reconstructKeyFromShares, of what the members of a set have submitted. *)
Submitted(entries, members) == { FetchShare(entries, m) : m \in members }

Reconstruct(entries, members) ==
  LET shares == Submitted(entries, members) IN
  IF NoShare \in shares \/ ~CanCombine(shares, Cardinality(members)) THEN NoKey
  ELSE IF SplitTogether(shares) THEN FromBigEndian((CHOOSE s \in shares : TRUE).secret)
  ELSE NoKey
=============================================================================
