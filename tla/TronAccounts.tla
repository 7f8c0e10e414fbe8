---------------------------- MODULE TronAccounts ----------------------------
(***************************************************************************)
(* The permissions of TRON accounts, as this program reads and checks them *)
(* (permissions/*.ts, and the permission updates of                        *)
(* security/transaction-validation.ts).  A permission says which keys,     *)
(* with which weights, may together act for an account: the owner          *)
(* permission (id 0) for everything, an active one (id 2, 3, ...) for the  *)
(* contract types in its operations.  A witness permission is checked as   *)
(* the owner permission is, and left out.                                  *)
(***************************************************************************)
EXTENDS Integers, Sequences, SequencesExt

CONSTANTS Keys,            \* the signers' keys, each with the address it controls
          MaxKeys,         \* MAX_KEYS, MAX_PERMISSION_KEYS
          MaxActives,      \* MAX_ACTIVE_PERMISSIONS
          OperationBytes,  \* OPERATIONS_BYTES
          MaxSafeInteger   \* Number.MAX_SAFE_INTEGER

ASSUME AccountsAssumption == /\ MaxKeys \in Nat /\ MaxActives \in Nat
                             /\ OperationBytes \in Nat /\ MaxSafeInteger \in Nat

(***************************************************************************)
(* operations-codec.ts: a set of contract types is kept in bytes, a type   *)
(* as bit id % 8 of byte id / 8.  A byte is the set of its bits.           *)
(***************************************************************************)
encodeOperations(ids) ==
  [byte \in 0 .. OperationBytes - 1 |->
     {id % 8 : id \in {i \in ids : i \div 8 = byte}}]

decodeOperations(bytes) ==
  UNION {{8 * byte + bit : bit \in bytes[byte]} : byte \in 0 .. OperationBytes - 1}

\* normalizeOperations takes them; what has another length is not taken, nor is <<>>, nothing.
WellFormed(bytes) == DOMAIN bytes = 0 .. OperationBytes - 1

operationAllowed(bytes, contractType) ==
  WellFormed(bytes) /\ contractType \in decodeOperations(bytes)

\* contract-types.ts
TransferContract == 1
TriggerSmartContract == 31
AccountPermissionUpdateContract == 46

(***************************************************************************)
(* Permissions: type (0 owner, 2 active), parent, threshold, operations,   *)
(* and keys, a list of [address, weight].  What a permission leaves out is *)
(* what the code takes for it: the type of its place, parent 0, operations *)
(* <<>>.  Weights and thresholds are integers; their sum is rounded in the *)
(* code when it is not a safe integer, and exact here.                     *)
(***************************************************************************)
Total(weights) == FoldLeft(LAMBDA sum, weight : sum + weight, 0, weights)
TotalWeight(keys) == Total([i \in DOMAIN keys |-> keys[i].weight])

AddressesOf(permission) == {permission.keys[i].address : i \in DOMAIN permission.keys}

\* validatePermission finds no error ...
Positive(permission) ==
  /\ permission.threshold > 0
  /\ \A i \in DOMAIN permission.keys : /\ permission.keys[i].address \in Keys
                                       /\ permission.keys[i].weight > 0
Reachable(permission) == permission.threshold <= TotalWeight(permission.keys)
Distinct(permission) ==
  \A i, j \in DOMAIN permission.keys :
    permission.keys[i].address = permission.keys[j].address => i = j

validPermission(permission) ==
  /\ Positive(permission)
  /\ permission.keys # <<>> /\ Len(permission.keys) <= MaxKeys
  /\ Distinct(permission)
  /\ Reachable(permission)
  /\ permission.type = 2 => WellFormed(permission.operations)

\* The owner permission and the active ones.
PermissionsOf(structure) == {structure.owner} \cup Range(structure.actives)

\* ... and neither does validateAccountPermissions; its warnings stop nobody, but it throws while
\* it looks for one in operations that it cannot read.
validateAccountPermissions(structure) ==
  /\ Len(structure.actives) <= MaxActives
  /\ \A permission \in PermissionsOf(structure) : validPermission(permission)
  /\ \A permission \in Range(structure.actives) :
       permission.operations = <<>> \/ WellFormed(permission.operations)

Safe(number) == number \in 1 .. MaxSafeInteger

\* Mutant: the keys' weights are not added up.
canonicalUnweighed(permission, expectedType) ==
  /\ permission.type = expectedType /\ permission.parent = 0
  /\ Safe(permission.threshold)
  /\ Len(permission.keys) \in 1 .. MaxKeys
  /\ \A i \in DOMAIN permission.keys : /\ Safe(permission.keys[i].weight)
                                       /\ permission.keys[i].address \in Keys
  /\ expectedType = 2 => WellFormed(permission.operations)

\* canonicalPermission of an imported update does not throw.  It does not mind a key that is
\* listed twice.
canonicalPermission(permission, expectedType) ==
  /\ permission.type = expectedType /\ permission.parent = 0
  /\ Safe(permission.threshold)
  /\ Len(permission.keys) \in 1 .. MaxKeys
  /\ \A i \in DOMAIN permission.keys : /\ Safe(permission.keys[i].weight)
                                       /\ permission.keys[i].address \in Keys
  /\ Reachable(permission)
  /\ expectedType = 2 => WellFormed(permission.operations)

validatePermissionUpdatePayload(structure) ==
  /\ canonicalPermission(structure.owner, 0)
  /\ Len(structure.actives) <= MaxActives
  /\ \A permission \in Range(structure.actives) : canonicalPermission(permission, 2)

(***************************************************************************)
(* What a node makes of permissions: active i has the id i + 1, and every  *)
(* key counts once, however often it is listed.                            *)
(***************************************************************************)
HasPermission(structure, id) == id = 0 \/ id - 1 \in DOMAIN structure.actives

PermissionOf(structure, id) == IF id = 0 THEN structure.owner ELSE structure.actives[id - 1]

Counts(permission, i, signers) ==
  /\ permission.keys[i].address \in signers
  /\ \A j \in DOMAIN permission.keys :
       j < i => permission.keys[j].address # permission.keys[i].address

Weight(permission, signers) ==
  Total([i \in DOMAIN permission.keys |->
           IF Counts(permission, i, signers) THEN permission.keys[i].weight ELSE 0])

Controllable(permission) == permission.threshold <= Weight(permission, Keys)
=============================================================================
