----------------------------- MODULE WalletKeys -----------------------------
(***************************************************************************)
(* The key pair of the wallet app (apps/wallet/lib/crypto.ts).  The two    *)
(* halves are two entries of the phone's storage, every access to one is   *)
(* an await, and ensureKeyPair is called by the start of the app and,      *)
(* twice, by the redemption of a challenge (lib/identity.ts): once for the *)
(* key the assertion names and once more to sign it.                       *)
(*                                                                         *)
(* A key pair is a number; both halves of it are stored as that number.    *)
(***************************************************************************)
EXTENDS Naturals

CONSTANTS
  NoKey,     \* nothing is stored
  MaxKeys    \* bound: the key pairs that are generated

ASSUME KeyAssumption == MaxKeys \in Nat /\ NoKey \notin 1 .. MaxKeys

VARIABLES
  publicKey,    \* the entry vri_public_key
  secretKey,    \* the entry of the secret key
  keys,         \* how many key pairs nacl.sign.keyPair has returned
  tasks,        \* the two callers of ensureKeyPair: where each one is
  overlapped    \* history: both have been under way at once

keyVars == <<publicKey, secretKey, keys, tasks, overlapped>>

Callers == {"boot", "redeem"}
Places == {"idle", "readPublic", "readSecret", "deletePublic", "storeSecret", "storePublic", "sign"}
Idle == [at |-> "idle", key |-> NoKey, named |-> NoKey]

Overlapping == \A t \in Callers : tasks'[t].at # "idle"
Move(t, task) ==
  /\ tasks' = [tasks EXCEPT ![t] = task]
  /\ overlapped' = (overlapped \/ Overlapping)

\* What a caller does once it has the public key: the start is over, and a
\* redemption, which has named the key in its assertion, goes on to sign.
Having(t, key) ==
  IF t = "boot" THEN Idle
  ELSE IF tasks[t].named = NoKey THEN [at |-> "readPublic", key |-> NoKey, named |-> key]
  ELSE [tasks[t] EXCEPT !.at = "sign"]

-----------------------------------------------------------------------------
Begin(t) ==
  /\ tasks[t].at = "idle"
  /\ Move(t, [Idle EXCEPT !.at = "readPublic"])
  /\ UNCHANGED <<publicKey, secretKey, keys>>

\* Without a public key a pair is generated on the spot.
Generated(t) == [tasks[t] EXCEPT !.at = "storeSecret", !.key = keys + 1]

ReadPublic(t) ==
  /\ tasks[t].at = "readPublic"
  /\ \/ /\ publicKey = NoKey
        /\ keys < MaxKeys
        /\ keys' = keys + 1
        /\ Move(t, Generated(t))
     \/ /\ publicKey # NoKey
        /\ Move(t, [tasks[t] EXCEPT !.at = "readSecret", !.key = publicKey])
        /\ UNCHANGED keys
  /\ UNCHANGED <<publicKey, secretKey>>

\* loadSecretKey: the protected read and the plain one see the same entry.
ReadSecret(t) ==
  /\ tasks[t].at = "readSecret"
  /\ Move(t, IF secretKey # NoKey THEN Having(t, tasks[t].key)
             ELSE [tasks[t] EXCEPT !.at = "deletePublic"])
  /\ UNCHANGED <<publicKey, secretKey, keys>>

MutantKeepPublic(t) ==
  /\ tasks[t].at = "deletePublic"
  /\ keys < MaxKeys
  /\ keys' = keys + 1
  /\ Move(t, Generated(t))
  /\ UNCHANGED <<publicKey, secretKey>>

DeletePublic(t) ==
  /\ tasks[t].at = "deletePublic"
  /\ keys < MaxKeys
  /\ publicKey' = NoKey
  /\ keys' = keys + 1
  /\ Move(t, Generated(t))
  /\ UNCHANGED secretKey

\* storeSecretKey, with or without the authentication of the user.
StoreSecret(t) ==
  /\ tasks[t].at = "storeSecret"
  /\ secretKey' = tasks[t].key
  /\ Move(t, [tasks[t] EXCEPT !.at = "storePublic"])
  /\ UNCHANGED <<publicKey, keys>>

StorePublic(t) ==
  /\ tasks[t].at = "storePublic"
  /\ publicKey' = tasks[t].key
  /\ Move(t, Having(t, tasks[t].key))
  /\ UNCHANGED <<secretKey, keys>>

\* signDigest reads the secret key once more and signs, or throws.
SignDigest(t) ==
  /\ tasks[t].at = "sign"
  /\ Move(t, Idle)
  /\ UNCHANGED <<publicKey, secretKey, keys>>

\* The app is killed between two accesses; the storage keeps what it has.
KillApp ==
  /\ tasks' = [t \in Callers |-> Idle]
  /\ UNCHANGED <<publicKey, secretKey, keys, overlapped>>

\* The platform drops an authenticated entry, as it does when the
\* fingerprints or the passcode of the phone change.
SecretInvalidated ==
  /\ secretKey # NoKey
  /\ secretKey' = NoKey
  /\ UNCHANGED <<publicKey, keys, tasks, overlapped>>

KeyInit ==
  /\ publicKey = NoKey
  /\ secretKey = NoKey
  /\ keys = 0
  /\ tasks = [t \in Callers |-> Idle]
  /\ overlapped = FALSE

KeyNext ==
  \/ \E t \in Callers :
       \/ Begin(t) \/ ReadPublic(t) \/ ReadSecret(t) \/ DeletePublic(t)
       \/ StoreSecret(t) \/ StorePublic(t) \/ SignDigest(t)
  \/ KillApp
  \/ SecretInvalidated

KeySpec == KeyInit /\ [][KeyNext]_keyVars

-----------------------------------------------------------------------------
\* The stored halves belong together whenever both are there, through kills
\* between any two accesses and entries the phone drops, as long as the
\* start of the app and a redemption have not overlapped: a pair that does
\* not match would be taken for complete at every later start, and every
\* assertion it signs would be refused.
KeysMatch ==
  overlapped \/ publicKey = NoKey \/ secretKey = NoKey \/ publicKey = secretKey
=============================================================================
