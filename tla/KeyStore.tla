------------------------------ MODULE KeyStore -------------------------------
(***************************************************************************)
(* The key store: the keys table of one SQLite database (src/sqlite/db.go) *)
(* and what is encrypted with its keys (src/encr/encr.go).  Bridges and    *)
(* the encr tool (src/utils/encr.go) run on it at the same time; each      *)
(* opens the database, seeds it when it holds no key, and encrypts or      *)
(* decrypts.  A ciphertext names its key by the first eight digits.        *)
(* AES-GCM is taken to fail on every key but the one that encrypted.       *)
(***************************************************************************)
EXTENDS Naturals, FiniteSets

CONSTANTS
  Procs,     \* processes that use the database
  Values,    \* key values that random numbers or the operator may yield
  Prefix(_)  \* the first eight digits of a value

VARIABLES
  keys,     \* rows of the table
  at,       \* how far each process is
  printed   \* ciphertexts the encr tool has printed

storeVars == <<keys, at, printed>>

Key(id, v) == [id |-> id, value |-> v]
Used == {k.value : k \in keys}
Ids  == {k.id : k \in keys}
Cipher(k) == [prefix |-> Prefix(k.value), key |-> k.value]

\* The rows Decrypt may find, LIMIT 1 and in no order.
Rows(prefix) == {k \in keys : Prefix(k.value) = prefix}

Go(p, place) == at' = [at EXCEPT ![p] = place]
-----------------------------------------------------------------------------
Init ==
  /\ keys = {}
  /\ at = [p \in Procs |-> "start"]
  /\ printed = {}

\* Mutant: SeedKeys does not look whether there is a key.
CountNothing(p) ==
  /\ at[p] = "start"
  /\ Go(p, "insert")
  /\ UNCHANGED <<keys, printed>>

\* OpenDB creates the table if need be, and SeedKeys counts its rows.
Count(p) ==
  /\ at[p] = "start"
  /\ Go(p, IF keys = {} THEN "insert" ELSE "ready")
  /\ UNCHANGED <<keys, printed>>

\* Mutant: the seed replaces a row that is there.
InsertReplacing(p) ==
  /\ at[p] = "insert"
  /\ \E v \in Values \ Used :
       keys' = {k \in keys : k.id # 1} \cup {Key(1, v)}
  /\ Go(p, "ready")
  /\ UNCHANGED printed

\* A random key becomes row 1; the primary key refuses a second one.
Insert(p) ==
  /\ at[p] = "insert"
  /\ \/ /\ 1 \notin Ids
        /\ \E v \in Values \ Used : keys' = keys \cup {Key(1, v)}
        /\ Go(p, "ready")
     \/ /\ 1 \in Ids
        /\ Go(p, "failed")
        /\ UNCHANGED keys
  /\ UNCHANGED printed

\* A query, the random source or the database fails.
Fails(p) ==
  /\ at[p] \in {"start", "insert"}
  /\ Go(p, "failed")
  /\ UNCHANGED <<keys, printed>>

\* The encr tool encrypts with any of the keys, and ends.
Encrypt(p) ==
  /\ at[p] = "ready"
  /\ \E k \in keys : printed' = printed \cup {Cipher(k)}
  /\ Go(p, "ended")
  /\ UNCHANGED keys

\* The operator adds a key by hand: Encrypt and Decrypt allow for several.
AddKey(v) ==
  /\ keys # {} /\ v \notin Used
  /\ keys' = keys \cup {Key(Cardinality(keys) + 1, v)}
  /\ UNCHANGED <<at, printed>>

\* Decrypt: GCM opens ciphertext c with row k only then.
Opens(c, k) == k.value = c.key
-----------------------------------------------------------------------------
\* Every ciphertext the tool has printed can be decrypted, by every process
\* and with whichever row its prefix finds: the key of the loser of a race
\* to seed the table is never used, and that of the winner stays.
SecretsReadable ==
  \A c \in printed : /\ Rows(c.prefix) # {}
                     /\ \A k \in Rows(c.prefix) : Opens(c, k)

\* Every variable has its type; ids and values are unique, and a process that
\* got through the seeding finds a key.
StoreTypeOK ==
  /\ keys \subseteq [id : Nat \ {0}, value : Values]
  /\ \A k, l \in keys : k.id = l.id \/ k.value = l.value => k = l
  /\ at \in [Procs -> {"start", "insert", "ready", "failed", "ended"}]
  /\ \A p \in Procs : at[p] \in {"ready", "ended"} => keys # {}
  /\ printed \subseteq [prefix : {Prefix(v) : v \in Values}, key : Values]
=============================================================================
