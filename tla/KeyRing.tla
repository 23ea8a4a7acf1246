--------------------------------- MODULE KeyRing ---------------------------------
(***************************************************************************)
(* SecretCrypter: a ring of keys by id, from the process's configuration.  *)
(* A cryptogram names the id of its key; what opens it is the key itself.  *)
(***************************************************************************)
EXTENDS Naturals

CONSTANTS
  Keys,  \* key material
  Rings  \* the rings a process may be configured with: functions from ids to keys

\* readTokenCryptKeys: the ids are positive numbers, and of finitely many one is
\* the highest.  A malformed ring stops the program before it starts.
IsRing(ring) ==
  /\ DOMAIN ring \subseteq Nat \ {0}
  /\ DOMAIN ring # {} => \E id \in DOMAIN ring : \A other \in DOMAIN ring : id >= other
  /\ \A id \in DOMAIN ring : ring[id] \in Keys

ASSUME KeyRingAssumption == \A ring \in Rings : IsRing(ring)

Ids == UNION {DOMAIN ring : ring \in Rings}

Cryptogram == [id : Ids, key : Keys]

NoKeys(ring) == DOMAIN ring = {}

OldestId(ring) == CHOOSE id \in DOMAIN ring : \A other \in DOMAIN ring : id <= other

\* currentKeyId
CurrentId(ring) == CHOOSE id \in DOMAIN ring : \A other \in DOMAIN ring : id >= other

Encrypt(ring) == [id |-> CurrentId(ring), key |-> ring[CurrentId(ring)]]

\* keyFor throws for an id that is not there, decrypt for a key that does not fit.
CanDecrypt(ring, c) == c.id \in DOMAIN ring /\ ring[c.id] = c.key
=============================================================================
