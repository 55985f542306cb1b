-------------------------------- MODULE Consent --------------------------------
(***************************************************************************)
(* zilli/privacy/consent.py: ConsentManager, a list of records that is      *)
(* searched backwards.  A subject is a pair of tenant and user; uses are    *)
(* members of DataUse.  Time is counted in the unit of the smallest TTL.    *)
(***************************************************************************)
EXTENDS Naturals, Sequences

CONSTANTS
    Subjects,   \* (tenant_id, user_id)
    Uses,       \* members of DataUse
    TTLs,       \* values of ttl_days
    MaxRecords, \* bound: calls of grant
    MaxTime     \* bound: the clock

ASSUME TTLAssumption == TTLs \subseteq Nat

VARIABLES
    now,      \* time.time()
    records   \* ConsentManager._records

vars == <<now, records>>

Keys == Subjects \X Uses
ConsentStatus == {"granted", "expired", "revoked"}
Record == [key : Keys, status : ConsentStatus, expires_at : Nat]

TypeOK ==
    /\ now \in Nat
    /\ records \in Seq(Record)

Init ==
    /\ now = 0
    /\ records = <<>>

Tick ==
    /\ now < MaxTime
    /\ now' = now + 1
    /\ UNCHANGED records

Grant(k, ttl) ==
    /\ Len(records) < MaxRecords
    /\ records' = Append(records, [key |-> k, status |-> "granted", expires_at |-> now + ttl])
    /\ UNCHANGED now

Granted(k) == {i \in DOMAIN records : records[i].key = k /\ records[i].status = "granted"}

Revoke_Oldest(k) ==
    /\ \E i \in Granted(k) :
          /\ \A j \in Granted(k) : i <= j
          /\ records' = [records EXCEPT ![i].status = "revoked"]
    /\ UNCHANGED now

\* revoke marks the newest granted record, expired by the clock or not; it
\* returns False and changes nothing when there is none.
Revoke(k) ==
    /\ \E i \in Granted(k) :
          /\ \A j \in Granted(k) : j <= i
          /\ records' = [records EXCEPT ![i].status = "revoked"]
    /\ UNCHANGED now

Unexpired(r) == r.status = "granted" /\ r.expires_at > now

ExpireAll(s) ==
    /\ records' = [i \in DOMAIN records |->
                     IF records[i].key[1] = s /\ Unexpired(records[i])
                     THEN [records[i] EXCEPT !.status = "expired", !.expires_at = now]
                     ELSE records[i]]
    /\ UNCHANGED now

Check_AnyGrant(k) == \E i \in Granted(k) : records[i].expires_at > now

\* check stops at the newest record that is in force or revoked, and passes
\* over the others.
Check(k) ==
    LET decisive == {i \in DOMAIN records :
                       /\ records[i].key = k
                       /\ Unexpired(records[i]) \/ records[i].status = "revoked"}
    IN  \E i \in decisive : (\A j \in decisive : j <= i) /\ Unexpired(records[i])

Next ==
    \/ Tick
    \/ \E k \in Keys : Revoke(k) \/ \E ttl \in TTLs : Grant(k, ttl)
    \/ \E s \in Subjects : ExpireAll(s)

Spec == Init /\ [][Next]_vars

-----------------------------------------------------------------------------
(***************************************************************************)
(* The ledger the records stand for: a consent is in force if no record     *)
(* after it was revoked for the same subject and use.                       *)
(***************************************************************************)
InForce(k) ==
    {i \in Granted(k) :
       /\ records[i].expires_at > now
       /\ \A j \in DOMAIN records : j > i /\ records[j].key = k => records[j].status # "revoked"}

Book == [k \in Keys |-> {records[i].expires_at : i \in InForce(k)}]

Ledger == INSTANCE ConsentLedger WITH ledger <- Book

\* Revoking only the newest record, and overwriting expiry times, implement the
\* ledger: a withdrawal ends every older consent as well.
ImplementsLedger == Ledger!Spec

\* check answers exactly whether a consent is in force, in whatever order
\* consents were given, revoked, expired by the clock and expired by hand.
CheckIsLedger == \A k \in Keys : Check(k) <=> InForce(k) # {}
=============================================================================
