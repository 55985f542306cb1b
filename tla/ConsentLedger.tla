----------------------------- MODULE ConsentLedger -----------------------------
(***************************************************************************)
(* What a consent store promises: for each subject and use, the consents    *)
(* that are in force now.  Withdrawing ends every consent to that use,      *)
(* whichever was given last; expiring a subject ends all of them.           *)
(***************************************************************************)
EXTENDS Naturals

CONSTANTS Subjects, Uses, TTLs

VARIABLES
    now,
    ledger   \* <<subject, use>> -> the expiry times of the consents in force

Keys == Subjects \X Uses

InForceAt(t, expiries) == {e \in expiries : e > t}

Init ==
    /\ now = 0
    /\ ledger = [k \in Keys |-> {}]

Tick ==
    /\ now' = now + 1
    /\ ledger' = [k \in Keys |-> InForceAt(now', ledger[k])]

Grant(k, ttl) ==
    /\ ledger' = [ledger EXCEPT ![k] = InForceAt(now, @ \cup {now + ttl})]
    /\ UNCHANGED now

Withdraw(k) ==
    /\ ledger' = [ledger EXCEPT ![k] = {}]
    /\ UNCHANGED now

ExpireAll(s) ==
    /\ ledger' = [k \in Keys |-> IF k[1] = s THEN {} ELSE ledger[k]]
    /\ UNCHANGED now

Next ==
    \/ Tick
    \/ \E k \in Keys : Withdraw(k) \/ \E ttl \in TTLs : Grant(k, ttl)
    \/ \E s \in Subjects : ExpireAll(s)

Spec == Init /\ [][Next]_<<now, ledger>>
=============================================================================
