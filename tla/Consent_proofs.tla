----------------------------- MODULE Consent_proofs -----------------------------
(***************************************************************************)
(* Consent keeps its types and implements ConsentLedger, whatever subjects, *)
(* uses and expiry times there are and however many records are kept.       *)
(***************************************************************************)
EXTENDS Consent, SequenceTheorems, WellFoundedInduction, TLAPS

\* Revoking or expiring a record changes its status and expiry time only.
LEMMA RecordEnds ==
  ASSUME NEW r \in Record, NEW e \in Nat
  PROVE  /\ [r EXCEPT !.status = "revoked"] \in Record
         /\ [r EXCEPT !.status = "expired", !.expires_at = e] \in Record
         /\ [r EXCEPT !.status = "expired", !.expires_at = e].key = r.key
         /\ [r EXCEPT !.status = "expired", !.expires_at = e].status = "expired"
<1>1. DOMAIN r = {"key", "status", "expires_at"}
  BY DEF Record
<1>2. "revoked" \in ConsentStatus /\ "expired" \in ConsentStatus
  BY DEF ConsentStatus
<1>3. [r EXCEPT !.status = "revoked"] \in Record
  BY <1>2 DEF Record
<1>4. [r EXCEPT !.status = "expired", !.expires_at = e] \in Record
  BY <1>2 DEF Record
<1>5. [r EXCEPT !.status = "expired", !.expires_at = e].key = r.key
  BY <1>1
<1>6. [r EXCEPT !.status = "expired", !.expires_at = e].status = "expired"
  BY <1>1
<1> QED
  BY <1>3, <1>4, <1>5, <1>6

\* ConsentManager._records only ever holds granted, expired and revoked
\* records with an expiry time; the refinement rests on it.
THEOREM TypeCorrect == Spec => []TypeOK
<1>1. Init => TypeOK
  BY DEF Init, TypeOK
<1>2. TypeOK /\ [Next]_vars => TypeOK'
  <2> SUFFICES ASSUME TypeOK, [Next]_vars
               PROVE  TypeOK'
    OBVIOUS
  <2> USE DEF TypeOK, Record, ConsentStatus
  <2>1. CASE Tick
    BY <2>1 DEF Tick
  <2>2. ASSUME NEW k \in Keys, NEW ttl \in TTLs, Grant(k, ttl)
        PROVE  TypeOK'
    <3>1. now + ttl \in Nat
      BY TTLAssumption
    <3> QED
      BY <2>2, <3>1 DEF Grant
  <2>3. ASSUME NEW k \in Keys, Revoke(k)
        PROVE  TypeOK'
    <3>1. PICK i \in Granted(k) : records' = [records EXCEPT ![i].status = "revoked"]
      BY <2>3 DEF Revoke
    <3>2. i \in 1..Len(records)
      BY DEF Granted
    <3> DEFINE r == [records[i] EXCEPT !.status = "revoked"]
    <3>3. r \in Record
      <4> HIDE DEF Record
      <4>1. records[i] \in Record /\ 0 \in Nat
        BY <3>2, ElementOfSeq
      <4> QED
        BY <4>1, RecordEnds
    <3>4. records' = [records EXCEPT ![i] = r]
      BY <3>1
    <3> HIDE DEF r, Record
    <3>5. records' \in Seq(Record)
      BY <3>2, <3>3, <3>4, ExceptSeq
    <3> QED
      BY <2>3, <3>5 DEF Revoke
  <2>4. ASSUME NEW s \in Subjects, ExpireAll(s)
        PROVE  TypeOK'
    <3>1. DOMAIN records = 1..Len(records) /\ Len(records) \in Nat
      OBVIOUS
    <3>2. \A i \in DOMAIN records : records'[i] \in Record
      <4> HIDE DEF Record
      <4>1. \A i \in DOMAIN records : records[i] \in Record
        BY <3>1, ElementOfSeq
      <4> QED
        BY <2>4, <4>1, RecordEnds DEF ExpireAll
    <3>3. records' \in [1..Len(records) -> Record]
      BY <2>4, <3>1, <3>2 DEF ExpireAll
    <3> HIDE DEF Record
    <3>4. records' \in Seq(Record)
      BY <3>1, <3>3, SeqDef
    <3> QED
      BY <2>4, <3>4 DEF ExpireAll
  <2>5. CASE UNCHANGED vars
    BY <2>5 DEF vars
  <2> QED
    BY <2>1, <2>2, <2>3, <2>4, <2>5 DEF Next
<1> QED
  BY <1>1, <1>2, PTL DEF Spec

-----------------------------------------------------------------------------
\* What the type invariant says of a single record.
LEMMA RecordsTyped ==
  ASSUME TypeOK
  PROVE  /\ DOMAIN records = 1..Len(records) /\ Len(records) \in Nat
         /\ \A i \in DOMAIN records :
              /\ records[i] \in Record
              /\ records[i].status \in ConsentStatus
              /\ records[i].expires_at \in Nat
<1>1. \A i \in 1..Len(records) : records[i] \in Record
  BY ElementOfSeq DEF TypeOK
<1> QED
  BY <1>1, LenProperties DEF TypeOK, Record

\* A record that is in force has not expired.
LEMMA InForceIsUnexpired ==
  ASSUME TypeOK, NEW k \in Keys, NEW i \in InForce(k)
  PROVE  /\ i \in DOMAIN records
         /\ records[i].expires_at \in Nat /\ records[i].expires_at > now
<1>1. i \in DOMAIN records /\ records[i].expires_at > now
  BY DEF InForce, Granted
<1> QED
  BY <1>1, RecordsTyped

\* The clock takes the consents it passes out of the ledger.
LEMMA TickRefines == TypeOK /\ Tick => Ledger!Tick
<1> SUFFICES ASSUME TypeOK, Tick
             PROVE  Ledger!Tick
  OBVIOUS
<1>1. ASSUME NEW k \in Keys
      PROVE  InForce(k)' = {i \in InForce(k) : records[i].expires_at > now'}
  <2>1. ASSUME NEW i
        PROVE  i \in InForce(k)' <=> i \in InForce(k) /\ records[i].expires_at > now'
    <3>1. i \in DOMAIN records /\ records[i].expires_at > now' => records[i].expires_at > now
      BY RecordsTyped DEF Tick, TypeOK
    <3> QED
      BY <3>1 DEF Tick, InForce, Granted
  <2> QED
    BY <2>1
<1>2. ASSUME NEW k \in Keys
      PROVE  Book'[k] = {e \in Book[k] : e > now'}
  BY <1>1, <1>2 DEF Book, Tick
<1> QED
  BY <1>2 DEF Book, Tick, Ledger!Tick, Ledger!InForceAt, Ledger!Keys, Keys

\* A grant adds its own expiry time, unless it expires at once, and leaves
\* every other consent alone.
LEMMA GrantRefines ==
  ASSUME NEW k \in Keys, NEW ttl \in TTLs, TypeOK, Grant(k, ttl)
  PROVE  Ledger!Grant(k, ttl)
<1> DEFINE n == Len(records) + 1
           r == [key |-> k, status |-> "granted", expires_at |-> now + ttl]
<1>1. /\ DOMAIN records = 1..Len(records) /\ Len(records) \in Nat
      /\ DOMAIN records' = 1..n
      /\ records'[n] = r
      /\ \A i \in DOMAIN records : records'[i] = records[i]
      /\ now' = now /\ now \in Nat /\ ttl \in Nat
  BY TTLAssumption DEF Grant, TypeOK
<1>2. ASSUME NEW q \in Keys
      PROVE  InForce(q)' = InForce(q) \cup (IF q = k /\ ttl > 0 THEN {n} ELSE {})
  <2>1. ASSUME NEW i \in DOMAIN records
        PROVE  i \in InForce(q)' <=> i \in InForce(q)
    BY <1>1, <2>1 DEF InForce, Granted
  <2>2. n \in InForce(q)' <=> q = k /\ ttl > 0
    BY <1>1 DEF InForce, Granted
  <2>3. InForce(q)' \subseteq DOMAIN records' /\ InForce(q) \subseteq DOMAIN records
    BY DEF InForce, Granted
  <2>4. DOMAIN records' = DOMAIN records \cup {n} /\ n \notin DOMAIN records
    BY <1>1
  <2> HIDE DEF n
  <2> QED
    BY <2>1, <2>2, <2>3, <2>4
<1>3. ASSUME NEW q \in Keys
      PROVE  Book'[q] = Book[q] \cup (IF q = k /\ ttl > 0 THEN {now + ttl} ELSE {})
  <2>1. InForce(q) \subseteq DOMAIN records
    BY DEF InForce, Granted
  <2>2. /\ Book'[q] = {records'[i].expires_at : i \in InForce(q)'}
        /\ Book[q] = {records[i].expires_at : i \in InForce(q)}
    BY DEF Book
  <2>3. records'[n].expires_at = now + ttl
    BY <1>1
  <2> HIDE DEF n
  <2> QED
    BY <1>1, <1>2, <2>1, <2>2, <2>3
<1>4. \A q \in Keys : \A e \in Book[q] : e > now
  BY InForceIsUnexpired DEF Book
<1>5. Book' = [Book EXCEPT ![k] = {e \in @ \cup {now + ttl} : e > now}]
  <2>1. Book'[k] = {e \in Book[k] \cup {now + ttl} : e > now}
    <3>1. CASE ttl > 0
      BY <1>1, <1>3, <1>4, <3>1
    <3>2. CASE ttl = 0
      BY <1>1, <1>3, <1>4, <3>2
    <3> QED
      BY <1>1, <3>1, <3>2
  <2>2. \A q \in Keys : q # k => Book'[q] = Book[q]
    BY <1>3
  <2>3. Book = [q \in Keys |-> Book[q]] /\ Book' = [q \in Keys |-> Book'[q]]
    BY DEF Book
  <2> QED
    BY <2>1, <2>2, <2>3
<1> QED
  BY <1>1, <1>5 DEF Ledger!Grant, Ledger!InForceAt

\* revoke marks the newest granted record only.  That ends the older ones too:
\* check stops at the revoked record, and none after it is granted.
LEMMA RevokeRefines ==
  ASSUME NEW k \in Keys, TypeOK, Revoke(k)
  PROVE  Ledger!Withdraw(k)
<1>1. PICK i \in Granted(k) :
        /\ \A j \in Granted(k) : j <= i
        /\ records' = [records EXCEPT ![i].status = "revoked"]
  BY DEF Revoke
<1>2. /\ DOMAIN records = 1..Len(records)
      /\ i \in DOMAIN records /\ records[i].key = k
      /\ now' = now
  BY DEF Granted, Revoke, TypeOK
<1>3. /\ DOMAIN records' = DOMAIN records
      /\ \A j \in DOMAIN records : j # i => records'[j] = records[j]
      /\ records'[i].status = "revoked" /\ records'[i].key = k
  BY <1>1, <1>2 DEF TypeOK, Record
<1>4. InForce(k)' = {}
  <2>1. ASSUME NEW j \in InForce(k)'
        PROVE  FALSE
    <3>1. j \in DOMAIN records /\ j # i
      BY <1>3 DEF InForce, Granted
    <3>2. j \in Granted(k)
      BY <1>3, <3>1 DEF InForce, Granted
    <3>3. i > j
      BY <1>1, <1>2, <3>1, <3>2
    <3> QED
      BY <1>2, <1>3, <3>1, <3>3 DEF InForce
  <2> QED
    BY <2>1
<1>5. ASSUME NEW q \in Keys, q # k
      PROVE  InForce(q)' = InForce(q)
  <2>1. ASSUME NEW j
        PROVE  j \in InForce(q)' <=> j \in InForce(q)
    BY <1>2, <1>3, <1>5 DEF InForce, Granted
  <2> QED
    BY <2>1
<1>6. \A q \in Keys : q # k => i \notin InForce(q)
  BY <1>2 DEF InForce, Granted
<1>7. \A q \in Keys : q # k => Book'[q] = Book[q]
  <2>1. ASSUME NEW q \in Keys, q # k
        PROVE  \A j \in InForce(q) : records'[j] = records[j]
    BY <1>3, <1>6, <2>1 DEF InForce, Granted
  <2> QED
    BY <1>5, <2>1 DEF Book
<1>8. Book' = [Book EXCEPT ![k] = {}]
  BY <1>4, <1>7 DEF Book
<1> QED
  BY <1>2, <1>8 DEF Ledger!Withdraw

\* expire_all ends every consent of a subject and revokes none, so that the
\* consents of the others stay as they are.
LEMMA ExpireAllRefines ==
  ASSUME NEW s \in Subjects, TypeOK, ExpireAll(s)
  PROVE  Ledger!ExpireAll(s)
<1>1. /\ DOMAIN records' = DOMAIN records
      /\ now' = now
      /\ \A i \in DOMAIN records :
            records'[i] = IF records[i].key[1] = s /\ Unexpired(records[i])
                          THEN [records[i] EXCEPT !.status = "expired", !.expires_at = now]
                          ELSE records[i]
  BY DEF ExpireAll
<1>2. \A i \in DOMAIN records :
        /\ records'[i].key = records[i].key
        /\ records'[i].status = "revoked" <=> records[i].status = "revoked"
  <2>1. ASSUME NEW i \in DOMAIN records, records[i].key[1] = s, Unexpired(records[i])
        PROVE  /\ records'[i].key = records[i].key
               /\ records'[i].status = "expired" /\ records[i].status = "granted"
    <3>1. records[i] \in Record /\ now \in Nat
      BY RecordsTyped DEF TypeOK
    <3>2. records'[i] = [records[i] EXCEPT !.status = "expired", !.expires_at = now]
      BY <1>1, <2>1
    <3>3. records'[i].key = records[i].key /\ records'[i].status = "expired"
      BY <3>1, <3>2, RecordEnds
    <3> QED
      BY <2>1, <3>3 DEF Unexpired
  <2> QED
    BY <1>1, <2>1
<1>3. ASSUME NEW q \in Keys, q[1] = s
      PROVE  InForce(q)' = {}
  <2>1. ASSUME NEW i \in InForce(q)'
        PROVE  FALSE
    <3>1. i \in DOMAIN records /\ records'[i].key = q /\ records'[i].status = "granted"
          /\ records'[i].expires_at > now
      BY <1>1 DEF InForce, Granted
    <3>2. records[i].key[1] = s
      BY <1>2, <1>3, <3>1
    <3>3. records[i] \in Record
      BY <3>1 DEF TypeOK
    <3>4. CASE Unexpired(records[i])
      BY <1>1, <3>1, <3>2, <3>3, <3>4 DEF Record
    <3>5. CASE ~Unexpired(records[i])
      BY <1>1, <3>1, <3>5 DEF Unexpired
    <3> QED
      BY <3>4, <3>5
  <2> QED
    BY <2>1
<1>4. ASSUME NEW q \in Keys, q[1] # s
      PROVE  /\ InForce(q)' = InForce(q)
             /\ \A i \in InForce(q) : records'[i] = records[i]
  <2>1. \A i \in DOMAIN records : records[i].key = q => records'[i] = records[i]
    BY <1>1, <1>4
  <2>2. Granted(q)' = Granted(q)
    BY <1>1, <1>2, <2>1 DEF Granted
  <2>3. ASSUME NEW i
        PROVE  i \in InForce(q)' <=> i \in InForce(q)
    <3>1. \A j \in DOMAIN records :
            (records'[j].key = q => records'[j].status # "revoked")
              <=> (records[j].key = q => records[j].status # "revoked")
      BY <1>2
    <3>2. i \in Granted(q) => records'[i] = records[i]
      BY <2>1 DEF Granted
    <3> QED
      BY <1>1, <2>2, <3>1, <3>2 DEF InForce
  <2> QED
    BY <2>1, <2>3 DEF InForce, Granted
<1>5. Book' = [q \in Keys |-> IF q[1] = s THEN {} ELSE Book[q]]
  BY <1>3, <1>4 DEF Book
<1> QED
  BY <1>1, <1>5 DEF Ledger!ExpireAll, Ledger!Keys, Keys

\* Every step of the record list is a step of the ledger, or none: the consents
\* in force are exactly those a reader of the grants and withdrawals expects.
THEOREM Refinement == Spec => ImplementsLedger
<1>1. Init => Ledger!Init
  BY DEF Init, Ledger!Init, Ledger!Keys, Keys, Book, InForce, Granted
<1>2. TypeOK /\ [Next]_vars => [Ledger!Next]_<<now, Book>>
  <2> SUFFICES ASSUME TypeOK, [Next]_vars
               PROVE  [Ledger!Next]_<<now, Book>>
    OBVIOUS
  <2>1. CASE Tick
    BY <2>1, TickRefines DEF Ledger!Next
  <2>2. ASSUME NEW k \in Keys, NEW ttl \in TTLs, Grant(k, ttl)
        PROVE  Ledger!Next
    BY <2>2, GrantRefines DEF Ledger!Next, Ledger!Keys, Keys
  <2>3. ASSUME NEW k \in Keys, Revoke(k)
        PROVE  Ledger!Next
    BY <2>3, RevokeRefines DEF Ledger!Next, Ledger!Keys, Keys
  <2>4. ASSUME NEW s \in Subjects, ExpireAll(s)
        PROVE  Ledger!Next
    BY <2>4, ExpireAllRefines DEF Ledger!Next
  <2>5. CASE UNCHANGED vars
    BY <2>5 DEF vars, Book, InForce, Granted
  <2> QED
    BY <2>1, <2>2, <2>3, <2>4, <2>5 DEF Next
<1> QED
  BY <1>1, <1>2, TypeCorrect, PTL DEF Spec, ImplementsLedger, Ledger!Spec

-----------------------------------------------------------------------------
\* A non-empty set of positions has a last one.
LEMMA LastPosition ==
  ASSUME NEW n \in Nat, NEW S, S \subseteq 1..n, S # {}
  PROVE  \E i \in S : \A j \in S : j <= i
<1> DEFINE T == {m \in Nat : n - m \in S}
<1>1. \A i \in S : n - i \in T
  <2>1. \A i \in S : i \in Nat /\ n - i \in Nat /\ n - (n - i) = i
    OBVIOUS
  <2> QED
    BY <2>1
<1>2. PICK x \in T : \A y \in T : <<y, x>> \notin OpToRel(<, Nat)
  <2>1. T \subseteq Nat /\ T # {}
    BY <1>1
  <2> HIDE DEF T
  <2> QED
    BY <2>1, NatLessThanWellFounded, WFMin, Zenon
<1>3. \A y \in T : ~ (y < x)
  BY <1>2, Zenon DEF OpToRel
<1>4. n - x \in S /\ x \in Nat
  OBVIOUS
<1>5. \A j \in S : j <= n - x
  <2> TAKE j \in S
  <2>1. ~ (n - j < x) /\ j \in Nat
    BY <1>1, <1>3
  <2> QED
    BY <1>4, <2>1
<1> QED
  BY <1>4, <1>5

\* check stops at the newest decisive record: it is in force exactly when some
\* record is, as every record in force is decisive and none after it is revoked.
THEOREM CheckAnswersLedger == Spec => []CheckIsLedger
<1>1. TypeOK => CheckIsLedger
  <2> SUFFICES ASSUME TypeOK, NEW k \in Keys
               PROVE  Check(k) <=> InForce(k) # {}
    BY DEF CheckIsLedger
  <2> DEFINE decisive == {i \in DOMAIN records :
                            /\ records[i].key = k
                            /\ Unexpired(records[i]) \/ records[i].status = "revoked"}
  <2>1. DOMAIN records = 1..Len(records) /\ Len(records) \in Nat
    BY RecordsTyped
  <2>2. ASSUME NEW i \in decisive, \A j \in decisive : j <= i, Unexpired(records[i])
        PROVE  i \in InForce(k)
    <3>1. ASSUME NEW j \in DOMAIN records, j > i, records[j].key = k
          PROVE  records[j].status # "revoked"
      BY <2>1, <2>2, <3>1
    <3> QED
      BY <2>2, <3>1 DEF InForce, Granted, Unexpired
  <2>3. ASSUME NEW m \in InForce(k)
        PROVE  Check(k)
    <3>1. m \in decisive
      BY <2>3 DEF InForce, Granted, Unexpired
    <3>2. PICK i \in decisive : \A j \in decisive : j <= i
      <4>1. decisive \subseteq 1..Len(records) /\ decisive # {}
        BY <2>1, <3>1
      <4> HIDE DEF decisive
      <4> QED
        BY <2>1, <4>1, LastPosition
    <3>3. records[i].status # "revoked"
      <4>1. CASE i = m
        BY <2>3, <4>1 DEF InForce, Granted
      <4>2. CASE i # m
        BY <2>1, <2>3, <3>1, <3>2, <4>2 DEF InForce
      <4> QED
        BY <4>1, <4>2
    <3> QED
      BY <3>2, <3>3 DEF Check
  <2> QED
    BY <2>2, <2>3 DEF Check
<1> QED
  BY <1>1, TypeCorrect, PTL
=============================================================================
