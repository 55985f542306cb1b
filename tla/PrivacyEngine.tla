----------------------------- MODULE PrivacyEngine -----------------------------
(***************************************************************************)
(* zilli/privacy: DataClassifier.classify, ReIDAssessor.assess and          *)
(* PrivacyEngine.evaluate as operators over what they tell a text apart by: *)
(* the PII and the keywords in it, its quasi-identifiers, and whether the   *)
(* sanitizer leaves PII behind.                                             *)
(***************************************************************************)
EXTENDS Naturals

\* CLASS_LEVEL.
Public == 0
Internal == 1
Confidential == 2
Restricted == 3
Regulated == 4
Class == Public..Regulated

\* _RISK_ORDER.
NoRisk == 0
Low == 1
Medium == 2
High == 3
Critical == 4

\* pii: the classes its PII maps to, which is Confidential where
\* _REGULATED_PII_MAP has no entry; keyword: the highest class of its keywords.
Texts == [pii : SUBSET (Confidential..Regulated), keyword : Class, quasi : NoRisk..High, residue : BOOLEAN]

Policies(providers) == [maxClass : Class, providers : SUBSET providers, requireConsent : BOOLEAN]

\* classify: the highest class of PII and keywords.
DataClass(t) == CHOOSE c \in t.pii \union {t.keyword} : \A d \in t.pii \union {t.keyword} : d <= c

RequiresSanitization(t) == DataClass(t) >= Confidential
CanUseCloud(t) == DataClass(t) <= Internal

Sanitizes(t, mode) == mode \in {"strict", "force"} \/ RequiresSanitization(t)

\* assess: PII that is still there is a direct identifier.
Assess(t, sanitized) == IF t.pii # {} /\ (sanitized => t.residue) THEN Critical ELSE t.quasi

\* evaluate for a user (or none) with the uses consented to.
Evaluate_AnyClass(t, mode, requireCloud, user, consented, policy) ==
    LET risk == Assess(t, Sanitizes(t, mode))
        canLocal == ~user \/ "local" \in consented
        canCloud == risk <= Low /\ (user => "cloud" \in consented)
    IN  [passed |-> canLocal \/ canCloud, sanitized |-> Sanitizes(t, mode), canCloud |-> canCloud, canLocal |-> canLocal]

Evaluate(t, mode, requireCloud, user, consented, policy) ==
    LET risk == Assess(t, Sanitizes(t, mode))
        canLocal == ~requireCloud /\ (user => "local" \in consented)
        canCloud == /\ requireCloud
                    /\ CanUseCloud(t)
                    /\ risk <= Low
                    /\ user => "cloud" \in consented
    IN  [passed |-> /\ DataClass(t) <= policy.maxClass
                    /\ policy.requireConsent => user
                    /\ canLocal \/ canCloud,
         sanitized |-> Sanitizes(t, mode),
         canCloud |-> canCloud,
         canLocal |-> canLocal]

=============================================================================
