----------------------- MODULE TransactionRowsProofs -----------------------
(***************************************************************************)
(* Proofs about the rows that an authorization leaves behind, while it     *)
(* lasts and after it: AuthorizeFlow, for any number of browsers'          *)
(* transactions, users and concurrent requests; and Retention, for any     *)
(* lifetimes, retentions and batch size.                                   *)
(*                                                                         *)
(* ReplayEvidence is not inductive.  EvidenceInv adds what has not been    *)
(* issued yet: a family is begun, and a code written, where there was      *)
(* none, so a generation or a code that is gone is not taken for the       *)
(* evidence of a later one.  It also adds that nothing comes to refer to a *)
(* row between its selection by a delete statement and the deletion.       *)
(***************************************************************************)
EXTENDS AuthorizeFlow, Retention, TLAPS

-----------------------------------------------------------------------------
(* Retention.                                                              *)

\* What has not been issued yet: before the code is exchanged there is no family
\* and no generation of it; before the transaction is consumed there is no code.
NotYetIssued ==
    /\ access[0].is = "none" =>
         /\ family.is = "none"
         /\ \A g \in Generation : access[g].is = "none" /\ refresh[g] = "none"
    /\ transaction.is = "none" \/ ~transaction.consumed => code.is = "none"

\* The rows that are records.
TransactionState == [is : Presence, expires : Nat, ends : Nat, consumed : BOOLEAN]
LogoutState == [is : Presence, ends : Nat, bound : BOOLEAN, consumed : BOOLEAN]
FamilyState == [is : Presence, ends : Nat, revoked : 0..MaxNow]

Evidence == ReplayEvidence /\ NotYetIssued

\* What a delete statement has selected is still due, and nothing refers to it.
SelectionSafe ==
    /\ selected.of = "transaction" =>
         /\ step = "transactions" /\ transaction.is = "kept" /\ transaction.consumed
         /\ transaction.ends + ProtocolRetention <= time
         /\ ~TransactionReferenced
    /\ selected.of \in {"generations", "family"} =>
         /\ step = "refresh" /\ family.is = "kept"
         /\ family.ends + LongRetention <= time
         /\ selected.generations \subseteq KeptGenerations
         /\ \A g \in selected.generations : ~SourceOfAccess(g)
    /\ selected.of = "family" /\ selected.row => ~FamilyReferenced(LeftGenerations)

EvidenceInv == Evidence /\ SelectionSafe

\* There is a first generation, and every one but the last has a successor.
LEMMA Generations ==
    /\ 0 \in Generation /\ LastGeneration \in Nat
    /\ \A g \in Generation : g \in Nat /\ (g < LastGeneration => g + 1 \in Generation)
BY RetentionAssumption DEF Generation

\* The clock, the reading of the run and the lengths are natural numbers.
LEMMA ReadingsNat ==
    ASSUME RetentionTypeOK
    PROVE  /\ time \in Nat /\ time \in 0..MaxNow /\ reading \in Nat /\ reading <= time
           /\ ProtocolRetention \in Nat /\ LongRetention \in Nat /\ MaxNow \in Nat
           /\ \A ttl \in {LoginTTL, FlowTTL, CodeTTL, AccessTTL, AbsoluteTTL, LogoutTTL} :
                \A r \in 0..time : r + ttl \in Nat
           /\ \A ttl \in {LoginTTL, FlowTTL, CodeTTL, AccessTTL, AbsoluteTTL, LogoutTTL} :
                time + ttl \in Nat
BY RetentionAssumption DEF RetentionTypeOK

\* A row that begins, ends or is deleted is a row.
LEMMA RowChanges ==
    ASSUME NEW entry \in RetainedRow, NEW n \in Nat
    PROVE  /\ [is |-> "kept", ends |-> n] \in RetainedRow
           /\ [entry EXCEPT !.ends = n] \in RetainedRow
           /\ [entry EXCEPT !.is = "gone"] \in RetainedRow
BY DEF RetainedRow, Presence

\* A transaction that begins, is consumed or is deleted is a transaction.
LEMMA TransactionChanges ==
    ASSUME NEW t \in TransactionState, NEW n \in Nat
    PROVE  /\ [is |-> "kept", expires |-> n, ends |-> n, consumed |-> FALSE] \in TransactionState
           /\ [t EXCEPT !.consumed = TRUE, !.ends = n] \in TransactionState
           /\ [t EXCEPT !.is = "gone"] \in TransactionState
BY Zenon DEF TransactionState, Presence

\* The same of a logout transaction.
LEMMA LogoutChanges ==
    ASSUME NEW t \in LogoutState, NEW n \in Nat
    PROVE  /\ [is |-> "kept", ends |-> n, bound |-> FALSE, consumed |-> FALSE] \in LogoutState
           /\ [t EXCEPT !.bound = TRUE] \in LogoutState
           /\ [t EXCEPT !.consumed = TRUE, !.ends = n] \in LogoutState
           /\ [t EXCEPT !.is = "gone"] \in LogoutState
<1>1. [is |-> "kept", ends |-> n, bound |-> FALSE, consumed |-> FALSE] \in LogoutState
  BY DEF LogoutState, Presence
<1>2. [t EXCEPT !.bound = TRUE] \in LogoutState
  BY Zenon DEF LogoutState
<1>3. [t EXCEPT !.consumed = TRUE, !.ends = n] \in LogoutState
  BY Zenon DEF LogoutState
<1>4. [t EXCEPT !.is = "gone"] \in LogoutState
  BY DEF LogoutState, Presence
<1>5. QED
  BY <1>1, <1>2, <1>3, <1>4, Zenon

\* The same of a family.
LEMMA FamilyChanges ==
    ASSUME NEW t \in FamilyState, NEW n \in Nat, NEW v \in 0..MaxNow
    PROVE  /\ MaxNow \in Nat => [is |-> "kept", ends |-> n, revoked |-> 0] \in FamilyState
           /\ [t EXCEPT !.revoked = v] \in FamilyState
           /\ [t EXCEPT !.is = "gone"] \in FamilyState
           /\ [t EXCEPT !.revoked = v].is = t.is /\ [t EXCEPT !.revoked = v].ends = t.ends
           /\ [t EXCEPT !.is = "gone"].is = "gone" /\ [t EXCEPT !.is = "gone"].ends = t.ends
BY DEF FamilyState, Presence

\* The types, one by one.
LEMMA StateTypes ==
    ASSUME RetentionTypeOK
    PROVE  /\ session \in RetainedRow /\ preauth \in RetainedRow /\ code \in RetainedRow
           /\ transaction \in TransactionState /\ logout \in LogoutState
           /\ family \in FamilyState /\ access \in [Generation -> RetainedRow]
           /\ refresh \in [Generation -> {"none", "live", "consumed", "gone"}]
BY Zenon DEF RetentionTypeOK, TransactionState, LogoutState, FamilyState

\* A family that a cascade revokes keeps its expiry and its presence.
LEMMA RevokedFamilyFacts ==
    ASSUME RetentionTypeOK
    PROVE  /\ RevokedFamily \in FamilyState
           /\ RevokedFamily.is = family.is /\ RevokedFamily.ends = family.ends
<1>1. family \in FamilyState /\ time \in 0..MaxNow /\ time \in Nat
  BY StateTypes, ReadingsNat, Zenon
<1>2. QED
  BY <1>1, FamilyChanges, Zenon DEF RevokedFamily

\* The loop is always in one of its steps.
LEMMA LoopSteps ==
    ASSUME RetentionTypeOK
    PROVE  /\ After(step) \in Step /\ AfterFailure \in Step /\ "idle" \in Step
           /\ blocked \cup {step} \subseteq Step
BY DEF RetentionTypeOK, Step, After, AfterFailure

\* Deleting is one of the changes of a row.
LEMMA DeleteCases ==
    ASSUME NEW entry, NEW doomed \in BOOLEAN
    PROVE  Delete(entry, doomed) = entry \/ Delete(entry, doomed) = [entry EXCEPT !.is = "gone"]
BY Zenon DEF Delete, Deleted

\* A batch is some of the candidates.
LEMMA BatchOfGenerations ==
    ASSUME NEW candidates, NEW age, NEW b \in Batch(candidates, age)
    PROVE  b \subseteq candidates
BY DEF Batch

\* What a statement selects is a selection.
LEMMA SelectionChanges ==
    /\ Nothing \in Selection
    /\ [Nothing EXCEPT !.of = "transaction", !.row = TRUE] \in Selection
    /\ \A b \in SUBSET Generation :
         [Nothing EXCEPT !.of = "generations", !.generations = b] \in Selection
    /\ \A s \in Selection, r \in BOOLEAN : [s EXCEPT !.of = "family", !.row = r] \in Selection
<1>1. Nothing \in Selection
  BY DEF Nothing, Selection
<1>2. [Nothing EXCEPT !.of = "transaction", !.row = TRUE] \in Selection
  BY <1>1, Zenon DEF Selection
<1>3. ASSUME NEW b \in SUBSET Generation
      PROVE  [Nothing EXCEPT !.of = "generations", !.generations = b] \in Selection
  BY <1>1, Zenon DEF Selection
<1>4. ASSUME NEW s \in Selection, NEW r \in BOOLEAN
      PROVE  [s EXCEPT !.of = "family", !.row = r] \in Selection
  BY Zenon DEF Selection
<1>5. QED
  BY <1>1, <1>2, <1>3, <1>4, Zenon

\* The statements that select change no row.
LEMMA SelectingDeletesNothing ==
    ASSUME SelectRetiredTransaction \/ SelectRetiredGenerations \/ SelectRetiredFamily
    PROVE  UNCHANGED <<time, rows>>
BY Zenon DEF SelectRetiredTransaction, SelectRetiredGenerations, SelectRetiredFamily, Proceed, Blocked

\* No request touches the cleanup loop.
LEMMA VisitLeavesTheLoop ==
    ASSUME Visit
    PROVE  UNCHANGED <<time, loop>>
BY Zenon DEF Visit, BeginTransaction, BeginPreAuth, CommitLogin, RejectAuthTransaction,
     IssueAuthorizationCode, ExchangeAuthorizationCode, ExchangeRefreshToken, RevokeFamily,
     RevokeSession, StartLogout, BindLogout, CompleteLogout

\* A request writes rows of the right types.
LEMMA RequestTyped ==
    ASSUME RetentionTypeOK, Visit
    PROVE  RetentionTypeOK'
<1>1. /\ time \in 0..MaxNow /\ time \in Nat /\ MaxNow \in Nat
      /\ \A ttl \in {LoginTTL, FlowTTL, CodeTTL, AccessTTL, AbsoluteTTL, LogoutTTL} :
           time + ttl \in Nat /\ \A r \in Readings : r + ttl \in Nat
  BY ReadingsNat, Zenon DEF Readings
<1>2. /\ session \in RetainedRow /\ preauth \in RetainedRow /\ code \in RetainedRow
      /\ transaction \in TransactionState /\ logout \in LogoutState
      /\ family \in FamilyState /\ access \in [Generation -> RetainedRow]
      /\ refresh \in [Generation -> {"none", "live", "consumed", "gone"}]
  BY StateTypes, Zenon
<1>3. SUFFICES
        /\ session' \in RetainedRow /\ preauth' \in RetainedRow /\ code' \in RetainedRow
        /\ transaction' \in TransactionState /\ logout' \in LogoutState
        /\ family' \in FamilyState /\ access' \in [Generation -> RetainedRow]
        /\ refresh' \in [Generation -> {"none", "live", "consumed", "gone"}]
  <2>1. UNCHANGED <<time, loop>>
    BY VisitLeavesTheLoop, Zenon
  <2>2. UNCHANGED <<time, step, selected, reading, faults, blocked>>
    BY <2>1 DEF loop
  <2>3. QED
    BY <2>2, Zenon DEF RetentionTypeOK, TransactionState, LogoutState, FamilyState
<1>4. ConsumedTransaction \in TransactionState
  BY <1>1, <1>2, TransactionChanges, Zenon DEF ConsumedTransaction
<1>5. \A ttl \in {LoginTTL, FlowTTL, CodeTTL, AccessTTL, AbsoluteTTL, LogoutTTL} :
        NewRow(time, ttl) \in RetainedRow /\ \A r \in Readings : NewRow(r, ttl) \in RetainedRow
  BY <1>1, <1>2, RowChanges, Zenon DEF NewRow
<1>6. Ended(session) \in RetainedRow /\ Ended(preauth) \in RetainedRow
  BY <1>1, <1>2, RowChanges, Zenon DEF Ended
<1>7. CASE BeginTransaction
  BY <1>1, <1>2, <1>7, TransactionChanges, Zenon DEF BeginTransaction
<1>8. CASE CommitLogin \/ RejectAuthTransaction \/ IssueAuthorizationCode
  BY <1>2, <1>4, <1>5, <1>6, <1>8, Zenon
     DEF CommitLogin, RejectAuthTransaction, IssueAuthorizationCode
<1>9. ASSUME NEW r \in Readings, BeginPreAuth(r)
      PROVE  preauth' \in RetainedRow /\ UNCHANGED <<session, transaction, code, family, refresh, access, logout>>
  BY <1>5, <1>9, Zenon DEF BeginPreAuth
<1>10. ASSUME NEW offline \in BOOLEAN, ExchangeAuthorizationCode(offline)
      PROVE  /\ family' \in FamilyState /\ access' \in [Generation -> RetainedRow]
             /\ refresh' \in [Generation -> {"none", "live", "consumed", "gone"}]
             /\ UNCHANGED <<session, preauth, code, transaction, logout>>
  <2>1. NewRow(time, AccessTTL) \in RetainedRow
    BY <1>5, Zenon
  <2>2. [is |-> "kept", ends |-> time + AbsoluteTTL, revoked |-> 0] \in FamilyState
    BY <1>1, <1>2, FamilyChanges, Zenon
  <2>3. QED
    BY <1>2, <1>10, <2>1, <2>2, Zenon DEF ExchangeAuthorizationCode
<1>11. ASSUME NEW g \in Generation, NEW r \in Readings, ExchangeRefreshToken(g, r)
       PROVE  /\ access' \in [Generation -> RetainedRow]
              /\ refresh' \in [Generation -> {"none", "live", "consumed", "gone"}]
              /\ UNCHANGED <<session, preauth, code, transaction, family, logout>>
  <2>1. NewRow(r, AccessTTL) \in RetainedRow
    BY <1>5, Zenon
  <2>2. /\ refresh' = [refresh EXCEPT ![g] = "consumed", ![g + 1] = "live"]
        /\ access' = [access EXCEPT ![g + 1] = NewRow(r, AccessTTL)]
        /\ UNCHANGED <<session, preauth, code, transaction, family, logout>>
    BY <1>11, Zenon DEF ExchangeRefreshToken
  <2>3. access' \in [Generation -> RetainedRow]
    BY <1>2, <2>1, <2>2, Zenon
  <2>4. refresh' \in [Generation -> {"none", "live", "consumed", "gone"}]
    <3>1. DEFINE States == {"none", "live", "consumed", "gone"}
    <3>2. "consumed" \in States /\ "live" \in States
      OBVIOUS
    <3>3. refresh \in [Generation -> States]
      BY <1>2, Zenon
    <3>4. HIDE DEF States
    <3>5. [refresh EXCEPT ![g] = "consumed"] \in [Generation -> States]
      BY <3>2, <3>3, Zenon
    <3>6. [[refresh EXCEPT ![g] = "consumed"] EXCEPT ![g + 1] = "live"] \in [Generation -> States]
      BY <3>2, <3>5, Zenon
    <3>7. QED
      BY <2>2, <3>6, Zenon DEF States
  <2>5. QED
    BY <2>2, <2>3, <2>4, Zenon
<1>12. CASE RevokeFamily \/ RevokeSession
  BY <1>2, <1>6, <1>12, RevokedFamilyFacts, Zenon DEF RevokeFamily, RevokeSession
<1>13. CASE StartLogout
  <2>1. [is |-> "kept", ends |-> time + LogoutTTL, bound |-> FALSE, consumed |-> FALSE] \in LogoutState
    BY <1>1, <1>2, LogoutChanges, Zenon
  <2>2. QED
    BY <1>2, <1>13, <2>1, Zenon DEF StartLogout
<1>14. CASE BindLogout \/ CompleteLogout
  <2>1. /\ [logout EXCEPT !.bound = TRUE] \in LogoutState
        /\ [logout EXCEPT !.consumed = TRUE, !.ends = time] \in LogoutState
    BY <1>1, <1>2, LogoutChanges, Zenon
  <2>2. QED
    BY <1>2, <1>6, <1>14, <2>1, RevokedFamilyFacts, Zenon DEF BindLogout, CompleteLogout
<1>15. QED
  BY <1>2, <1>7, <1>8, <1>9, <1>10, <1>11, <1>12, <1>13, <1>14, Zenon DEF Visit

\* So does the cleanup loop, wherever it goes on.
LEMMA CleanupTyped ==
    ASSUME RetentionTypeOK, Cleanup \/ OperationFails \/ Restart
    PROVE  RetentionTypeOK'
<1>1. time \in Nat /\ reading \in 0..time /\ reading \in Nat
  BY ReadingsNat, Zenon DEF RetentionTypeOK
<1>2. /\ session \in RetainedRow /\ preauth \in RetainedRow /\ code \in RetainedRow
      /\ transaction \in TransactionState /\ logout \in LogoutState
      /\ family \in FamilyState /\ access \in [Generation -> RetainedRow]
      /\ refresh \in [Generation -> {"none", "live", "consumed", "gone"}]
  BY StateTypes, Zenon
<1>3. /\ After(step) \in Step /\ AfterFailure \in Step /\ "idle" \in Step
      /\ step \in Step /\ blocked \subseteq Step /\ blocked \cup {step} \subseteq Step
      /\ selected \in Selection /\ Nothing \in Selection
  BY LoopSteps, SelectionChanges, Zenon DEF RetentionTypeOK
<1>4. /\ time' = time /\ step' \in Step /\ reading' \in 0..time /\ blocked' \subseteq Step
      /\ faults' \in 0..MaxFaults /\ selected' \in Selection
  <2>1. CASE StartRun
    BY <1>1, <1>3, <2>1 DEF StartRun, RetentionTypeOK, After, Step
  <2>2. CASE OperationFails \/ Restart
    BY <1>1, <1>3, <2>2, RetentionAssumption DEF OperationFails, Restart, RetentionTypeOK
  <2>3. ASSUME NEW counts, Proceed(counts)
        PROVE  /\ time' = time /\ step' \in Step /\ reading' = reading /\ blocked' = blocked
               /\ faults' = faults /\ selected' = Nothing
    BY <1>3, <2>3, Zenon DEF Proceed
  <2>4. ASSUME Blocked
        PROVE  /\ time' = time /\ step' \in Step /\ reading' = reading /\ faults' = faults
               /\ blocked' \subseteq Step /\ selected' = Nothing
    BY <1>3, <2>4 DEF Blocked
  <2>5. CASE CleanupSessions \/ ExpireElapsedTransactions \/ CleanupAuthTransactions
             \/ CleanupProtocolArtifacts \/ CleanupRefreshArtifacts \/ CleanupLogoutTransactions
    <3>1. Blocked \/ \E counts : Proceed(counts)
      BY <2>5, Zenon DEF CleanupSessions, ExpireElapsedTransactions, CleanupAuthTransactions,
           CleanupProtocolArtifacts, CleanupRefreshArtifacts, CleanupLogoutTransactions
    <3>2. QED
      BY <1>1, <1>3, <2>3, <2>4, <3>1, Zenon DEF RetentionTypeOK
  <2>6. CASE SelectRetiredTransaction \/ SelectRetiredGenerations \/ SelectRetiredFamily
    <3>1. \/ Blocked \/ \E counts : Proceed(counts)
          \/ selected' \in Selection /\ UNCHANGED <<time, step, reading, faults, blocked>>
      <4>1. CASE SelectRetiredTransaction
        BY <4>1, SelectionChanges, Zenon DEF SelectRetiredTransaction
      <4>2. CASE SelectRetiredGenerations
        <5>1. RetiredGenerations \subseteq Generation
          BY Zenon DEF RetiredGenerations, KeptGenerations
        <5>2. QED
          BY <4>2, <5>1, BatchOfGenerations, SelectionChanges, Zenon DEF SelectRetiredGenerations
      <4>3. CASE SelectRetiredFamily
        <5>1. (FamilyRetired /\ ~FamilyReferenced(LeftGenerations)) \in BOOLEAN
          BY Zenon
        <5>2. QED
          BY <1>3, <4>3, <5>1, SelectionChanges, Zenon DEF SelectRetiredFamily
      <4>4. QED
        BY <2>6, <4>1, <4>2, <4>3, Zenon
    <3>2. QED
      BY <1>1, <1>3, <2>3, <2>4, <3>1, Zenon DEF RetentionTypeOK
  <2>7. QED
    BY <2>1, <2>2, <2>5, <2>6, Zenon DEF Cleanup
<1>5. SUFFICES
        /\ session' \in RetainedRow /\ preauth' \in RetainedRow /\ code' \in RetainedRow
        /\ transaction' \in TransactionState /\ logout' \in LogoutState
        /\ family' \in FamilyState /\ access' \in [Generation -> RetainedRow]
        /\ refresh' \in [Generation -> {"none", "live", "consumed", "gone"}]
  BY <1>4, Zenon DEF RetentionTypeOK, TransactionState, LogoutState, FamilyState
<1>6. CASE UNCHANGED rows
  BY <1>2, <1>6 DEF rows
<1>7. CASE CleanupSessions
  <2>1. \A doomed \in BOOLEAN :
          Delete(preauth, doomed) \in RetainedRow /\ Delete(session, doomed) \in RetainedRow
    BY <1>1, <1>2, DeleteCases, RowChanges, ZenonT(40)
  <2>2. QED
    BY <1>2, <1>6, <1>7, <2>1, Zenon DEF CleanupSessions, Blocked
<1>8. CASE ExpireElapsedTransactions
  BY <1>1, <1>2, <1>8, TransactionChanges, Zenon DEF ExpireElapsedTransactions
<1>9. CASE CleanupAuthTransactions
  <2>1. Deleted(transaction) \in TransactionState
    BY <1>1, <1>2, TransactionChanges, Zenon DEF Deleted
  <2>2. QED
    BY <1>2, <1>6, <1>9, <2>1, Zenon DEF CleanupAuthTransactions, Blocked
<1>10. CASE CleanupProtocolArtifacts
  <2>1. \A doomed \in BOOLEAN : /\ Delete(code, doomed) \in RetainedRow
                                /\ \A g \in Generation : Delete(access[g], doomed) \in RetainedRow
    <3>1. \A g \in Generation : access[g] \in RetainedRow
      BY <1>2, Zenon
    <3>2. ASSUME NEW entry \in RetainedRow, NEW doomed \in BOOLEAN
          PROVE  Delete(entry, doomed) \in RetainedRow
      BY <1>1, DeleteCases, RowChanges, Zenon
    <3>3. QED
      BY <1>2, <3>1, <3>2, Zenon
  <2>2. \E doomed \in BOOLEAN : code' = Delete(code, doomed)
    BY <1>10, Zenon DEF CleanupProtocolArtifacts
  <2>3. PICK b : access' = [g \in Generation |-> Delete(access[g], g \in b)]
    BY <1>10, Zenon DEF CleanupProtocolArtifacts
  <2>4. UNCHANGED <<session, transaction, preauth, family, refresh, logout>>
    BY <1>10, Zenon DEF CleanupProtocolArtifacts
  <2>5. ASSUME NEW g \in Generation PROVE Delete(access[g], g \in b) \in RetainedRow
    <3>1. (g \in b) \in BOOLEAN
      OBVIOUS
    <3>2. QED
      BY <2>1, <3>1, Zenon
  <2>6. access' \in [Generation -> RetainedRow]
    BY <2>3, <2>5
  <2>7. QED
    BY <1>2, <2>1, <2>2, <2>4, <2>6, Zenon
<1>11. CASE CleanupRefreshArtifacts
  <2>1. \A doomed \in BOOLEAN : Delete(family, doomed) \in FamilyState
    <3>1. 0 \in 0..MaxNow
      BY RetentionAssumption
    <3>2. [family EXCEPT !.is = "gone"] \in FamilyState
      BY <1>1, <1>2, <3>1, FamilyChanges, Zenon
    <3>3. QED
      BY <1>2, <3>2, DeleteCases, Zenon
  <2>2. (selected.row /\ FamilyRetired) \in BOOLEAN
    BY Zenon
  <2>3. CASE Blocked
    BY <1>6, <2>3, Zenon DEF Blocked
  <2>4. CASE ~Blocked
    <3>1. /\ refresh' = [g \in Generation |->
                           IF g \in selected.generations THEN "gone" ELSE refresh[g]]
          /\ family' = Delete(family, selected.row /\ FamilyRetired)
          /\ UNCHANGED <<session, transaction, preauth, code, access, logout>>
      BY <1>11, <2>4, Zenon DEF CleanupRefreshArtifacts
    <3>2. refresh' \in [Generation -> {"none", "live", "consumed", "gone"}]
      BY <1>2, <3>1
    <3>3. QED
      BY <1>2, <2>1, <2>2, <3>1, <3>2, Zenon
  <2>5. QED
    BY <2>3, <2>4, Zenon
<1>12. CASE CleanupLogoutTransactions
  <2>1. \A doomed \in BOOLEAN : Delete(logout, doomed) \in LogoutState
    BY <1>1, <1>2, DeleteCases, LogoutChanges, Zenon
  <2>2. QED
    BY <1>2, <1>12, <2>1, Zenon DEF CleanupLogoutTransactions
<1>13. CASE StartRun \/ OperationFails \/ Restart
  BY <1>6, <1>13, Zenon DEF StartRun, OperationFails, Restart
<1>14. CASE SelectRetiredTransaction \/ SelectRetiredGenerations \/ SelectRetiredFamily
  BY <1>6, <1>14, SelectingDeletesNothing, Zenon
<1>15. QED
  BY <1>7, <1>8, <1>9, <1>10, <1>11, <1>12, <1>13, <1>14, Zenon DEF Cleanup

\* The type facts that the evidence lemmas use.
LEMMA EvidenceTypes ==
    ASSUME Evidence
    PROVE  /\ RetentionTypeOK
           /\ time \in Nat /\ reading \in Nat /\ reading <= time
           /\ LongRetention \in Nat /\ ProtocolRetention \in Nat
           /\ family \in FamilyState /\ family.ends \in Nat
           /\ transaction \in TransactionState /\ transaction.ends \in Nat
           /\ code \in RetainedRow /\ code.ends \in Nat
           /\ access \in [Generation -> RetainedRow]
           /\ \A g \in Generation : access[g].ends \in Nat
           /\ refresh \in [Generation -> {"none", "live", "consumed", "gone"}]
<1>1. RetentionTypeOK
  BY Zenon DEF Evidence, ReplayEvidence
<1>2. /\ family \in FamilyState /\ code \in RetainedRow /\ transaction \in TransactionState
      /\ access \in [Generation -> RetainedRow]
  BY <1>1, StateTypes, Zenon
<1>3. family.ends \in Nat /\ code.ends \in Nat /\ transaction.ends \in Nat
  BY <1>2 DEF FamilyState, RetainedRow, TransactionState
<1>4. \A g \in Generation : access[g].ends \in Nat
  BY <1>2 DEF RetainedRow
<1>5. QED
  BY <1>1, <1>2, <1>3, <1>4, StateTypes, ReadingsNat, Zenon

\* A step that deletes nothing of the evidence keeps it as time passes.
LEMMA OnlyTimePasses ==
    ASSUME Evidence, RetentionTypeOK', time' >= time,
           UNCHANGED <<code, refresh, access>>,
           family'.is = family.is, family'.ends = family.ends,
           transaction'.is = "none" \/ ~transaction'.consumed =>
             transaction.is = "none" \/ ~transaction.consumed
    PROVE  Evidence'
<1>1. /\ time \in Nat /\ time' \in Nat /\ family.ends \in Nat /\ code.ends \in Nat
      /\ LongRetention \in Nat /\ ProtocolRetention \in Nat
      /\ \A g \in Generation : access[g].ends \in Nat
  <2>1. time' \in Nat
    BY RetentionAssumption DEF RetentionTypeOK
  <2>2. QED
    BY <2>1, EvidenceTypes, Zenon
<1>2. \A g \in Generation : refresh'[g] = "gone" => time' >= family'.ends + LongRetention
  BY <1>1 DEF Evidence, ReplayEvidence
<1>3. code'.is = "gone" => time' >= code'.ends + ProtocolRetention
  BY <1>1 DEF Evidence, ReplayEvidence
<1>4. \A g \in Generation : access'[g].is = "gone" => time' >= access'[g].ends + ProtocolRetention
  BY <1>1 DEF Evidence, ReplayEvidence
<1>5. (family'.is = "gone" => ~FamilyReferenced(KeptGenerations)')
  BY Zenon DEF Evidence, ReplayEvidence, KeptGenerations, FamilyReferenced
<1>6. NotYetIssued'
  BY DEF Evidence, NotYetIssued
<1>7. QED
  BY <1>2, <1>3, <1>4, <1>5, <1>6, Zenon DEF Evidence, ReplayEvidence

\* A code is issued only for a transaction that had none.
LEMMA IssueKeepsEvidence ==
    ASSUME Evidence, RetentionTypeOK', IssueAuthorizationCode
    PROVE  Evidence'
<1>1. transaction \in TransactionState
  BY EvidenceTypes, Zenon
<1>2. transaction'.consumed = TRUE /\ transaction'.is = "kept"
  BY <1>1 DEF IssueAuthorizationCode, PendingTransaction, Unended, ConsumedTransaction, TransactionState
<1>3. code'.is = "kept" /\ time' = time /\ family' = family /\ refresh' = refresh /\ access' = access
  BY DEF IssueAuthorizationCode, NewRow
<1>4. (family'.is = "gone" => ~FamilyReferenced(KeptGenerations)')
  BY <1>3, Zenon DEF Evidence, ReplayEvidence, KeptGenerations, FamilyReferenced
<1>5. NotYetIssued'
  BY <1>2, <1>3 DEF Evidence, NotYetIssued
<1>6. QED
  BY <1>3, <1>4, <1>5 DEF Evidence, ReplayEvidence

\* Before the exchange there is no family and no generation, so none is gone.
LEMMA ExchangeKeepsEvidence ==
    ASSUME Evidence, RetentionTypeOK', NEW offline \in BOOLEAN, ExchangeAuthorizationCode(offline)
    PROVE  Evidence'
<1>1. /\ family.is = "none"
      /\ \A g \in Generation : access[g].is = "none" /\ refresh[g] = "none"
  BY Zenon DEF Evidence, NotYetIssued, ExchangeAuthorizationCode
<1>2. /\ access \in [Generation -> RetainedRow]
      /\ refresh \in [Generation -> {"none", "live", "consumed", "gone"}]
  BY EvidenceTypes, Zenon
<1>3. access'[0].is = "kept" /\ \A g \in Generation : access'[g].is # "gone"
  BY <1>1, <1>2, Generations DEF ExchangeAuthorizationCode, NewRow
<1>4. family'.is # "gone" /\ \A g \in Generation : refresh'[g] # "gone"
  BY <1>1, <1>2, Generations DEF ExchangeAuthorizationCode
<1>5. UNCHANGED <<time, code, transaction>>
  BY DEF ExchangeAuthorizationCode
<1>6. QED
  BY <1>3, <1>4, <1>5 DEF Evidence, ReplayEvidence, NotYetIssued

\* A family that can still be used loses no generation and no access token.
LEMMA RefreshKeepsEvidence ==
    ASSUME Evidence, RetentionTypeOK', NEW g \in Generation, NEW r \in Readings,
           ExchangeRefreshToken(g, r)
    PROVE  Evidence'
<1>1. /\ access \in [Generation -> RetainedRow] /\ time \in Nat
      /\ refresh \in [Generation -> {"none", "live", "consumed", "gone"}]
      /\ g \in Nat /\ g + 1 \in Generation /\ g + 1 # 0 /\ 0 \in Generation
  <2>1. g \in Nat /\ g + 1 \in Generation /\ 0 \in Generation
    BY Generations, Zenon DEF ExchangeRefreshToken
  <2>2. g + 1 # 0
    BY <2>1
  <2>3. QED
    BY <2>1, <2>2, EvidenceTypes, Zenon
<1>2. /\ family.is = "kept" /\ UNCHANGED <<time, family, code, transaction>>
      /\ refresh' = [refresh EXCEPT ![g] = "consumed", ![g + 1] = "live"]
      /\ access' = [access EXCEPT ![g + 1] = NewRow(r, AccessTTL)]
  BY DEF ExchangeRefreshToken
<1>3. access[0].is # "none"
  BY <1>2, Zenon DEF Evidence, NotYetIssued
<1>4. access'[0].is # "none"
  BY <1>1, <1>2, <1>3
<1>5. \A h \in Generation : refresh'[h] = "gone" => refresh[h] = "gone"
  BY <1>1, <1>2
<1>6. \A h \in Generation : access'[h].is = "gone" => access'[h] = access[h]
  BY <1>1, <1>2 DEF NewRow
<1>7. NotYetIssued'
  BY <1>2, <1>4 DEF Evidence, NotYetIssued
<1>8. family'.is # "gone"
  BY <1>2
<1>9. QED
  BY <1>2, <1>5, <1>6, <1>7, <1>8, Zenon DEF Evidence, ReplayEvidence

\* The cleanup deletes what had ended a retention before the reading of its run.
LEMMA ProtocolKeepsEvidence ==
    ASSUME Evidence, RetentionTypeOK', CleanupProtocolArtifacts
    PROVE  Evidence'
<1>1. /\ reading \in Nat /\ time \in Nat /\ reading <= time /\ ProtocolRetention \in Nat
      /\ code \in RetainedRow /\ access \in [Generation -> RetainedRow]
      /\ \A g \in Generation : access[g].ends \in Nat
  BY EvidenceTypes, Zenon
<1>2. UNCHANGED <<time, family, refresh, transaction>>
  BY DEF CleanupProtocolArtifacts, Proceed
<1>3. \/ code' = code
      \/ /\ code' = [code EXCEPT !.is = "gone"] /\ code.is = "kept"
         /\ code.ends + ProtocolRetention <= reading
  BY Zenon DEF CleanupProtocolArtifacts, Delete, Deleted
<1>4. code'.is = "gone" => time' >= code'.ends + ProtocolRetention
  BY <1>1, <1>2, <1>3 DEF Evidence, ReplayEvidence, RetainedRow
<1>5. code'.is = "none" <=> code.is = "none"
  BY <1>1, <1>3 DEF RetainedRow
<1>6. PICK b : /\ b \subseteq {g \in Generation : /\ access[g].is = "kept"
                                                  /\ access[g].ends + ProtocolRetention <= reading}
               /\ access' = [g \in Generation |-> Delete(access[g], g \in b)]
  BY BatchOfGenerations, Zenon DEF CleanupProtocolArtifacts
<1>7. ASSUME NEW g \in Generation
      PROVE  \/ access'[g] = access[g]
             \/ /\ access'[g].is = "gone" /\ access'[g].ends = access[g].ends
                /\ access[g].is = "kept" /\ access[g].ends + ProtocolRetention <= reading
  BY <1>1, <1>6 DEF Delete, Deleted, RetainedRow
<1>8. ASSUME NEW g \in Generation
      PROVE  /\ access'[g].is = "none" <=> access[g].is = "none"
             /\ access'[g].is = "kept" => access[g].is = "kept"
             /\ access'[g].is = "gone" => time' >= access'[g].ends + ProtocolRetention
  <2>1. access[g].is = "gone" => time >= access[g].ends + ProtocolRetention
    BY Zenon DEF Evidence, ReplayEvidence
  <2>2. QED
    BY <1>1, <1>2, <1>7, <2>1
<1>9. NotYetIssued'
  BY <1>2, <1>5, <1>8, Generations DEF Evidence, NotYetIssued
<1>10. family'.is = "gone" => ~FamilyReferenced(KeptGenerations)'
  BY <1>2, <1>8, Zenon DEF Evidence, ReplayEvidence, KeptGenerations, FamilyReferenced
<1>11. QED
  BY <1>2, <1>4, <1>8, <1>9, <1>10, Zenon DEF Evidence, ReplayEvidence

\* A generation goes only when both the expiry and the revocation of the family
\* are a retention behind; the family goes with its last generation and token.
LEMMA RetireKeepsEvidence ==
    ASSUME EvidenceInv, RetentionTypeOK', CleanupRefreshArtifacts, ~Blocked
    PROVE  Evidence'
<1>1. /\ family \in FamilyState
      /\ refresh \in [Generation -> {"none", "live", "consumed", "gone"}]
  BY EvidenceTypes, Zenon DEF EvidenceInv
<1>2. /\ refresh' = [g \in Generation |->
                       IF g \in selected.generations THEN "gone" ELSE refresh[g]]
      /\ family' = Delete(family, selected.row /\ FamilyRetired)
      /\ UNCHANGED <<time, transaction, code, access>>
  BY Zenon DEF CleanupRefreshArtifacts, Proceed
<1>3. /\ selected.of = "family" /\ family.is = "kept" /\ family.ends + LongRetention <= time
      /\ selected.generations \subseteq KeptGenerations
      /\ selected.row => ~FamilyReferenced(LeftGenerations)
  BY Zenon DEF CleanupRefreshArtifacts, EvidenceInv, SelectionSafe
<1>4. /\ family'.ends = family.ends /\ (family'.is = "none" <=> family.is = "none")
      /\ family'.is = "gone" => selected.row
  BY <1>1, <1>2, <1>3 DEF Delete, Deleted, FamilyState
<1>5. time >= family.ends + LongRetention
  BY <1>3, EvidenceTypes DEF EvidenceInv
<1>6. \A g \in Generation : refresh'[g] = "gone" => time' >= family'.ends + LongRetention
  BY <1>2, <1>4, <1>5, Zenon
<1>7. KeptGenerations' = LeftGenerations
  BY <1>1, <1>2 DEF KeptGenerations, LeftGenerations
<1>8. family'.is = "gone" => ~FamilyReferenced(KeptGenerations)'
  BY <1>2, <1>3, <1>4, <1>7, Zenon DEF FamilyReferenced
<1>9. \A g \in Generation : refresh[g] = "none" => refresh'[g] = "none"
  BY <1>2, <1>3 DEF KeptGenerations
<1>10. NotYetIssued'
  BY <1>2, <1>4, <1>9 DEF EvidenceInv, Evidence, NotYetIssued
<1>11. QED
  BY <1>2, <1>6, <1>8, <1>10, Zenon DEF EvidenceInv, Evidence, ReplayEvidence

\* Nothing refers to the selected rows when they are deleted: the schema refuses
\* no deletion of the refresh and of the transaction cleanup.
LEMMA OnlySessionsBlock ==
    ASSUME EvidenceInv, CleanupAuthTransactions \/ SelectRetiredFamily \/ CleanupRefreshArtifacts
    PROVE  blocked' = blocked
<1>1. CASE CleanupAuthTransactions
  BY <1>1, Zenon DEF CleanupAuthTransactions, EvidenceInv, SelectionSafe, Proceed
<1>2. CASE SelectRetiredFamily
  BY <1>2, Zenon DEF SelectRetiredFamily, EvidenceInv, SelectionSafe
<1>3. CASE CleanupRefreshArtifacts
  BY <1>3, Zenon DEF CleanupRefreshArtifacts, EvidenceInv, SelectionSafe, Proceed
<1>4. QED
  BY <1>1, <1>2, <1>3, Zenon

\* No request of the storage API takes the evidence away.
LEMMA RequestKeepsEvidence ==
    ASSUME Evidence, RetentionTypeOK', Visit
    PROVE  Evidence'
<1>1. /\ time \in Nat /\ RetentionTypeOK /\ transaction \in TransactionState
  BY EvidenceTypes, Zenon
<1>2. time >= time
  BY <1>1
<1>3. CASE BeginTransaction
  BY <1>2, <1>3, OnlyTimePasses DEF BeginTransaction
<1>4. CASE (\E r \in Readings : BeginPreAuth(r)) \/ CommitLogin \/ StartLogout \/ BindLogout
  <2>1. UNCHANGED <<time, transaction, code, refresh, access, family>>
    BY <1>4, Zenon DEF BeginPreAuth, CommitLogin, StartLogout, BindLogout
  <2>2. QED
    BY <1>2, <2>1, OnlyTimePasses
<1>5. CASE RejectAuthTransaction
  <2>1. transaction'.consumed = TRUE /\ transaction'.is = "kept"
    BY <1>1, <1>5
       DEF RejectAuthTransaction, PendingTransaction, Unended, ConsumedTransaction, TransactionState
  <2>2. UNCHANGED <<time, code, refresh, access, family>>
    BY <1>5, Zenon DEF RejectAuthTransaction
  <2>3. QED
    BY <1>2, <2>1, <2>2, OnlyTimePasses
<1>6. CASE RevokeFamily \/ RevokeSession \/ CompleteLogout
  <2>1. family' = RevokedFamily /\ UNCHANGED <<time, code, refresh, access, transaction>>
    BY <1>6 DEF RevokeFamily, RevokeSession, CompleteLogout
  <2>2. family'.is = family.is /\ family'.ends = family.ends
    BY <1>1, <2>1, RevokedFamilyFacts, Zenon
  <2>3. QED
    BY <1>2, <2>1, <2>2, OnlyTimePasses
<1>7. QED
  BY <1>3, <1>4, <1>5, <1>6, IssueKeepsEvidence, ExchangeKeepsEvidence, RefreshKeepsEvidence, Zenon
     DEF Visit

\* Nor does an operation of the cleanup loop, one that fails, or a restart.
LEMMA CleanupKeepsEvidence ==
    ASSUME EvidenceInv, RetentionTypeOK', Cleanup \/ OperationFails \/ Restart
    PROVE  Evidence'
<1>1. time \in Nat /\ transaction \in TransactionState /\ Evidence
  BY EvidenceTypes, Zenon DEF EvidenceInv
<1>2. time >= time
  BY <1>1
<1>3. ASSUME UNCHANGED <<time, transaction, code, family, refresh, access>> PROVE Evidence'
  BY <1>1, <1>2, <1>3, OnlyTimePasses
<1>4. CASE StartRun \/ OperationFails \/ Restart \/ CleanupSessions \/ CleanupLogoutTransactions
           \/ SelectRetiredTransaction \/ SelectRetiredGenerations \/ SelectRetiredFamily
  BY <1>3, <1>4, SelectingDeletesNothing
     DEF StartRun, OperationFails, Restart, CleanupSessions, CleanupLogoutTransactions,
         Proceed, Blocked, rows
<1>5. CASE ExpireElapsedTransactions
  <2>1. \/ transaction' = transaction
        \/ transaction'.consumed = TRUE /\ transaction'.is = transaction.is
    BY <1>1, <1>5 DEF ExpireElapsedTransactions, TransactionState
  <2>2. UNCHANGED <<time, code, refresh, access, family>>
    BY <1>5, Zenon DEF ExpireElapsedTransactions, Proceed
  <2>3. QED
    BY <1>1, <1>2, <2>1, <2>2, OnlyTimePasses
<1>6. CASE CleanupAuthTransactions
  <2>1. \/ transaction' = transaction
        \/ transaction'.consumed = transaction.consumed /\ transaction'.is = "gone"
    BY <1>1, <1>6 DEF CleanupAuthTransactions, Blocked, rows, Deleted, TransactionState
  <2>2. UNCHANGED <<time, code, refresh, access, family>>
    BY <1>6 DEF CleanupAuthTransactions, Blocked, rows, Proceed
  <2>3. QED
    BY <1>1, <1>2, <2>1, <2>2, OnlyTimePasses
<1>7. CASE CleanupRefreshArtifacts
  <2>1. CASE Blocked
    BY <1>3, <2>1 DEF Blocked, rows
  <2>2. QED
    BY <1>7, <2>1, RetireKeepsEvidence, Zenon
<1>8. QED
  BY <1>1, <1>4, <1>5, <1>6, <1>7, ProtocolKeepsEvidence, Zenon DEF Cleanup

\* What a statement has selected stays safe while requests and the clock only
\* let time pass for it.
LEMMA SelectionOutlives ==
    ASSUME EvidenceInv, time' \in Nat, time' >= time, UNCHANGED <<step, selected>>,
           selected.of = "transaction" => UNCHANGED <<transaction, preauth, code>>,
           selected.of \in {"generations", "family"} =>
             /\ UNCHANGED <<refresh, access>>
             /\ family'.is = family.is /\ family'.ends = family.ends
    PROVE  SelectionSafe'
<1>1. /\ time \in Nat /\ transaction.ends \in Nat /\ family.ends \in Nat
      /\ LongRetention \in Nat /\ ProtocolRetention \in Nat
  BY EvidenceTypes, Zenon DEF EvidenceInv
<1>2. ASSUME NEW n \in Nat, NEW k \in Nat, n + k <= time PROVE n + k <= time'
  BY <1>1, <1>2
<1>3. CASE selected.of = "transaction"
  BY <1>1, <1>2, <1>3, Zenon DEF EvidenceInv, SelectionSafe, TransactionReferenced
<1>4. CASE selected.of \in {"generations", "family"}
  <2>1. UNCHANGED <<KeptGenerations, LeftGenerations>>
    BY <1>4, Zenon DEF KeptGenerations, LeftGenerations
  <2>2. \A g \in Generation : SourceOfAccess(g)' <=> SourceOfAccess(g)
    BY <1>4, Zenon DEF SourceOfAccess
  <2>3. FamilyReferenced(LeftGenerations)' <=> FamilyReferenced(LeftGenerations)
    BY <1>4, <2>1, Zenon DEF FamilyReferenced
  <2>4. KeptGenerations \subseteq Generation
    BY Zenon DEF KeptGenerations
  <2>5. selected.of # "transaction"
    BY <1>4
  <2>6. QED
    BY <1>1, <1>2, <1>4, <2>1, <2>2, <2>3, <2>4, <2>5, Zenon DEF EvidenceInv, SelectionSafe
<1>5. QED
  BY <1>3, <1>4, Zenon DEF SelectionSafe

\* No request comes to refer to a row that a delete statement has selected: it
\* would have to be older than the timeouts of the server allow.
LEMMA RequestKeepsSelection ==
    ASSUME EvidenceInv, Visit
    PROVE  SelectionSafe'
<1>1. /\ time \in Nat /\ transaction \in TransactionState /\ transaction.ends \in Nat
      /\ family.ends \in Nat /\ RetentionTypeOK
      /\ LongRetention \in Nat /\ ProtocolRetention \in Nat
  BY EvidenceTypes, Zenon DEF EvidenceInv
<1>2. UNCHANGED <<time, step, selected>>
  BY VisitLeavesTheLoop DEF loop
<1>3. time' \in Nat /\ time' >= time
  BY <1>1, <1>2
<1>4. selected.of = "transaction" => UNCHANGED <<transaction, preauth, code>>
  <2>1. SUFFICES ASSUME selected.of = "transaction" PROVE UNCHANGED <<transaction, preauth, code>>
    BY Zenon
  <2>2. /\ transaction.is = "kept" /\ transaction.consumed
        /\ transaction.ends + ProtocolRetention <= time
    BY <2>1, Zenon DEF EvidenceInv, SelectionSafe
  <2>3. ~BeginTransaction /\ ~PendingTransaction
    BY <2>2 DEF BeginTransaction, PendingTransaction
  <2>4. ASSUME NEW r \in Readings, BeginPreAuth(r) PROVE FALSE
    <3>1. r \in Nat /\ time <= r + MaxRequest /\ r <= transaction.ends
      BY <1>1, <2>4 DEF Readings, BeginPreAuth
    <3>2. MaxRequest \in Nat /\ MaxRequest < ProtocolRetention
      BY RetentionAssumption
    <3>3. QED
      BY <1>1, <2>2, <3>1, <3>2
  <2>5. QED
    BY <2>3, <2>4, Zenon
       DEF Visit, CommitLogin, RejectAuthTransaction, IssueAuthorizationCode,
           ExchangeAuthorizationCode, ExchangeRefreshToken, RevokeFamily, RevokeSession,
           StartLogout, BindLogout, CompleteLogout
<1>5. selected.of \in {"generations", "family"} =>
        /\ UNCHANGED <<refresh, access>>
        /\ family'.is = family.is /\ family'.ends = family.ends
  <2>1. SUFFICES ASSUME selected.of \in {"generations", "family"}
                 PROVE  /\ UNCHANGED <<refresh, access>>
                        /\ family'.is = family.is /\ family'.ends = family.ends
    BY Zenon
  <2>2. family.is = "kept" /\ family.ends + LongRetention <= time
    BY <2>1, Zenon DEF EvidenceInv, SelectionSafe
  <2>3. ASSUME NEW offline \in BOOLEAN, ExchangeAuthorizationCode(offline) PROVE FALSE
    <3>1. family.is = "none"
      BY <2>3, Zenon DEF ExchangeAuthorizationCode, EvidenceInv, Evidence, NotYetIssued
    <3>2. QED
      BY <2>2, <3>1
  <2>4. ASSUME NEW g \in Generation, NEW r \in Readings, ExchangeRefreshToken(g, r) PROVE FALSE
    <3>1. r \in Nat /\ time <= r + MaxRequest /\ r < family.ends
      BY <1>1, <2>4 DEF Readings, ExchangeRefreshToken
    <3>2. MaxRequest \in Nat /\ MaxRequest < LongRetention
      BY <1>1, RetentionAssumption
    <3>3. QED
      BY <1>1, <2>2, <3>1, <3>2
  <2>5. CASE RevokeFamily \/ RevokeSession \/ CompleteLogout
    <3>1. family' = RevokedFamily /\ UNCHANGED <<refresh, access>>
      BY <2>5 DEF RevokeFamily, RevokeSession, CompleteLogout
    <3>2. QED
      BY <1>1, <3>1, RevokedFamilyFacts, Zenon
  <2>6. QED
    BY <2>3, <2>4, <2>5, Zenon
       DEF Visit, BeginTransaction, BeginPreAuth, CommitLogin, RejectAuthTransaction,
           IssueAuthorizationCode, StartLogout, BindLogout
<1>6. QED
  BY <1>2, <1>3, <1>4, <1>5, SelectionOutlives, Zenon

\* A statement selects only rows that are due and unreferenced.
LEMMA CleanupKeepsSelection ==
    ASSUME EvidenceInv, Cleanup \/ OperationFails \/ Restart
    PROVE  SelectionSafe'
<1>1. /\ time \in Nat /\ reading \in Nat /\ reading <= time /\ transaction.ends \in Nat
      /\ family \in FamilyState /\ family.ends \in Nat /\ RetentionTypeOK
      /\ LongRetention \in Nat /\ ProtocolRetention \in Nat /\ time >= time
  <2>1. time \in Nat
    BY EvidenceTypes, Zenon DEF EvidenceInv
  <2>2. time >= time
    BY <2>1
  <2>3. QED
    BY <2>2, EvidenceTypes, Zenon DEF EvidenceInv
<1>2. ASSUME selected'.of = "none" PROVE SelectionSafe'
  BY <1>2 DEF SelectionSafe
<1>3. ASSUME selected' = Nothing PROVE SelectionSafe'
  BY <1>2, <1>3 DEF Nothing
<1>4. ASSUME step \notin {"transactions", "refresh"} PROVE selected.of = "none"
  BY <1>1, <1>4 DEF EvidenceInv, SelectionSafe, RetentionTypeOK, Selection
<1>5. CASE StartRun
  <2>1. step = "idle" /\ UNCHANGED selected
    BY <1>5, Zenon DEF StartRun
  <2>2. QED
    BY <1>2, <1>4, <2>1
<1>6. CASE OperationFails \/ Restart \/ CleanupSessions \/ ExpireElapsedTransactions
           \/ CleanupAuthTransactions \/ CleanupProtocolArtifacts \/ CleanupRefreshArtifacts
           \/ CleanupLogoutTransactions
  BY <1>3, <1>6, Zenon
     DEF OperationFails, Restart, CleanupSessions, ExpireElapsedTransactions,
         CleanupAuthTransactions, CleanupProtocolArtifacts, CleanupRefreshArtifacts,
         CleanupLogoutTransactions, Blocked, Proceed
<1>7. CASE SelectRetiredTransaction
  <2>1. CASE TransactionRetired
    <3>1. /\ selected' = [Nothing EXCEPT !.of = "transaction", !.row = TRUE]
          /\ step = "transactions" /\ UNCHANGED <<time, step, rows>>
      BY <1>7, <2>1, Zenon DEF SelectRetiredTransaction
    <3>2. selected'.of = "transaction"
      BY <3>1 DEF Nothing
    <3>3. transaction.ends + ProtocolRetention <= time
      BY <1>1, <2>1 DEF TransactionRetired
    <3>4. UNCHANGED <<transaction, preauth, code>>
      BY <3>1 DEF rows
    <3>5. selected'.of \notin {"generations", "family"}
      BY <3>2
    <3>6. QED
      BY <2>1, <3>1, <3>2, <3>3, <3>4, <3>5, Zenon
         DEF SelectionSafe, TransactionRetired, TransactionReferenced
  <2>2. CASE ~TransactionRetired
    BY <1>3, <1>7, <2>2, Zenon DEF SelectRetiredTransaction, Proceed
  <2>3. QED
    BY <2>1, <2>2, Zenon
<1>8. ASSUME FamilyRetired PROVE family.is = "kept" /\ family.ends + LongRetention <= time
  BY <1>1, <1>8 DEF FamilyRetired, EvidenceEnds, FamilyState
<1>9. CASE SelectRetiredGenerations
  <2>1. CASE FamilyRetired
    <3>1. PICK b \in Batch(RetiredGenerations, [g \in Generation |-> EvidenceEnds]) :
            /\ selected' = [Nothing EXCEPT !.of = "generations", !.generations = b]
            /\ step = "refresh" /\ UNCHANGED <<time, step, rows>>
      BY <1>9, <2>1, Zenon DEF SelectRetiredGenerations
    <3>2. selected'.of = "generations" /\ selected'.generations = b
      BY <3>1 DEF Nothing
    <3>3. b \subseteq RetiredGenerations
      BY <3>1, BatchOfGenerations, Zenon
    <3>4. UNCHANGED <<family, refresh, access>>
      BY <3>1 DEF rows
    <3>5. b \subseteq KeptGenerations' /\ \A g \in b : ~SourceOfAccess(g)'
      BY <3>3, <3>4, Zenon DEF RetiredGenerations, KeptGenerations, SourceOfAccess
    <3>6. selected'.of # "transaction" /\ selected'.of # "family"
      BY <3>2
    <3>7. QED
      BY <1>8, <2>1, <3>1, <3>2, <3>4, <3>5, <3>6, Zenon DEF SelectionSafe
  <2>2. CASE ~FamilyRetired
    BY <1>3, <1>9, <2>2, Zenon DEF SelectRetiredGenerations, Proceed
  <2>3. QED
    BY <2>1, <2>2, Zenon
<1>10. CASE SelectRetiredFamily
  <2>1. /\ selected.of = "generations" /\ selected.of \in {"generations", "family"}
        /\ selected \in Selection
    BY <1>1, <1>10 DEF SelectRetiredFamily, RetentionTypeOK
  <2>2. ~\E g \in selected.generations : SourceOfAccess(g)
    BY <2>1, Zenon DEF EvidenceInv, SelectionSafe
  <2>3. /\ selected' = [selected EXCEPT !.of = "family",
                          !.row = FamilyRetired /\ ~FamilyReferenced(LeftGenerations)]
        /\ UNCHANGED <<time, rows, step>>
    BY <1>10, <2>2, Zenon DEF SelectRetiredFamily
  <2>4. /\ selected'.of = "family" /\ selected'.generations = selected.generations
        /\ selected'.row => ~FamilyReferenced(LeftGenerations)
    BY <2>1, <2>3, Zenon DEF Selection
  <2>5. UNCHANGED <<family, refresh, access>>
    BY <2>3 DEF rows
  <2>6. LeftGenerations' = LeftGenerations /\ KeptGenerations' = KeptGenerations
    BY <2>4, <2>5, Zenon DEF LeftGenerations, KeptGenerations
  <2>7. FamilyReferenced(LeftGenerations)' <=> FamilyReferenced(LeftGenerations)
    BY <2>5, <2>6, Zenon DEF FamilyReferenced
  <2>8. \A g \in selected'.generations : ~SourceOfAccess(g)'
    BY <2>2, <2>4, <2>5, Zenon DEF SourceOfAccess
  <2>9. selected'.of # "transaction"
    BY <2>4
  <2>10. QED
    BY <2>1, <2>3, <2>4, <2>5, <2>6, <2>7, <2>8, <2>9, Zenon DEF EvidenceInv, SelectionSafe
<1>11. QED
  BY <1>5, <1>6, <1>7, <1>9, <1>10, Zenon DEF Cleanup

\* The invariant behind ReplayEvidence and OnlySessionsRefused (startCleanupLoop
\* against the requests).
THEOREM EvidenceInvariant == RetentionSpec => []EvidenceInv
<1>1. RetentionInit => EvidenceInv
  <2>1. SUFFICES ASSUME RetentionInit PROVE EvidenceInv
    OBVIOUS
  <2>2. RetentionTypeOK
    BY <2>1, RetentionAssumption
       DEF RetentionInit, RetentionTypeOK, NoRow, RetainedRow, Presence, Step, Nothing, Selection
  <2>3. Evidence
    BY <2>1, <2>2, Generations
       DEF RetentionInit, NoRow, Evidence, ReplayEvidence, NotYetIssued
  <2>4. SelectionSafe
    BY <2>1 DEF RetentionInit, Nothing, SelectionSafe
  <2>5. QED
    BY <2>3, <2>4, Zenon DEF EvidenceInv
<1>2. EvidenceInv /\ [RetentionNext]_retentionVars => EvidenceInv'
  <2>1. SUFFICES ASSUME EvidenceInv, [RetentionNext]_retentionVars PROVE EvidenceInv'
    OBVIOUS
  <2>2. RetentionTypeOK /\ Evidence
    BY <2>1, Zenon DEF EvidenceInv, Evidence, ReplayEvidence
  <2>3. CASE Visit
    BY <2>1, <2>2, <2>3, RequestTyped, RequestKeepsEvidence, RequestKeepsSelection, Zenon
       DEF EvidenceInv
  <2>4. CASE Cleanup \/ OperationFails \/ Restart
    BY <2>1, <2>2, <2>4, CleanupTyped, CleanupKeepsEvidence, CleanupKeepsSelection, Zenon
       DEF EvidenceInv
  <2>5. ASSUME UNCHANGED <<rows, loop>>, time' >= time, time' \in 0..MaxNow, reading \in 0..time'
        PROVE  EvidenceInv'
    <3>1. RetentionTypeOK'
      BY <2>2, <2>5 DEF RetentionTypeOK, rows, loop
    <3>2. /\ UNCHANGED <<code, refresh, access, family, transaction, preauth, step, selected>>
          /\ time' \in Nat
      BY <2>5, RetentionAssumption DEF rows, loop
    <3>3. Evidence'
      BY <2>2, <2>5, <3>1, <3>2, OnlyTimePasses
    <3>4. SelectionSafe'
      BY <2>1, <2>5, <3>2, SelectionOutlives, Zenon
    <3>5. QED
      BY <3>3, <3>4, Zenon DEF EvidenceInv
  <2>6. CASE ClockTick
    <3>1. time' >= time /\ time' \in 0..MaxNow /\ reading \in 0..time'
      BY <2>2, <2>6, RetentionAssumption DEF RetentionTypeOK, ClockTick
    <3>2. QED
      BY <2>5, <2>6, <3>1, Zenon DEF ClockTick
  <2>7. CASE UNCHANGED retentionVars
    <3>1. UNCHANGED <<time, rows, loop>>
      BY <2>7 DEF retentionVars
    <3>2. time' >= time /\ time' \in 0..MaxNow /\ reading \in 0..time'
      BY <2>2, <3>1, ReadingsNat DEF RetentionTypeOK
    <3>3. QED
      BY <2>5, <3>1, <3>2
  <2>8. QED
    BY <2>1, <2>3, <2>4, <2>6, <2>7, Zenon DEF RetentionNext
<1>3. QED
  BY <1>1, <1>2, PTL DEF RetentionSpec

\* For any lifetimes, retentions, batch size and number of generations, and
\* whatever of a cleanup run fails: a generation is deleted only when its
\* family's absolute expiry and the retention have passed
\* (CleanupRefreshArtifacts), a code and an access token not before their own
\* (CleanupProtocolArtifacts), and no generation and no access token outlives
\* the family.
THEOREM ReplayEvidenceHolds == RetentionSpec => []ReplayEvidence
<1>1. EvidenceInv => ReplayEvidence
  BY Zenon DEF EvidenceInv, Evidence
<1>2. QED
  BY <1>1, EvidenceInvariant, PTL

\* Only the session operation can be refused by the schema: the first half
\* of EverythingRetires.
OnlySessionsRefused == blocked \subseteq {"sessions"}

\* The comment of CleanupRefreshArtifacts, for any batch: foreign keys never turn
\* a refresh batch, or the transaction cleanup, into a failed one, although
\* requests commit between the selection of the rows and their deletion.
THEOREM RefreshBatchNeverRefused == RetentionSpec => []OnlySessionsRefused
<1>1. RetentionInit => OnlySessionsRefused
  BY DEF RetentionInit, OnlySessionsRefused
<1>2. EvidenceInv /\ OnlySessionsRefused /\ [RetentionNext]_retentionVars => OnlySessionsRefused'
  <2>1. SUFFICES ASSUME EvidenceInv, blocked \subseteq {"sessions"}, [RetentionNext]_retentionVars
                 PROVE  blocked' \subseteq {"sessions"}
    BY Zenon DEF OnlySessionsRefused
  <2>2. CASE CleanupSessions
    BY <2>1, <2>2, Zenon DEF CleanupSessions, Blocked, Proceed
  <2>3. CASE CleanupAuthTransactions \/ SelectRetiredFamily \/ CleanupRefreshArtifacts
    BY <2>1, <2>3, OnlySessionsBlock, Zenon
  <2>4. CASE ExpireElapsedTransactions \/ CleanupProtocolArtifacts \/ CleanupLogoutTransactions
             \/ SelectRetiredTransaction \/ SelectRetiredGenerations
    BY <2>1, <2>4, Zenon DEF ExpireElapsedTransactions, CleanupProtocolArtifacts,
         CleanupLogoutTransactions, SelectRetiredTransaction, SelectRetiredGenerations, Proceed
  <2>5. CASE Visit
    BY <2>1, <2>5, VisitLeavesTheLoop, Zenon DEF loop
  <2>6. CASE ClockTick \/ StartRun \/ OperationFails \/ Restart \/ UNCHANGED retentionVars
    BY <2>1, <2>6, Zenon DEF ClockTick, StartRun, OperationFails, Restart, retentionVars, loop
  <2>7. QED
    BY <2>1, <2>2, <2>3, <2>4, <2>5, <2>6, Zenon DEF RetentionNext, Cleanup
<1>3. QED
  BY <1>1, <1>2, EvidenceInvariant, PTL DEF RetentionSpec

-----------------------------------------------------------------------------
(* AuthorizeFlow.                                                          *)

\* What a decision to issue carries from the moment it was made: the login is
\* what was asked for, and consent was given on a page of the same user.
Fits(c) ==
    LET t == transactions[c.txn]
    IN  /\ "login" \in t.asked.prompts \/ t.asked.maxAge = 0 => c.authAt >= t.created
        /\ "create" \in t.asked.prompts => c.authAt > t.created
        /\ t.asked.maxAge # None /\ t.asked.maxAge > 0 =>
               c.decided <= c.authAt + t.asked.maxAge
        /\ "consent" \in t.asked.prompts => c.interactive
        /\ c.interactive => \E p \in pages : p[1] = c.txn /\ sessions[p[2]].user = c.user

Sound(q) == q.at # "idle" =>
    /\ transactions[q.txn] # Absent
    /\ q.at = "issue" => Fits(q)

\* A transaction that may be shown to the browser.
Visible(t) == transactions[t] # Absent /\ "none" \notin Prompts(t)

ShownInv ==
    /\ cookie # None => sessions[cookie] # Absent
    /\ \A t \in known : Visible(t)
    /\ \A p \in pages : Visible(p[1]) /\ sessions[p[2]] # Absent

DecisionInv == \A r \in Request : Sound(request[r])

CodeInv ==
    /\ \A c \in codes : transactions[c.txn].state = "consumed" /\ Fits(c)
    /\ \A c, d \in codes : c.txn = d.txn => c = d

\* The rows that a request has locked.
Held(q) == IF q.at \in {"issue", "deny"} THEN q.locked ELSE {}

\* What it has looked at under a lock is still so; it locks in a fixed order.
Secured(q) ==
    /\ "transaction" \in Held(q) => transactions[q.txn].state = "live"
    /\ "user" \in Held(q) => q.user \in active /\ "transaction" \in Held(q)
    /\ "client" \in Held(q) => client # "disabled" /\ "user" \in Held(q)
    /\ "grant" \in Held(q) => Consents(q) /\ "client" \in Held(q)

\* No request but r has locked the transaction of q.
Alone(r, q) ==
    "transaction" \in Held(q) =>
        \A o \in Request \ {r} : "transaction" \in Held(request[o]) => request[o].txn # q.txn

LockInv == \A r \in Request : Secured(request[r]) /\ Alone(r, request[r])

FlowInv == TypeOK /\ ShownInv /\ DecisionInv /\ CodeInv /\ LockInv

-----------------------------------------------------------------------------
(* Typing.                                                                 *)

LEMMA NowNat == TypeOK => now \in Nat
BY AskedAssumption DEF TypeOK

LEMMA AskedTypes ==
    ASSUME NEW a \in Asked
    PROVE  a.prompts \in SUBSET Prompt /\ a.maxAge \in Nat \cup {None}
BY AskedAssumption DEF AskedRecord

LEMMA RowTypes ==
    ASSUME TypeOK
    PROVE  /\ \A t \in Transaction : transactions[t] # Absent =>
                /\ transactions[t] \in TransactionRow
                /\ transactions[t].asked \in Asked /\ transactions[t].created \in Nat
                /\ transactions[t].expires \in Nat /\ transactions[t].state \in Outcome
           /\ \A t \in Transaction : transactions[t].state # "absent" => transactions[t] # Absent
           /\ \A x \in Session : sessions[x] # Absent =>
                /\ sessions[x] \in SessionRow
                /\ sessions[x].user \in User /\ sessions[x].authAt \in Nat
           /\ \A x \in Session : sessions[x].state # "absent" => sessions[x] # Absent
BY DEF TypeOK, TransactionRow, SessionRow, Absent

LEMMA RequestTypes ==
    ASSUME TypeOK, NEW r \in Request
    PROVE  /\ request[r] \in Decided \cup Arrived \cup {Idle}
           /\ request[r].at = "idle" <=> request[r] = Idle
           /\ request[r].at # "idle" => request[r].txn \in Transaction
           /\ request[r].at = "advance" => request[r].session \in Session \cup {None}
           /\ request[r].at = "issue" =>
                /\ request[r].user \in User /\ request[r].authAt \in Nat
                /\ request[r].interactive \in BOOLEAN /\ request[r].decided \in Nat
BY DEF TypeOK, Decided, Arrived, Idle

LEMMA HeldTypes ==
    ASSUME TypeOK, NEW r \in Request, "transaction" \in Held(request[r])
    PROVE  request[r].txn \in Transaction
BY RequestTypes DEF Held

\* A request that has locked one row more, or none any longer, has decided the same.
LEMMA LockedTypes ==
    ASSUME NEW q \in Decided, q.at \in {"issue", "deny"}, NEW rs \in SUBSET Row
    PROVE  LET x == [q EXCEPT !.locked = rs]
           IN  /\ x \in Decided /\ x.at = q.at /\ x.txn = q.txn /\ x.user = q.user
               /\ x.locked = rs /\ q.locked \in SUBSET Row
               /\ q.at = "issue" => /\ x.authAt = q.authAt /\ x.interactive = q.interactive
                                    /\ x.decided = q.decided
<1>1. CASE q.at = "issue"
  BY <1>1 DEF Decided
<1>2. CASE q.at = "deny"
  BY <1>2 DEF Decided
<1>3. QED
  BY <1>1, <1>2

LEMMA DecisionTypes ==
    ASSUME TypeOK, NEW t \in Transaction, NEW x \in Session, sessions[x] # Absent,
           NEW i \in BOOLEAN
    PROVE  /\ ToIssue(t, x, i) \in Decided
           /\ ToIssue(t, x, i).at = "issue" /\ ToIssue(t, x, i).txn = t
           /\ ToIssue(t, x, i).user = sessions[x].user
           /\ ToIssue(t, x, i).authAt = sessions[x].authAt
           /\ ToIssue(t, x, i).interactive = i /\ ToIssue(t, x, i).decided = now
           /\ Held(ToIssue(t, x, i)) = {}
<1>1. now \in Nat /\ sessions[x].user \in User /\ sessions[x].authAt \in Nat
  BY NowNat, RowTypes, SMTT(20)
<1>2. {} \in SUBSET Row
  OBVIOUS
<1>3. /\ ToIssue(t, x, i) \in Decided
      /\ ToIssue(t, x, i).at = "issue" /\ ToIssue(t, x, i).txn = t
      /\ ToIssue(t, x, i).user = sessions[x].user
      /\ ToIssue(t, x, i).authAt = sessions[x].authAt
      /\ ToIssue(t, x, i).interactive = i /\ ToIssue(t, x, i).decided = now
      /\ ToIssue(t, x, i).locked = {}
  BY <1>1, <1>2, Zenon DEF ToIssue, Decided
<1>4. Held(ToIssue(t, x, i)) = {}
  BY <1>3, Zenon DEF Held
<1>5. QED
  BY <1>3, <1>4, Zenon

LEMMA DenialTypes ==
    ASSUME TypeOK, NEW t \in Transaction, NEW x \in Session, sessions[x] # Absent
    PROVE  /\ ToDeny(t, x) \in Decided /\ ToDeny(t, x).at = "deny" /\ ToDeny(t, x).txn = t
           /\ Held(ToDeny(t, x)) = {}
<1>1. now \in Nat /\ sessions[x].user \in User /\ {} \in SUBSET Row
  BY NowNat, RowTypes
<1>2. /\ ToDeny(t, x) \in Decided
      /\ ToDeny(t, x).at = "deny" /\ ToDeny(t, x).txn = t /\ ToDeny(t, x).locked = {}
  BY <1>1, Zenon DEF ToDeny, Decided
<1>3. QED
  BY <1>2, Zenon DEF Held

LEMMA RejectType ==
    ASSUME TypeOK, NEW t \in Transaction
    PROVE  /\ ToReject(t) \in Decided /\ ToReject(t).at = "reject" /\ ToReject(t).txn = t
           /\ Held(ToReject(t)) = {}
<1>1. ToReject(t) \in Decided /\ ToReject(t).at = "reject" /\ ToReject(t).txn = t
  BY NowNat, Zenon DEF ToReject, Decided
<1>2. QED
  BY <1>1 DEF Held

-----------------------------------------------------------------------------
(* What no step takes back.                                                *)

TransactionsKeep ==
    \A t \in Transaction : transactions[t] # Absent =>
        /\ transactions'[t] # Absent
        /\ transactions'[t].asked = transactions[t].asked
        /\ transactions'[t].created = transactions[t].created
        /\ transactions[t].state = "consumed" => transactions'[t].state = "consumed"

SessionsKeep ==
    \A x \in Session : sessions[x] # Absent =>
        sessions'[x] # Absent /\ sessions'[x].user = sessions[x].user

Keeps ==
    /\ TransactionsKeep /\ SessionsKeep
    /\ known \subseteq known' /\ pages \subseteq pages'

LEMMA FitsKept ==
    ASSUME TypeOK, ShownInv, Keeps, NEW c, c.txn \in Transaction,
           transactions[c.txn] # Absent, Fits(c)
    PROVE  Fits(c)'
<1>1. /\ transactions'[c.txn].asked = transactions[c.txn].asked
      /\ transactions'[c.txn].created = transactions[c.txn].created
  BY DEF Keeps, TransactionsKeep
<1>2. ASSUME NEW p \in pages PROVE p \in pages' /\ sessions'[p[2]].user = sessions[p[2]].user
  BY DEF Keeps, SessionsKeep, ShownInv, TypeOK
<1>3. QED
  BY <1>1, <1>2, Zenon DEF Fits

LEMMA SoundKept ==
    ASSUME TypeOK, ShownInv, Keeps, NEW q \in Decided \cup Arrived \cup {Idle}, Sound(q)
    PROVE  Sound(q)'
<1>1. CASE q.at = "idle"
  BY <1>1 DEF Sound
<1>2. CASE q.at # "idle"
  <2>1. q.txn \in Transaction /\ transactions[q.txn] # Absent
    BY <1>2 DEF Decided, Arrived, Idle, Sound
  <2>2. transactions'[q.txn] # Absent
    BY <2>1 DEF Keeps, TransactionsKeep
  <2>3. q.at = "issue" => Fits(q)'
    BY <1>2, <2>1, FitsKept DEF Sound
  <2>4. QED
    BY <2>2, <2>3 DEF Sound
<1>3. QED
  BY <1>1, <1>2

LEMMA VisibleKept ==
    ASSUME TypeOK, TransactionsKeep, NEW t \in Transaction, Visible(t)
    PROVE  Visible(t)'
BY DEF TransactionsKeep, Visible, Prompts

-----------------------------------------------------------------------------
(* What a request may decide.                                              *)

LEMMA AuthenticSession ==
    ASSUME TypeOK, NEW x \in Session \cup {None}, Authentic(x)
    PROVE  x \in Session /\ sessions[x] # Absent
BY RowTypes DEF Authentic

\* The principal may go on: the login is what the transaction asks for.
LEMMA PrincipalOk ==
    ASSUME TypeOK, NEW t \in Transaction, transactions[t] # Absent,
           NEW x \in Session \cup {None}, PrincipalVerdict(t, x) = "ok",
           NEW i \in BOOLEAN,
           "consent" \in Prompts(t) => i,
           i => \E p \in pages : p[1] = t /\ sessions[p[2]].user = sessions[x].user
    PROVE  /\ x \in Session /\ sessions[x] # Absent
           /\ ToIssue(t, x, i) \in Decided /\ Sound(ToIssue(t, x, i))
           /\ Held(ToIssue(t, x, i)) = {}
<1>1. Authentic(x)
  BY DEF PrincipalVerdict
<1>2. x \in Session /\ sessions[x] # Absent
  BY <1>1, AuthenticSession
<1>3. ~NeedsReauthentication(t, sessions[x].authAt)
      /\ ~("create" \in Prompts(t) /\ sessions[x].authAt <= transactions[t].created)
  BY <1>1 DEF PrincipalVerdict
<1> DEFINE q == ToIssue(t, x, i)
           a == sessions[x].authAt
           asked == transactions[t].asked
<1>4. /\ q \in Decided /\ q.at = "issue" /\ q.txn = t /\ q.user = sessions[x].user
      /\ q.authAt = a /\ q.interactive = i /\ q.decided = now /\ Held(q) = {}
  BY <1>2, DecisionTypes
<1>5. a \in Nat /\ now \in Nat /\ transactions[t].created \in Nat
      /\ asked.maxAge \in Nat \cup {None} /\ None \notin Nat
  BY <1>2, RowTypes, NowNat, AskedTypes, AskedAssumption
<1>6. /\ "login" \in asked.prompts \/ asked.maxAge = 0 => a >= transactions[t].created
      /\ "create" \in asked.prompts => a > transactions[t].created
      /\ asked.maxAge # None /\ asked.maxAge > 0 => now <= a + asked.maxAge
  <2>1. "login" \in asked.prompts \/ asked.maxAge = 0 => ~(a < transactions[t].created)
    BY <1>3 DEF NeedsReauthentication, Prompts
  <2>2. "create" \in asked.prompts => ~(a <= transactions[t].created)
    BY <1>3 DEF Prompts
  <2>3. asked.maxAge \notin {None, 0} => ~(now > a + asked.maxAge)
    BY <1>3 DEF NeedsReauthentication
  <2> HIDE DEF a, asked
  <2>4. QED
    BY <1>5, <2>1, <2>2, <2>3
<1> HIDE DEF q
<1>7. Fits(q)
  BY <1>4, <1>6, Zenon DEF Fits, Prompts
<1>8. Sound(q)
  BY <1>4, <1>7 DEF Sound
<1>9. QED
  BY <1>2, <1>4, <1>8 DEF q

-----------------------------------------------------------------------------
(* The forms of a step.                                                    *)

\* A request goes on and decides nothing yet.
Acts(r) ==
    /\ UNCHANGED <<now, active, client, covered, sessions, cookie, transactions, codes>>
    /\ known \subseteq known' /\ \A t \in known' \ known : t \in Transaction /\ Visible(t)
    /\ pages \subseteq pages'
    /\ \A p \in pages' \ pages :
         p \in Transaction \X Session /\ Visible(p[1]) /\ sessions[p[2]] # Absent
    /\ \E x \in Decided \cup Arrived \cup {Idle} :
         /\ Sound(x) /\ Secured(x) /\ Alone(r, x)
         /\ request' = [request EXCEPT ![r] = x]

\* A transaction is opened.
Opens(t) ==
    /\ UNCHANGED <<now, active, client, covered, sessions, cookie, known, pages, codes>>
    /\ transactions[t] = Absent
    /\ \E row \in TransactionRow :
         row.state = "live" /\ transactions' = [transactions EXCEPT ![t] = row]
    /\ \E r \in Request, x \in Arrived :
         x.txn = t /\ request' = [request EXCEPT ![r] = x]

\* A transaction is decided, and yields a code if it is consumed.
Settles(t, v) ==
    /\ UNCHANGED <<now, active, client, sessions, cookie, known, pages>>
    /\ covered \subseteq covered' /\ covered' \subseteq User
    /\ transactions[t].state = "live"
    /\ transactions' = [transactions EXCEPT ![t].state = v]
    /\ request' = request \/ \E r \in Request : request' = [request EXCEPT ![r] = Idle]
    /\ \A r \in Request : "transaction" \in Held(request'[r]) => request'[r].txn # t
    /\ IF v # "consumed" THEN codes' = codes
       ELSE \E r \in Request :
              LET q == request[r]
                  c == [txn |-> q.txn, user |-> q.user, authAt |-> q.authAt,
                        interactive |-> q.interactive, decided |-> q.decided]
              IN  /\ q.at = "issue" /\ q.txn = t
                  /\ codes' = codes \cup {c}
                  /\ q.user \in active /\ client # "disabled" /\ Consents(q)

\* The rest of the system moves, around the rows that are locked.
Environment ==
    /\ \A r \in Request : "user" \in Held(request[r]) =>
         /\ request[r].user \in active => request[r].user \in active'
         /\ request[r].user \in covered => request[r].user \in covered'
    /\ \A r \in Request : "client" \in Held(request[r]) => client' = client
    /\ UNCHANGED <<transactions, known, pages, request, codes>>
    /\ now' \in 0..MaxTime /\ active' \subseteq User /\ covered' \subseteq User
    /\ client' \in {"open", "closed", "disabled"}
    /\ sessions' \in [Session -> SessionRow \cup {Absent}]
    /\ cookie' \in Session \cup {None}
    /\ SessionsKeep
    /\ cookie' # None => sessions'[cookie'] # Absent

\* A request without locks is secured.
LEMMA NothingHeld ==
    ASSUME NEW x, Held(x) = {}
    PROVE  Secured(x) /\ \A r \in Request : Alone(r, x)
BY Zenon DEF Secured, Alone

LEMMA BecomeActs ==
    ASSUME NEW r \in Request, NEW x \in Decided \cup Arrived \cup {Idle}, Sound(x), Held(x) = {},
           Become(r, x),
           UNCHANGED <<now, active, client, covered, sessions, cookie, transactions, codes,
                       known, pages>>
    PROVE  Acts(r)
BY NothingHeld, Zenon DEF Acts, Become

LEMMA IdleSound ==
    /\ Idle \in Decided \cup Arrived \cup {Idle} /\ Sound(Idle) /\ Held(Idle) = {}
    /\ Secured(Idle) /\ \A r \in Request : Alone(r, Idle)
<1>1. Idle \in Decided \cup Arrived \cup {Idle} /\ Sound(Idle) /\ Held(Idle) = {}
  BY DEF Idle, Sound, Held
<1>2. QED
  BY <1>1, NothingHeld, Zenon

LEMMA RejectSound ==
    ASSUME TypeOK, NEW t \in Transaction, transactions[t] # Absent
    PROVE  ToReject(t) \in Decided /\ Sound(ToReject(t)) /\ Held(ToReject(t)) = {}
<1> DEFINE x == ToReject(t)
<1>1. x \in Decided /\ x.at = "reject" /\ x.txn = t /\ Held(x) = {}
  BY RejectType
<1> HIDE DEF x
<1>2. Sound(x)
  BY <1>1 DEF Sound
<1>3. QED
  BY <1>1, <1>2 DEF x

LEMMA RedirectActs ==
    ASSUME NEW r \in Request, NEW t \in Transaction, Visible(t), Redirect(r, t),
           UNCHANGED <<now, active, client, covered, sessions, cookie, transactions, codes, pages>>
    PROVE  Acts(r)
BY IdleSound, Zenon DEF Acts, Redirect, Become

LEMMA ContinueActs ==
    ASSUME TypeOK, ShownInv, NEW r \in Request, NEW t \in Transaction, Continue(r, t)
    PROVE  Acts(r)
<1> DEFINE x == [at |-> "advance", txn |-> t, session |-> cookie]
<1>1. x \in Arrived /\ x.at = "advance" /\ x.txn = t /\ Held(x) = {}
  BY DEF Arrived, TypeOK, Held
<1>2. Become(r, x) /\ transactions[t] # Absent
  BY DEF Continue, ShownInv, Visible
<1>3. UNCHANGED <<now, active, client, covered, sessions, cookie, transactions, codes, known, pages>>
  BY DEF Continue, authority
<1> HIDE DEF x
<1>4. Sound(x)
  BY <1>1, <1>2 DEF Sound
<1>5. QED
  BY <1>1, <1>2, <1>3, <1>4, BecomeActs

LEMMA AdvanceActs ==
    ASSUME TypeOK, DecisionInv, NEW r \in Request, Advance(r)
    PROVE  Acts(r)
<1> DEFINE t == request[r].txn
           x == request[r].session
           v == AdvanceVerdict(t, x)
<1>1. /\ t \in Transaction /\ x \in Session \cup {None}
      /\ transactions[t] # Absent
      /\ UNCHANGED <<now, active, client, covered, sessions, cookie, transactions, codes, pages>>
  BY RequestTypes DEF Advance, DecisionInv, Sound, authority
<1>2. CASE v = "issue"
  <2>1. PrincipalVerdict(t, x) = "ok" /\ "consent" \notin Prompts(t)
    <3>1. PrincipalVerdict(t, x) # "issue"
      BY DEF PrincipalVerdict
    <3>2. QED
      BY <1>2, <3>1 DEF AdvanceVerdict
  <2>2. /\ ToIssue(t, x, FALSE) \in Decided /\ Sound(ToIssue(t, x, FALSE))
        /\ Held(ToIssue(t, x, FALSE)) = {}
    BY <1>1, <2>1, PrincipalOk, Zenon
  <2>3. Become(r, ToIssue(t, x, FALSE)) /\ UNCHANGED known
    BY <1>2, Zenon DEF Advance
  <2>4. QED
    BY <1>1, <2>2, <2>3, BecomeActs, Zenon
<1>3. CASE v = "reject"
  <2>1. Become(r, ToReject(t)) /\ UNCHANGED known
    BY <1>3 DEF Advance
  <2>2. QED
    BY <1>1, <2>1, RejectSound, BecomeActs, Zenon
<1>4. CASE v \notin {"issue", "reject"}
  <2>1. Redirect(r, t)
    BY <1>4, Zenon DEF Advance
  <2>2. "none" \notin Prompts(t)
    BY <1>4, Zenon DEF AdvanceVerdict, PrincipalVerdict
  <2>3. QED
    BY <1>1, <2>1, <2>2, RedirectActs, Zenon DEF Visible
<1>5. QED
  BY <1>2, <1>3, <1>4

LEMMA GetConsentActs ==
    ASSUME TypeOK, ShownInv, DecisionInv, NEW r \in Request, NEW t \in Transaction,
           GetConsent(r, t)
    PROVE  Acts(r)
<1> DEFINE v == PrincipalVerdict(t, cookie)
           rejects == v = "reject" \/ (v = "ok" /\ client = "disabled")
<1>1. /\ Visible(t) /\ transactions[t] # Absent /\ request[r] = Idle
      /\ cookie \in Session \cup {None}
      /\ UNCHANGED <<now, active, client, covered, sessions, cookie, transactions, codes, known>>
  BY DEF GetConsent, ShownInv, Visible, authority, TypeOK
<1>2. CASE rejects
  <2>1. Become(r, ToReject(t)) /\ UNCHANGED pages
    BY <1>2 DEF GetConsent
  <2>2. QED
    BY <1>1, <2>1, RejectSound, BecomeActs, Zenon
<1>3. request' = request => request' = [request EXCEPT ![r] = Idle]
  BY <1>1 DEF TypeOK
<1>4. CASE v = "ok" /\ ~rejects
  <2>1. pages' = pages \cup {<<t, cookie>>} /\ UNCHANGED request
    BY <1>4 DEF GetConsent
  <2>2. Authentic(cookie)
    BY <1>4 DEF PrincipalVerdict
  <2>3. cookie \in Session /\ sessions[cookie] # Absent
    BY <1>1, <2>2, AuthenticSession, Zenon
  <2>4. \A p \in pages' \ pages :
           p \in Transaction \X Session /\ Visible(p[1]) /\ sessions[p[2]] # Absent
    <3>1. PICK p : p = <<t, cookie>>
      BY Zenon
    <3>2. p \in Transaction \X Session /\ p[1] = t /\ p[2] = cookie
      BY <2>3, <3>1
    <3>3. QED
      BY <1>1, <2>1, <2>3, <3>1, <3>2, Zenon
  <2>5. pages \subseteq pages' /\ known \subseteq known' /\ known' \ known = {}
    BY <1>1, <2>1
  <2>6. QED
    BY <1>1, <1>3, <2>1, <2>4, <2>5, IdleSound, Zenon DEF Acts
<1>5. CASE v # "ok" /\ ~rejects
  <2>1. UNCHANGED <<pages, request>>
    BY <1>5 DEF GetConsent
  <2>2. QED
    BY <1>1, <1>3, <2>1, IdleSound, Zenon DEF Acts
<1>6. QED
  BY <1>2, <1>4, <1>5

LEMMA PostConsentActs ==
    ASSUME TypeOK, ShownInv, DecisionInv, NEW r \in Request, NEW page \in pages,
           NEW decision \in {"issue", "deny"}, PostConsent(r, page, decision)
    PROVE  Acts(r)
<1> DEFINE t == page[1]
           v == PrincipalVerdict(t, cookie)
           passes == v = "ok" /\ CSRFMatches(page)
           rejects == v = "reject" \/ (passes /\ client = "disabled")
<1>1. /\ t \in Transaction /\ transactions[t] # Absent /\ request[r] = Idle
      /\ cookie \in Session \cup {None}
      /\ UNCHANGED <<now, active, client, covered, sessions, cookie, transactions, codes,
                     known, pages>>
  BY DEF PostConsent, ShownInv, Visible, authority, TypeOK
<1>2. CASE rejects
  <2>1. Become(r, ToReject(t))
    BY <1>2 DEF PostConsent
  <2>2. QED
    BY <1>1, <2>1, RejectSound, BecomeActs, Zenon
<1>3. CASE passes /\ ~rejects
  <2>1. Become(r, IF decision = "issue" THEN ToIssue(t, cookie, TRUE) ELSE ToDeny(t, cookie))
    BY <1>3, Zenon DEF PostConsent
  <2>2. v = "ok" /\ page[2] = cookie
    BY <1>3 DEF CSRFMatches
  <2>3. \E p \in pages : p[1] = t /\ sessions[p[2]].user = sessions[cookie].user
    BY <2>2
  <2>4. /\ cookie \in Session /\ sessions[cookie] # Absent
        /\ ToIssue(t, cookie, TRUE) \in Decided /\ Sound(ToIssue(t, cookie, TRUE))
        /\ Held(ToIssue(t, cookie, TRUE)) = {}
    BY <1>1, <2>2, <2>3, PrincipalOk, Zenon
  <2>5. CASE decision = "issue"
    BY <1>1, <2>1, <2>4, <2>5, BecomeActs, Zenon
  <2>6. CASE decision = "deny"
    <3> DEFINE x == ToDeny(t, cookie)
    <3>1. x \in Decided /\ x.at = "deny" /\ x.txn = t /\ Held(x) = {}
      BY <1>1, <2>4, DenialTypes, Zenon
    <3>4. Become(r, x)
      BY <2>1, <2>6, Zenon
    <3> HIDE DEF x
    <3>2. Sound(x)
      BY <1>1, <3>1 DEF Sound
    <3>3. QED
      BY <1>1, <3>1, <3>2, <3>4, BecomeActs, Zenon
  <2>7. QED
    BY <2>5, <2>6
<1>4. CASE ~passes /\ ~rejects
  <2>1. UNCHANGED request
    BY <1>4, Zenon DEF PostConsent
  <2>2. request' = [request EXCEPT ![r] = Idle]
    BY <1>1, <2>1 DEF TypeOK
  <2>3. QED
    BY <1>1, <2>2, IdleSound, Zenon DEF Acts
<1>5. QED
  BY <1>2, <1>3, <1>4

LEMMA AbandonActs ==
    ASSUME NEW r \in Request, Abandon(r)
    PROVE  Acts(r)
BY IdleSound, BecomeActs DEF Abandon, authority

LEMMA AuthorizeOpens ==
    ASSUME TypeOK, NEW r \in Request, NEW t \in Transaction, NEW a \in Asked,
           Authorize(r, t, a)
    PROVE  Opens(t)
<1> DEFINE x == [at |-> "advance", txn |-> t, session |-> cookie]
           row == [asked |-> a, created |-> now, expires |-> now + TransactionTTL,
                   state |-> "live"]
<1>1. x \in Arrived /\ x.txn = t
  BY DEF Arrived, TypeOK
<1>2. row \in TransactionRow /\ row.state = "live"
  BY NowNat, AskedAssumption DEF TransactionRow, Outcome
<1>3. /\ transactions[t] = Absent
      /\ transactions' = [transactions EXCEPT ![t] = row]
      /\ request' = [request EXCEPT ![r] = x]
      /\ UNCHANGED <<now, active, client, covered, sessions, cookie, known, pages, codes>>
  BY DEF Authorize, Become, authority
<1> HIDE DEF x, row
<1>4. QED
  BY <1>1, <1>2, <1>3, Zenon DEF Opens

LEMMA Pending ==
    ASSUME TypeOK, DecisionInv, NEW r \in Request, request[r].at \in {"issue", "deny"}
    PROVE  request[r].txn \in Transaction /\ transactions[request[r].txn] # Absent
<1>1. request[r].at # "idle"
  BY Zenon
<1>2. QED
  BY <1>1, RequestTypes, Zenon DEF DecisionInv, Sound

LEMMA LockedPending ==
    ASSUME NEW r \in Request, NEW row, row \in Locked(r)
    PROVE  request[r].at \in {"issue", "deny"}
BY Zenon DEF Locked

\* A request that locks a row, or gives its locks back, has decided the same.
LEMMA LocksSound ==
    ASSUME TypeOK, DecisionInv, NEW r \in Request, request[r].at \in {"issue", "deny"},
           NEW rs \in SUBSET Row
    PROVE  LET x == [request[r] EXCEPT !.locked = rs]
           IN  /\ x \in Decided /\ Sound(x) /\ Held(x) = rs
               /\ x.at = request[r].at /\ x.txn = request[r].txn /\ x.user = request[r].user
               /\ x.at = "issue" => (Consents(x) <=> Consents(request[r]))
               /\ request[r].locked \in SUBSET Row
<1> DEFINE q == request[r]
           x == [q EXCEPT !.locked = rs]
<1>1. q \in Decided /\ q.at \in {"issue", "deny"} /\ Sound(q)
  <2>1. (\A w \in Arrived : w.at = "advance") /\ Idle.at = "idle"
    BY Zenon DEF Arrived, Idle
  <2>2. q \in Decided \cup Arrived \cup {Idle} /\ Sound(q)
    BY RequestTypes, Zenon DEF DecisionInv
  <2>3. QED
    BY <2>1, <2>2, Zenon
<1> HIDE DEF q
<1>2. /\ x \in Decided /\ x.at = q.at /\ x.txn = q.txn /\ x.user = q.user
      /\ x.locked = rs /\ q.locked \in SUBSET Row
      /\ q.at = "issue" => /\ x.authAt = q.authAt /\ x.interactive = q.interactive
                           /\ x.decided = q.decided
  BY <1>1, LockedTypes, Zenon
<1> HIDE DEF x
<1>3. q.at = "issue" => (Consents(x) <=> Consents(q))
  BY <1>2, Zenon DEF Consents
<1>4. Sound(x)
  BY <1>1, <1>2, Zenon DEF Sound, Fits
<1>5. Held(x) = rs
  BY <1>1, <1>2, Zenon DEF Held
<1>6. QED
  BY <1>2, <1>3, <1>4, <1>5, Zenon DEF x, q

LEMMA LockTransactionActs ==
    ASSUME TypeOK, DecisionInv, NEW r \in Request, NEW clock \in 0..now, LockTransaction(r, clock)
    PROVE  Acts(r)
<1> DEFINE q == request[r]
           x == [q EXCEPT !.locked = {"transaction"}]
<1>1. /\ q.at \in {"issue", "deny"} /\ q.locked = {} /\ ~TransactionLocked(q.txn)
      /\ UNCHANGED <<now, active, client, covered, sessions, cookie, transactions, codes,
                     known, pages>>
  BY Zenon DEF LockTransaction, authority
<1>2. CASE ~StillLive(q.txn, clock)
  <2>1. Become(r, Idle)
    BY <1>2, Zenon DEF LockTransaction
  <2>2. QED
    BY <1>1, <2>1, IdleSound, BecomeActs, Zenon
<1>3. CASE StillLive(q.txn, clock)
  <2>1. Become(r, [q EXCEPT !.locked = q.locked \cup {"transaction"}])
    BY <1>3, Zenon DEF LockTransaction, Lock
  <2>2. q.locked \cup {"transaction"} = {"transaction"}
    BY <1>1, Zenon
  <2>3. Become(r, x)
    BY <2>1, <2>2, Zenon
  <2>4. {"transaction"} \in SUBSET Row
    BY DEF Row
  <2>5. x \in Decided /\ Sound(x) /\ Held(x) = {"transaction"} /\ x.txn = q.txn
    BY <1>1, <2>4, LocksSound, Zenon
  <2>6. transactions[q.txn].state = "live"
    BY <1>3, Zenon DEF StillLive
  <2> HIDE DEF x
  <2>7. Secured(x)
    BY <2>5, <2>6 DEF Secured
  <2>8. Alone(r, x)
    BY <1>1, <2>5, Zenon DEF Alone, TransactionLocked, Locked, Held
  <2>9. QED
    BY <1>1, <2>3, <2>5, <2>7, <2>8, Zenon DEF Acts, Become
<1>4. QED
  BY <1>2, <1>3, Zenon

\* The later locks: the transaction is already held.
LEMMA LockMore ==
    ASSUME TypeOK, DecisionInv, LockInv, NEW r \in Request, NEW rs \in SUBSET Row, NEW row \in Row,
           request[r].at \in {"issue", "deny"}, Locked(r) = rs, Lock(r, row),
           "transaction" \in rs, "grant" \notin rs, row # "transaction",
           row = "user" => request[r].user \in active,
           row = "client" => client # "disabled" /\ "user" \in rs,
           row = "grant" => request[r].at = "issue" /\ Consents(request[r]) /\ "client" \in rs,
           UNCHANGED <<now, active, client, covered, sessions, cookie, transactions, codes,
                       known, pages>>
    PROVE  Acts(r)
<1> DEFINE q == request[r]
           x == [q EXCEPT !.locked = rs \cup {row}]
<1>1. Held(q) = rs /\ q.locked = rs
  BY Zenon DEF Locked, Held
<1>2. Become(r, x)
  BY <1>1, Zenon DEF Lock
<1>3. rs \cup {row} \in SUBSET Row
  BY Zenon
<1>4. /\ x \in Decided /\ Sound(x) /\ Held(x) = rs \cup {row}
      /\ x.at = q.at /\ x.txn = q.txn /\ x.user = q.user
      /\ x.at = "issue" => (Consents(x) <=> Consents(q))
  BY <1>3, LocksSound, Zenon
<1>5. Secured(q) /\ Alone(r, q)
  BY Zenon DEF LockInv
<1> HIDE DEF x
<1>6. Secured(x)
  <2>1. "transaction" \in Held(x) => transactions[x.txn].state = "live"
    BY <1>1, <1>4, <1>5, Zenon DEF Secured
  <2>2. "user" \in Held(x) => x.user \in active /\ "transaction" \in Held(x)
    BY <1>1, <1>4, <1>5, Zenon DEF Secured
  <2>3. "client" \in Held(x) => client # "disabled" /\ "user" \in Held(x)
    BY <1>1, <1>4, <1>5, Zenon DEF Secured
  <2>4. "grant" \in Held(x) => Consents(x) /\ "client" \in Held(x)
    BY <1>1, <1>4, <1>5, Zenon DEF Secured
  <2>5. QED
    BY <2>1, <2>2, <2>3, <2>4, Zenon DEF Secured
<1>7. Alone(r, x)
  BY <1>1, <1>4, <1>5, Zenon DEF Alone
<1>8. QED
  BY <1>2, <1>4, <1>6, <1>7, Zenon DEF Acts, Become

LEMMA LockUserActs ==
    ASSUME TypeOK, DecisionInv, LockInv, NEW r \in Request, LockUser(r)
    PROVE  Acts(r)
<1>1. /\ Locked(r) = {"transaction"}
      /\ UNCHANGED <<now, active, client, covered, sessions, cookie, transactions, codes,
                     known, pages>>
  BY Zenon DEF LockUser, authority
<1>2. request[r].at \in {"issue", "deny"}
  BY <1>1, LockedPending, Zenon
<1>3. request[r].txn \in Transaction /\ transactions[request[r].txn] # Absent
  BY <1>2, Pending, Zenon
<1>4. CASE request[r].user \in active
  <2>1. Lock(r, "user") /\ "user" \in Row /\ {"transaction"} \in SUBSET Row
    BY <1>4 DEF LockUser, Row
  <2>2. QED
    BY <1>1, <1>2, <1>4, <2>1, LockMore, Zenon
<1>5. CASE request[r].user \notin active
  <2>1. Become(r, ToReject(request[r].txn))
    BY <1>5, Zenon DEF LockUser
  <2>2. QED
    BY <1>1, <1>3, <2>1, RejectSound, BecomeActs, Zenon
<1>6. QED
  BY <1>4, <1>5, Zenon

LEMMA LockClientActs ==
    ASSUME TypeOK, DecisionInv, LockInv, NEW r \in Request, LockClient(r)
    PROVE  Acts(r)
<1>1. /\ Locked(r) = {"transaction", "user"}
      /\ UNCHANGED <<now, active, client, covered, sessions, cookie, transactions, codes,
                     known, pages>>
  BY Zenon DEF LockClient, authority
<1>2. request[r].at \in {"issue", "deny"}
  BY <1>1, LockedPending, Zenon
<1>3. request[r].txn \in Transaction /\ transactions[request[r].txn] # Absent
  BY <1>2, Pending, Zenon
<1>4. CASE client # "disabled"
  <2>1. Lock(r, "client") /\ "client" \in Row /\ {"transaction", "user"} \in SUBSET Row
    BY <1>4 DEF LockClient, Row
  <2>2. QED
    BY <1>1, <1>2, <1>4, <2>1, LockMore, Zenon
<1>5. CASE client = "disabled"
  <2>1. Become(r, ToReject(request[r].txn))
    BY <1>5, Zenon DEF LockClient
  <2>2. QED
    BY <1>1, <1>3, <2>1, RejectSound, BecomeActs, Zenon
<1>6. QED
  BY <1>4, <1>5, Zenon

LEMMA LockGrantActs ==
    ASSUME TypeOK, DecisionInv, LockInv, NEW r \in Request, LockGrant(r)
    PROVE  Acts(r)
<1> DEFINE q == request[r]
<1>1. /\ q.at = "issue" /\ Locked(r) = {"transaction", "user", "client"}
      /\ UNCHANGED <<now, active, client, covered, sessions, cookie, transactions, codes, pages>>
  BY Zenon DEF LockGrant, authority
<1>2. q.txn \in Transaction /\ transactions[q.txn] # Absent
  BY <1>1, Pending, Zenon
<1>3. CASE Consents(q)
  <2>1. Lock(r, "grant") /\ UNCHANGED known
    BY <1>3, Zenon DEF LockGrant
  <2>2. "grant" \in Row /\ {"transaction", "user", "client"} \in SUBSET Row
    BY DEF Row
  <2>3. QED
    BY <1>1, <1>3, <2>1, <2>2, LockMore
<1>4. CASE ~Consents(q)
  <2>1. Uncovered(r)
    BY <1>4, Zenon DEF LockGrant
  <2>2. CASE "none" \in Prompts(q.txn)
    <3>1. Become(r, ToReject(q.txn)) /\ UNCHANGED known
      BY <2>1, <2>2 DEF Uncovered
    <3>2. QED
      BY <1>1, <1>2, <3>1, RejectSound, BecomeActs, Zenon
  <2>3. CASE "none" \notin Prompts(q.txn)
    <3>1. Redirect(r, q.txn)
      BY <2>1, <2>3 DEF Uncovered
    <3>2. QED
      BY <1>1, <1>2, <2>3, <3>1, RedirectActs, Zenon DEF Visible
  <2>4. QED
    BY <2>2, <2>3, Zenon
<1>5. QED
  BY <1>3, <1>4, Zenon

LEMMA RetryActs ==
    ASSUME TypeOK, DecisionInv, NEW r \in Request, Retry(r)
    PROVE  Acts(r)
<1> DEFINE x == [request[r] EXCEPT !.locked = {}]
<1>1. /\ Become(r, x) /\ Locked(r) # {}
      /\ UNCHANGED <<now, active, client, covered, sessions, cookie, transactions, codes,
                     known, pages>>
  BY Zenon DEF Retry, authority
<1>2. request[r].at \in {"issue", "deny"}
  BY <1>1, Zenon DEF Locked
<1>3. {} \in SUBSET Row
  OBVIOUS
<1>4. x \in Decided /\ Sound(x) /\ Held(x) = {}
  BY <1>2, <1>3, LocksSound, Zenon
<1>5. QED
  BY <1>1, <1>4, BecomeActs, Zenon

\* The request that has locked t commits, and no other has locked it.
LEMMA HolderCommits ==
    ASSUME TypeOK, LockInv, NEW r \in Request, "transaction" \in Held(request[r]), Become(r, Idle)
    PROVE  \A o \in Request : "transaction" \in Held(request'[o]) => request'[o].txn # request[r].txn
<1>1. request'[r] = Idle /\ \A o \in Request \ {r} : request'[o] = request[o]
  BY DEF Become, TypeOK
<1>2. QED
  BY <1>1, IdleSound, Zenon DEF LockInv, Alone

LEMMA IssueForm ==
    ASSUME TypeOK, LockInv, NEW r \in Request, Issue(r)
    PROVE  \E t \in Transaction : Settles(t, "consumed")
<1> DEFINE q == request[r]
<1>1. /\ q.at = "issue" /\ "grant" \in q.locked
      /\ transactions' = [transactions EXCEPT ![q.txn].state = "consumed"]
      /\ covered' = covered \cup {q.user}
      /\ codes' = codes \cup {[txn |-> q.txn, user |-> q.user, authAt |-> q.authAt,
                               interactive |-> q.interactive, decided |-> q.decided]}
      /\ Become(r, Idle)
      /\ UNCHANGED <<now, active, client, sessions, cookie, known, pages>>
  BY Zenon DEF Issue
<1>2. q.txn \in Transaction /\ q.user \in User /\ "grant" \in Held(q)
  BY <1>1, RequestTypes DEF Held
<1>3. /\ "transaction" \in Held(q) /\ transactions[q.txn].state = "live"
      /\ q.user \in active /\ client # "disabled" /\ Consents(q)
  BY <1>2, Zenon DEF LockInv, Secured
<1>4. covered \subseteq covered' /\ covered' \subseteq User
  BY <1>1, <1>2, Zenon DEF TypeOK
<1>5. \A o \in Request : "transaction" \in Held(request'[o]) => request'[o].txn # q.txn
  BY <1>1, <1>3, HolderCommits, Zenon
<1>6. Settles(q.txn, "consumed")
  BY <1>1, <1>3, <1>4, <1>5, Zenon DEF Settles, Become
<1>7. QED
  BY <1>2, <1>6, Zenon

LEMMA DenyForm ==
    ASSUME TypeOK, LockInv, NEW r \in Request, Deny(r)
    PROVE  \E t \in Transaction : Settles(t, "denied")
<1> DEFINE q == request[r]
<1>1. /\ q.at = "deny" /\ "client" \in q.locked /\ Become(r, Idle)
      /\ transactions' = [transactions EXCEPT ![q.txn].state = "denied"]
      /\ UNCHANGED <<now, active, client, covered, sessions, cookie, known, pages, codes>>
  BY Zenon DEF Deny, authority
<1>2. q.txn \in Transaction /\ "client" \in Held(q)
  BY <1>1, RequestTypes DEF Held
<1>3. "transaction" \in Held(q) /\ transactions[q.txn].state = "live"
  BY <1>2, Zenon DEF LockInv, Secured
<1>4. covered \subseteq covered' /\ covered' \subseteq User
  BY <1>1, Zenon DEF TypeOK
<1>5. \A o \in Request : "transaction" \in Held(request'[o]) => request'[o].txn # q.txn
  BY <1>1, <1>3, HolderCommits, Zenon
<1>6. Settles(q.txn, "denied")
  BY <1>1, <1>3, <1>4, <1>5, Zenon DEF Settles, Become
<1>7. QED
  BY <1>2, <1>6, Zenon

LEMMA RejectForm ==
    ASSUME TypeOK, NEW r \in Request, NEW clock \in 0..now, Reject(r, clock)
    PROVE  Acts(r) \/ \E t \in Transaction : Settles(t, "rejected")
<1> DEFINE q == request[r]
<1>1. /\ q.txn \in Transaction /\ Become(r, Idle) /\ ~TransactionLocked(q.txn)
      /\ UNCHANGED <<now, active, client, covered, sessions, cookie, known, pages, codes>>
  BY RequestTypes, Zenon DEF Reject, authority
<1>2. CASE ~StillLive(q.txn, clock)
  <2>1. UNCHANGED transactions
    BY <1>2 DEF Reject
  <2>2. QED
    BY <1>1, <2>1, IdleSound, BecomeActs, Zenon
<1>3. CASE StillLive(q.txn, clock)
  <2>1. /\ transactions' = [transactions EXCEPT ![q.txn].state = "rejected"]
        /\ transactions[q.txn].state = "live"
        /\ covered \subseteq covered' /\ covered' \subseteq User
    BY <1>1, <1>3, Zenon DEF Reject, StillLive, TypeOK
  <2>2. request'[r] = Idle /\ \A o \in Request \ {r} : request'[o] = request[o]
    BY <1>1 DEF Become, TypeOK
  <2>3. \A o \in Request : "transaction" \in Held(request'[o]) => request'[o].txn # q.txn
    BY <1>1, <2>2, IdleSound, Zenon DEF TransactionLocked, Locked, Held
  <2>4. Settles(q.txn, "rejected")
    BY <1>1, <2>1, <2>3, Zenon DEF Settles, Become
  <2>5. QED
    BY <1>1, <2>4, Zenon
<1>4. QED
  BY <1>2, <1>3, Zenon

LEMMA ExpireForm ==
    ASSUME TypeOK, NEW t \in Transaction, ExpireAuthTransactions(t)
    PROVE  Settles(t, "expired")
<1>1. \A r \in Request : "transaction" \in Held(request'[r]) => request'[r].txn # t
  BY Zenon DEF ExpireAuthTransactions, TransactionLocked, Locked, Held
<1>2. QED
  BY <1>1 DEF ExpireAuthTransactions, Settles, authority, TypeOK

LEMMA OverRow ==
    ASSUME NEW row \in SessionRow
    PROVE  Over(row) \in SessionRow /\ Over(row) # Absent /\ Over(row).user = row.user
BY Zenon DEF Over, SessionRow, Absent

LEMMA LoginsForm ==
    ASSUME TypeOK, ShownInv, NEW u \in User, NEW s \in Session, NEW at \in Nat, Login(u, s, at)
    PROVE  Environment
<1> DEFINE new == [user |-> u, authAt |-> at, state |-> "valid"]
<1>1. /\ sessions[s] = Absent /\ cookie' = s
      /\ sessions' = [x \in Session |-> IF x = s THEN new
                                        ELSE IF x = cookie THEN Over(sessions[x])
                                        ELSE sessions[x]]
      /\ UNCHANGED <<now, active, client, covered, transactions, known, pages, request, codes>>
  BY Zenon DEF Login
<1>2. new \in SessionRow /\ new # Absent
  BY Zenon DEF SessionRow, Absent
<1>3. \A x \in Session : sessions[x] # Absent =>
         /\ Over(sessions[x]) \in SessionRow /\ Over(sessions[x]) # Absent
         /\ Over(sessions[x]).user = sessions[x].user
  BY RowTypes, OverRow
<1>4. \A x \in Session : x = cookie => sessions[x] # Absent
  BY AskedAssumption DEF ShownInv
<1> HIDE DEF new
<1>5. sessions' \in [Session -> SessionRow \cup {Absent}]
  BY <1>1, <1>2, <1>3, <1>4, Zenon DEF TypeOK
<1>6. SessionsKeep
  BY <1>1, <1>3 DEF SessionsKeep
<1>7. cookie' \in Session \cup {None} /\ sessions'[cookie'] # Absent
  BY <1>1, <1>2
<1>8. /\ now' \in 0..MaxTime /\ active' \subseteq User /\ covered' \subseteq User
      /\ client' \in {"open", "closed", "disabled"}
  BY <1>1 DEF TypeOK
<1>9. QED
  BY <1>1, <1>5, <1>6, <1>7, <1>8, Zenon DEF Environment

LEMMA SessionEndsForm ==
    ASSUME TypeOK, ShownInv, NEW s \in Session, SessionEnds(s)
    PROVE  Environment
<1> DEFINE over == Over(sessions[s])
<1>1. /\ sessions[s] \in SessionRow /\ sessions[s] # Absent
      /\ over \in SessionRow /\ over # Absent /\ over.user = sessions[s].user
  <2>1. sessions[s].state = "valid"
    BY Zenon DEF SessionEnds
  <2>2. sessions[s] \in SessionRow /\ sessions[s] # Absent
    BY <2>1, RowTypes
  <2>3. QED
    BY <2>2, OverRow, Zenon
<1>2. /\ sessions' = [sessions EXCEPT ![s] = over]
      /\ UNCHANGED <<now, active, client, covered, cookie, transactions, known, pages,
                     request, codes>>
  BY DEF SessionEnds
<1> HIDE DEF over
<1>3. sessions' \in [Session -> SessionRow \cup {Absent}] /\ SessionsKeep
  BY <1>1, <1>2 DEF TypeOK, SessionsKeep
<1>4. cookie' # None => sessions'[cookie'] # Absent
  BY <1>2, <1>3 DEF ShownInv, SessionsKeep, TypeOK
<1>5. /\ now' \in 0..MaxTime /\ active' \subseteq User /\ covered' \subseteq User
      /\ client' \in {"open", "closed", "disabled"} /\ cookie' \in Session \cup {None}
  BY <1>2 DEF TypeOK
<1>6. QED
  BY <1>2, <1>3, <1>4, <1>5, Zenon DEF Environment

LEMMA SetUserStatusForm ==
    ASSUME TypeOK, ShownInv, NEW u \in User, SetUserStatus(u)
    PROVE  Environment
<1>1. \A x \in Session : sessions[x] # Absent =>
         /\ Over(sessions[x]) \in SessionRow /\ Over(sessions[x]) # Absent
         /\ Over(sessions[x]).user = sessions[x].user
  BY RowTypes, OverRow
<1>2. /\ sessions' = [x \in Session |->
             IF sessions[x] # Absent /\ sessions[x].user = u
             THEN Over(sessions[x]) ELSE sessions[x]]
      /\ active' \subseteq User
      /\ UNCHANGED <<now, client, covered, cookie, transactions, known, pages, request, codes>>
  BY DEF SetUserStatus, TypeOK
<1>3. sessions' \in [Session -> SessionRow \cup {Absent}] /\ SessionsKeep
  BY <1>1, <1>2 DEF TypeOK, SessionsKeep
<1>4. cookie' # None => sessions'[cookie'] # Absent
  BY <1>2, <1>3, Zenon DEF ShownInv, SessionsKeep, TypeOK
<1>5. /\ now' \in 0..MaxTime /\ covered' \subseteq User
      /\ client' \in {"open", "closed", "disabled"} /\ cookie' \in Session \cup {None}
  BY <1>2 DEF TypeOK
<1>6. \A r \in Request : "user" \in Held(request[r]) => request[r].user # u
  BY Zenon DEF SetUserStatus, UserLocked, Locked, Held
<1>7. \A w : w # u /\ w \in active => w \in active'
  BY DEF SetUserStatus
<1>8. QED
  BY <1>2, <1>3, <1>4, <1>5, <1>6, <1>7, Zenon DEF Environment

LEMMA OtherEnvironment ==
    ASSUME TypeOK, ShownInv,
           \/ \E u \in User : RevokeGrant(u)
           \/ \E c \in {"open", "closed", "disabled"} : UpdateClient(c)
           \/ Tick
    PROVE  Environment
<1>1. /\ UNCHANGED <<active, sessions, cookie, transactions, known, pages, request, codes>>
      /\ covered' \subseteq User /\ client' \in {"open", "closed", "disabled"}
      /\ now' = now \/ (now < MaxTime /\ now' = now + 1)
  BY SMTT(20) DEF RevokeGrant, UpdateClient, Tick, TypeOK, authority
<1>2. now' \in 0..MaxTime
  <2>1. now \in 0..MaxTime /\ MaxTime \in Nat
    BY AskedAssumption DEF TypeOK
  <2>2. QED
    BY <1>1, <2>1
<1>3. SessionsKeep /\ (cookie' # None => sessions'[cookie'] # Absent)
  BY <1>1, Zenon DEF SessionsKeep, ShownInv
<1>4. \A r \in Request : "client" \in Held(request[r]) => client' = client
  BY Zenon DEF RevokeGrant, UpdateClient, Tick, ClientLocked, Locked, Held, authority
<1>5. ASSUME NEW r \in Request, "user" \in Held(request[r]), request[r].user \in covered
      PROVE  request[r].user \in covered'
  <2>1. UserLocked(request[r].user)
    BY <1>5, Zenon DEF UserLocked, Locked, Held
  <2>2. CASE covered' = covered
    BY <1>5, <2>2, Zenon
  <2>3. CASE \E u \in User : RevokeGrant(u)
    BY <1>5, <2>1, <2>3 DEF RevokeGrant
  <2>4. QED
    BY <2>2, <2>3, Zenon DEF UpdateClient, Tick, authority
<1>6. active' \subseteq User /\ sessions' \in [Session -> SessionRow \cup {Absent}]
      /\ cookie' \in Session \cup {None}
  BY <1>1, Zenon DEF TypeOK
<1>7. QED
  BY <1>1, <1>2, <1>3, <1>4, <1>5, <1>6, Zenon DEF Environment

LEMMA Steps ==
    ASSUME TypeOK, ShownInv, DecisionInv, LockInv, Next
    PROVE  \/ \E r \in Request : Acts(r)
           \/ \E t \in Transaction : Opens(t)
           \/ \E t \in Transaction, v \in Outcome \ {"live"} : Settles(t, v)
           \/ Environment
<1>1. CASE \E r \in Request, t \in Transaction, a \in Asked : Authorize(r, t, a)
  BY <1>1, AuthorizeOpens
<1>2. CASE \E r \in Request, t \in Transaction : Continue(r, t) \/ GetConsent(r, t)
  BY <1>2, ContinueActs, GetConsentActs
<1>3. CASE \E r \in Request, p \in pages, d \in {"issue", "deny"} : PostConsent(r, p, d)
  BY <1>3, PostConsentActs
<1>4. CASE \E r \in Request : Advance(r) \/ Abandon(r)
  BY <1>4, AdvanceActs, AbandonActs
<1>5. CASE \/ \E r \in Request, clock \in 0..now : LockTransaction(r, clock) \/ Reject(r, clock)
           \/ \E r \in Request : LockUser(r) \/ LockClient(r) \/ LockGrant(r)
           \/ \E r \in Request : Issue(r) \/ Deny(r) \/ Retry(r)
  <2>1. {"consumed", "denied", "rejected"} \subseteq Outcome \ {"live"}
    BY DEF Outcome
  <2>2. QED
    BY <1>5, <2>1, LockTransactionActs, LockUserActs, LockClientActs, LockGrantActs, RetryActs,
       IssueForm, DenyForm, RejectForm, Zenon
<1>6. CASE \E t \in Transaction : ExpireAuthTransactions(t)
  BY <1>6, ExpireForm DEF Outcome
<1>7. CASE \E u \in User, s \in Session, at \in {now, now - 1} \cap Nat : Login(u, s, at)
  BY <1>7, LoginsForm
<1>8. CASE \E s \in Session : SessionEnds(s)
  BY <1>8, SessionEndsForm
<1>9. CASE \E u \in User : SetUserStatus(u)
  BY <1>9, SetUserStatusForm
<1>10. QED
  BY <1>1, <1>2, <1>3, <1>4, <1>5, <1>6, <1>7, <1>8, <1>9, OtherEnvironment, Zenon DEF Next

-----------------------------------------------------------------------------
(* Each form keeps the invariant.                                          *)

LEMMA DecisionsKept ==
    ASSUME FlowInv, Keeps,
           \A r \in Request : request'[r] = request[r] \/ Sound(request[r])'
    PROVE  DecisionInv'
<1>1. ASSUME NEW r \in Request, request'[r] = request[r] PROVE Sound(request[r])'
  <2>1. PICK x \in Decided \cup Arrived \cup {Idle} : Sound(x) /\ request[r] = x
    BY RequestTypes, Zenon DEF FlowInv, DecisionInv
  <2>2. Sound(x)'
    BY <2>1, SoundKept DEF FlowInv
  <2>3. QED
    BY <1>1, <2>1, <2>2, Zenon DEF Sound, Fits
<1>2. QED
  BY <1>1 DEF DecisionInv

LEMMA CodesKept ==
    ASSUME FlowInv, Keeps
    PROVE  \A c \in codes : transactions'[c.txn].state = "consumed" /\ Fits(c)'
<1>1. SUFFICES ASSUME NEW c \in codes
               PROVE  transactions'[c.txn].state = "consumed" /\ Fits(c)'
  OBVIOUS
<1>2. c.txn \in Transaction /\ transactions[c.txn].state = "consumed" /\ Fits(c)
  BY DEF FlowInv, TypeOK, CodeInv, Code
<1>3. transactions[c.txn] # Absent
  BY <1>2, RowTypes DEF FlowInv
<1>4. transactions'[c.txn].state = "consumed"
  BY <1>2, <1>3, Zenon DEF Keeps, TransactionsKeep
<1>5. QED
  BY <1>2, <1>3, <1>4, FitsKept DEF FlowInv

LEMMA ShownKept ==
    ASSUME FlowInv, Keeps, known' = known, pages' = pages,
           cookie' # None => sessions'[cookie'] # Absent
    PROVE  ShownInv'
<1>1. \A t \in known : Visible(t)'
  BY VisibleKept, SMTT(20) DEF FlowInv, ShownInv, Keeps, TypeOK
<1>2. \A p \in pages : Visible(p[1])' /\ sessions'[p[2]] # Absent
  <2>1. SUFFICES ASSUME NEW p \in pages PROVE Visible(p[1])' /\ sessions'[p[2]] # Absent
    BY Zenon
  <2>2. p[1] \in Transaction /\ p[2] \in Session /\ Visible(p[1]) /\ sessions[p[2]] # Absent
    BY DEF FlowInv, ShownInv, TypeOK
  <2>3. QED
    BY <2>2, VisibleKept, Zenon DEF FlowInv, Keeps, SessionsKeep
<1>3. QED
  BY <1>1, <1>2 DEF ShownInv

LEMMA ActsKeeps ==
    ASSUME FlowInv, NEW r \in Request, Acts(r)
    PROVE  FlowInv'
<1>1. Keeps
  BY Zenon DEF Acts, Keeps, TransactionsKeep, SessionsKeep
<1>2. PICK x \in Decided \cup Arrived \cup {Idle} :
        Sound(x) /\ Secured(x) /\ Alone(r, x) /\ request' = [request EXCEPT ![r] = x]
  BY Zenon DEF Acts
<1>3. TypeOK'
  <2>1. request' \in [Request -> Decided \cup Arrived \cup {Idle}]
    BY <1>2 DEF FlowInv, TypeOK
  <2>2. known' \subseteq Transaction /\ pages' \subseteq Transaction \X Session
    BY DEF FlowInv, TypeOK, Acts
  <2>3. QED
    BY <2>1, <2>2, Zenon DEF FlowInv, TypeOK, Acts
<1>4. ShownInv'
  BY Zenon DEF FlowInv, ShownInv, Acts, Visible, Prompts
<1>5. DecisionInv'
  <2>1. Sound(x)'
    BY <1>1, <1>2, SoundKept DEF FlowInv
  <2>2. request'[r] = x /\ \A q \in Request \ {r} : request'[q] = request[q]
    BY <1>2 DEF FlowInv, TypeOK
  <2>3. Sound(request[r])'
    BY <2>1, <2>2, Zenon DEF Sound, Fits
  <2>4. QED
    BY <1>1, <2>2, <2>3, DecisionsKept, Zenon
<1>6. CodeInv'
  BY <1>1, CodesKept, Zenon DEF FlowInv, CodeInv, Acts
<1>7. LockInv'
  <2>1. request'[r] = x /\ \A o \in Request \ {r} : request'[o] = request[o]
    BY <1>2 DEF FlowInv, TypeOK
  <2>2. \A o \in Request : Secured(request[o])'
    <3>1. UNCHANGED <<transactions, active, client, covered>>
      BY Zenon DEF Acts
    <3>2. Secured(x)'
      BY <1>2, <3>1, Zenon DEF Secured, Consents
    <3>3. Secured(request[r])'
      BY <2>1, <3>2, Zenon DEF Secured, Consents
    <3>4. ASSUME NEW o \in Request \ {r} PROVE Secured(request[o])'
      BY <2>1, <3>1, <3>4, Zenon DEF FlowInv, LockInv, Secured, Consents
    <3>5. QED
      BY <3>3, <3>4, Zenon
  <2>3. \A o \in Request : Alone(o, request[o])'
    BY <1>2, <2>1, Zenon DEF FlowInv, LockInv, Alone
  <2>4. QED
    BY <2>2, <2>3, Zenon DEF LockInv
<1>8. QED
  BY <1>3, <1>4, <1>5, <1>6, <1>7, Zenon DEF FlowInv

LEMMA OpensKeeps ==
    ASSUME FlowInv, NEW t \in Transaction, Opens(t)
    PROVE  FlowInv'
<1>1. PICK row \in TransactionRow :
        row.state = "live" /\ transactions' = [transactions EXCEPT ![t] = row]
  BY Zenon DEF Opens
<1>2. PICK r \in Request, x \in Arrived :
        x.txn = t /\ request' = [request EXCEPT ![r] = x]
  BY Zenon DEF Opens
<1>3. Keeps
  <2>1. transactions[t] = Absent /\ sessions' = sessions /\ known' = known /\ pages' = pages
    BY DEF Opens
  <2>2. \A u \in Transaction \ {t} : transactions'[u] = transactions[u]
    BY <1>1 DEF FlowInv, TypeOK
  <2>3. TransactionsKeep
    BY <2>1, <2>2 DEF TransactionsKeep
  <2>4. QED
    BY <2>1, <2>3 DEF Keeps, SessionsKeep
<1>4. TypeOK'
  <2>1. request' \in [Request -> Decided \cup Arrived \cup {Idle}]
    BY <1>2 DEF FlowInv, TypeOK
  <2>2. transactions' \in [Transaction -> TransactionRow \cup {Absent}]
    BY <1>1 DEF FlowInv, TypeOK
  <2>3. QED
    BY <2>1, <2>2, Zenon DEF FlowInv, TypeOK, Opens
<1>5. ShownInv'
  BY <1>3, ShownKept, Zenon DEF FlowInv, ShownInv, Opens
<1>6. DecisionInv'
  <2>1. transactions'[t] = row /\ row # Absent
    <3>1. row # Absent
      <4>1. Absent.state = "absent"
        BY Zenon DEF Absent
      <4>2. "live" # "absent" /\ row.state = "live"
        BY <1>1, Zenon
      <4>3. QED
        BY <4>1, <4>2, Zenon
    <3>2. transactions \in [Transaction -> TransactionRow \cup {Absent}]
      BY Zenon DEF FlowInv, TypeOK
    <3>3. QED
      BY <1>1, <3>1, <3>2, Zenon
  <2>2. request'[r] = x /\ \A q \in Request \ {r} : request'[q] = request[q]
    BY <1>2 DEF FlowInv, TypeOK
  <2>3. Sound(request[r])'
    BY <1>2, <2>1, <2>2, SMTT(20) DEF Sound, Arrived
  <2>4. QED
    BY <1>3, <2>2, <2>3, DecisionsKept, SMTT(20)
<1>7. CodeInv'
  BY <1>3, CodesKept, Zenon DEF FlowInv, CodeInv, Opens
<1>8. LockInv'
  <2>1. request'[r] = x /\ \A o \in Request \ {r} : request'[o] = request[o]
    BY <1>2 DEF FlowInv, TypeOK
  <2>2. Held(x) = {}
    BY <1>2 DEF Held, Arrived
  <2>3. UNCHANGED <<active, client, covered>> /\ transactions[t] = Absent
    BY Zenon DEF Opens
  <2>4. \A u \in Transaction \ {t} : transactions'[u] = transactions[u]
    BY <1>1 DEF FlowInv, TypeOK
  <2>5. transactions[t].state # "live"
    BY <2>3 DEF Absent
  <2>6. \A o \in Request : Secured(request[o])'
    <3>1. Secured(request[r])'
      BY <2>1, <2>2, Zenon DEF Secured
    <3>2. ASSUME NEW o \in Request \ {r} PROVE Secured(request[o])'
      <4>1. Secured(request[o])
        BY <3>2, Zenon DEF FlowInv, LockInv
      <4>2. "transaction" \in Held(request[o]) =>
                transactions'[request[o].txn] = transactions[request[o].txn]
        BY <2>4, <2>5, <3>2, <4>1, HeldTypes, Zenon DEF Secured, FlowInv
      <4>3. QED
        BY <2>1, <2>3, <3>2, <4>1, <4>2, Zenon DEF Secured, Consents
    <3>3. QED
      BY <3>1, <3>2, Zenon
  <2>7. \A o \in Request : Alone(o, request[o])'
    BY <2>1, <2>2, Zenon DEF FlowInv, LockInv, Alone
  <2>8. QED
    BY <2>6, <2>7, Zenon DEF LockInv
<1>9. QED
  BY <1>4, <1>5, <1>6, <1>7, <1>8, Zenon DEF FlowInv

LEMMA EnvironmentKeeps ==
    ASSUME FlowInv, Environment
    PROVE  FlowInv'
<1>1. Keeps
  BY Zenon DEF Environment, Keeps, TransactionsKeep
<1>2. TypeOK'
  BY Zenon DEF FlowInv, TypeOK, Environment
<1>3. ShownInv'
  BY <1>1, ShownKept DEF Environment
<1>4. DecisionInv'
  BY <1>1, DecisionsKept, SMTT(20) DEF Environment
<1>5. CodeInv'
  BY <1>1, CodesKept, Zenon DEF FlowInv, CodeInv, Environment
<1>6. LockInv'
  <2>1. \A o \in Request : Secured(request[o])'
    BY Zenon DEF FlowInv, LockInv, Secured, Consents, Environment
  <2>2. \A o \in Request : Alone(o, request[o])'
    BY Zenon DEF FlowInv, LockInv, Alone, Environment
  <2>3. QED
    BY <2>1, <2>2, Zenon DEF LockInv
<1>7. QED
  BY <1>2, <1>3, <1>4, <1>5, <1>6, Zenon DEF FlowInv

\* A transaction that is not consumed has yielded no code.
LEMMA Uncoded ==
    ASSUME FlowInv, NEW t, transactions[t].state # "consumed"
    PROVE  \A c \in codes : c.txn # t
BY DEF FlowInv, CodeInv

\* What a commit writes, and the code it may create.
LEMMA SettlesWrites ==
    ASSUME FlowInv, NEW t \in Transaction, NEW v \in Outcome \ {"live"}, Settles(t, v)
    PROVE  /\ transactions'[t].state = v
           /\ transactions' \in [Transaction -> TransactionRow \cup {Absent}]
           /\ \A u \in Transaction \ {t} : transactions'[u] = transactions[u]
           /\ Keeps
<1> DEFINE row == [transactions[t] EXCEPT !.state = v]
<1>1. /\ transactions[t].state = "live"
      /\ transactions' = [transactions EXCEPT ![t] = row]
      /\ sessions' = sessions /\ known' = known /\ pages' = pages
  BY DEF Settles
<1>2. transactions[t] \in TransactionRow /\ transactions[t] # Absent
  BY <1>1, RowTypes DEF FlowInv
<1>3. /\ row \in TransactionRow /\ row # Absent /\ row.state = v
      /\ row.asked = transactions[t].asked /\ row.created = transactions[t].created
  BY <1>2 DEF TransactionRow, Absent
<1> HIDE DEF row
<1>4. /\ transactions' \in [Transaction -> TransactionRow \cup {Absent}]
      /\ transactions'[t] = row
      /\ \A u \in Transaction \ {t} : transactions'[u] = transactions[u]
  BY <1>1, <1>3 DEF FlowInv, TypeOK
<1>5. TransactionsKeep
  <2>1. SUFFICES ASSUME NEW u \in Transaction, transactions[u] # Absent
                 PROVE  /\ transactions'[u] # Absent
                        /\ transactions'[u].asked = transactions[u].asked
                        /\ transactions'[u].created = transactions[u].created
                        /\ transactions[u].state = "consumed" =>
                              transactions'[u].state = "consumed"
    BY Zenon DEF TransactionsKeep
  <2>2. CASE u = t
    BY <1>1, <1>3, <1>4, <2>2, Zenon
  <2>3. CASE u # t
    BY <1>4, <2>1, <2>3, Zenon
  <2>4. QED
    BY <2>2, <2>3, Zenon
<1>6. Keeps
  BY <1>1, <1>5 DEF Keeps, SessionsKeep
<1>7. QED
  BY <1>3, <1>4, <1>6, Zenon

LEMMA SettlesCodes ==
    ASSUME FlowInv, NEW t \in Transaction, Settles(t, "consumed")
    PROVE  \E c \in Code : c.txn = t /\ codes' = codes \cup {c} /\ Fits(c)'
<1>1. PICK r \in Request :
        LET q == request[r]
            c == [txn |-> q.txn, user |-> q.user, authAt |-> q.authAt,
                  interactive |-> q.interactive, decided |-> q.decided]
        IN  /\ q.at = "issue" /\ q.txn = t
            /\ codes' = codes \cup {c}
  BY DEF Settles
<1> DEFINE q == request[r]
           c == [txn |-> q.txn, user |-> q.user, authAt |-> q.authAt,
                 interactive |-> q.interactive, decided |-> q.decided]
<1>2. q.at = "issue" /\ q.txn = t /\ codes' = codes \cup {c}
  BY <1>1, Zenon
<1>3. q.user \in User /\ q.authAt \in Nat /\ q.interactive \in BOOLEAN /\ q.decided \in Nat
  BY <1>2, RequestTypes, Zenon DEF FlowInv
<1>4. /\ c \in Code /\ c.txn = q.txn /\ c.user = q.user /\ c.authAt = q.authAt
      /\ c.interactive = q.interactive /\ c.decided = q.decided
  BY <1>2, <1>3, Zenon DEF Code
<1>5. Fits(q) /\ transactions[q.txn] # Absent
  BY <1>2, Zenon DEF FlowInv, DecisionInv, Sound
<1> HIDE DEF q, c
<1>6. PICK x, d : x = q /\ d = c
  OBVIOUS
<1>7. Keeps
  BY SettlesWrites, Zenon DEF Outcome
<1>8. Fits(x)'
  BY <1>2, <1>5, <1>6, <1>7, FitsKept, Zenon DEF FlowInv
<1>9. Fits(d)'
  BY <1>4, <1>6, <1>8, Zenon DEF Fits
<1>10. QED
  BY <1>2, <1>4, <1>6, <1>9, Zenon

LEMMA SettlesKeeps ==
    ASSUME FlowInv, NEW t \in Transaction, NEW v \in Outcome \ {"live"}, Settles(t, v)
    PROVE  FlowInv'
<1>1. /\ transactions'[t].state = v /\ Keeps
      /\ transactions' \in [Transaction -> TransactionRow \cup {Absent}]
  BY SettlesWrites
<1>2. ShownInv'
  BY <1>1, ShownKept, Zenon DEF FlowInv, ShownInv, Settles
<1>3. \A r \in Request : request'[r] = request[r] \/ request'[r] = Idle
  BY DEF Settles, FlowInv, TypeOK
<1>4. DecisionInv'
  <2>1. Idle.at = "idle"
    BY DEF Idle
  <2>2. \A r \in Request : request'[r] = Idle => Sound(request[r])'
    BY <2>1, Zenon DEF Sound
  <2>3. QED
    BY <1>1, <1>3, <2>2, DecisionsKept, Zenon
<1>5. request' \in [Request -> Decided \cup Arrived \cup {Idle}]
  BY DEF Settles, FlowInv, TypeOK
<1>6. codes' \subseteq Code /\ CodeInv'
  <2>1. CASE v # "consumed"
    BY <1>1, <2>1, CodesKept, Zenon DEF FlowInv, TypeOK, CodeInv, Settles
  <2>2. CASE v = "consumed"
    <3>1. PICK c \in Code : c.txn = t /\ codes' = codes \cup {c} /\ Fits(c)'
      BY <2>2, SettlesCodes
    <3>2. \A d \in codes : d.txn # t
      BY Uncoded DEF Settles
    <3>3. QED
      BY <1>1, <2>2, <3>1, <3>2, CodesKept, Zenon DEF FlowInv, TypeOK, CodeInv
  <2>3. QED
    BY <2>1, <2>2
<1>7. TypeOK'
  BY <1>1, <1>5, <1>6, Zenon DEF FlowInv, TypeOK, Settles
<1>8. LockInv'
  <2>1. /\ active' = active /\ client' = client /\ covered \subseteq covered'
        /\ \A o \in Request : "transaction" \in Held(request'[o]) => request'[o].txn # t
    BY Zenon DEF Settles
  <2>2. \A u \in Transaction \ {t} : transactions'[u] = transactions[u]
    BY SettlesWrites
  <2>4. \A o \in Request : Secured(request[o])'
    BY <1>3, <2>1, <2>2, HeldTypes, IdleSound, Zenon DEF FlowInv, LockInv, Secured, Consents
  <2>5. \A o \in Request : Alone(o, request[o])'
    BY <1>3, IdleSound, Zenon DEF FlowInv, LockInv, Alone
  <2>6. QED
    BY <2>4, <2>5, Zenon DEF LockInv
<1>9. QED
  BY <1>2, <1>4, <1>6, <1>7, <1>8, Zenon DEF FlowInv

LEMMA FlowInit == Init => FlowInv
<1>1. Init => TypeOK
  BY AskedAssumption DEF Init, TypeOK
<1>2. Init => ShownInv /\ DecisionInv /\ CodeInv
  BY DEF Init, ShownInv, DecisionInv, CodeInv, Sound, Idle
<1>3. Init => LockInv
  BY IdleSound, Zenon DEF Init, LockInv
<1>4. QED
  BY <1>1, <1>2, <1>3, Zenon DEF FlowInv

LEMMA FlowStep == FlowInv /\ [Next]_vars => FlowInv'
<1>1. CASE FlowInv /\ Next
  BY <1>1, Steps, ActsKeeps, OpensKeeps, SettlesKeeps, EnvironmentKeeps, Zenon DEF FlowInv
<1>2. CASE FlowInv /\ UNCHANGED vars
  <2>1. TypeOK'
    BY <1>2, Zenon DEF vars, FlowInv, TypeOK
  <2>2. ShownInv'
    BY <1>2, Zenon DEF vars, FlowInv, ShownInv, Visible, Prompts
  <2>3. DecisionInv'
    BY <1>2, Zenon DEF vars, FlowInv, DecisionInv, Sound, Fits, Visible, Prompts
  <2>4. CodeInv'
    BY <1>2, Zenon DEF vars, FlowInv, CodeInv, Fits, Visible, Prompts
  <2>5. LockInv'
    BY <1>2, Zenon DEF vars, FlowInv, LockInv, Secured, Alone, Consents, authority
  <2>6. QED
    BY <2>1, <2>2, <2>3, <2>4, <2>5, Zenon DEF FlowInv
<1>3. QED
  BY <1>1, <1>2

-----------------------------------------------------------------------------
(* The theorems.                                                           *)

\* Whatever a request has decided to do fits what its transaction asked for and
\* the page its user saw, until it commits and beyond; and the rows it has locked
\* are as it found them (advanceAuthorization, consentPrincipal,
\* IssueAuthorizationCode).
THEOREM FlowInvariant == Spec => []FlowInv
BY FlowInit, FlowStep, PTL DEF Spec

\* Every decision behind a code was made on a page shown to the user the code is
\* for, however many accounts the browser went through (postConsent).
THEOREM ConsentIsTheUsersOwnHolds == Spec => []ConsentIsTheUsersOwn
<1>1. FlowInv => ConsentIsTheUsersOwn
  BY Zenon DEF FlowInv, CodeInv, Fits, ConsentIsTheUsersOwn, Prompts
<1>2. QED
  BY <1>1, FlowInvariant, PTL

\* prompt and max_age are honoured by every code, and prompt=none shows no page
\* (advanceAuthorization, issueAuthorizationCode).
THEOREM PromptHonouredHolds == Spec => []PromptHonoured
<1>1. FlowInv => PromptHonoured
  BY Zenon DEF FlowInv, CodeInv, ShownInv, Fits, Visible, PromptHonoured, LoginIsWhatWasAsked,
     NoneShowsNothing, Prompts
<1>2. QED
  BY <1>1, FlowInvariant, PTL

\* A code is created only from authority that exists in the step that creates it,
\* although the user, the client and the grant were looked at in earlier steps:
\* the locks taken there keep them as they were (IssueAuthorizationCode).
THEOREM CodeFromCurrentAuthorityHolds == Spec => CodeFromCurrentAuthority
<1>1. FlowInv /\ [Next]_vars => [FromCurrentAuthority]_vars
  <2>1. SUFFICES ASSUME FlowInv, Next PROVE FromCurrentAuthority
    OBVIOUS
  <2>2. CASE codes' = codes
    BY <2>2 DEF FromCurrentAuthority
  <2>3. ASSUME NEW t \in Transaction, Settles(t, "consumed") PROVE FromCurrentAuthority
    BY <2>3 DEF Settles, FromCurrentAuthority, Consents
  <2>4. QED
    BY <2>1, <2>2, <2>3, Steps, Zenon DEF FlowInv, Acts, Opens, Environment, Settles
<1>2. QED
  BY <1>1, FlowInvariant, PTL DEF Spec, CodeFromCurrentAuthority

-----------------------------------------------------------------------------
(* The refinement of OneShot.                                              *)

LEMMA UnchangedPromise ==
    ASSUME transactions' = transactions, codes' = codes
    PROVE  Verdicts' = Verdicts /\ Effects' = Effects
BY Zenon DEF Verdicts, Effects

LEMMA OpensPromise ==
    ASSUME FlowInv, NEW t \in Transaction, Opens(t)
    PROVE  Promise!Next
<1>1. PICK row \in TransactionRow :
        row.state = "live" /\ transactions' = [transactions EXCEPT ![t] = row]
  BY Zenon DEF Opens
<1>2. /\ transactions'[t].state = "live" /\ transactions[t].state = "absent"
      /\ \A u \in Transaction \ {t} : transactions'[u] = transactions[u]
      /\ codes' = codes
  BY <1>1, SMTT(20) DEF FlowInv, TypeOK, Opens, Absent
<1>3. Verdicts[t] = "absent" /\ Verdicts'[t] = "open"
  BY <1>2, Zenon DEF Verdicts
<1>4. Verdicts' = [Verdicts EXCEPT ![t] = "open"]
  BY <1>2, Zenon DEF Verdicts
<1>5. Effects' = Effects
  BY <1>2, Zenon DEF Effects
<1>6. Promise!Open(t)
  BY <1>3, <1>4, <1>5 DEF Promise!Open
<1>7. QED
  BY <1>3, <1>6 DEF Promise!Next

INSTANCE FiniteSetTheorems

LEMMA SettlesPromise ==
    ASSUME FlowInv, NEW t \in Transaction, NEW v \in Outcome \ {"live"}, Settles(t, v)
    PROVE  Promise!Next
<1>1. /\ transactions[t].state = "live" /\ transactions'[t].state = v /\ v # "live"
      /\ \A u \in Transaction \ {t} : transactions'[u] = transactions[u]
  BY SettlesWrites, Zenon DEF Settles
<1>2. Verdicts[t] = "open" /\ Verdicts'[t] = v /\ v # "open"
  BY <1>1 DEF Verdicts, Outcome
<1>3. Verdicts' = [Verdicts EXCEPT ![t] = v]
  BY <1>1, Zenon DEF Verdicts
<1>4. Effects' = IF v \in {"consumed"} THEN [Effects EXCEPT ![t] = @ + 1] ELSE Effects
  <2>1. CASE v # "consumed"
    BY <2>1 DEF Settles, Effects
  <2>2. CASE v = "consumed"
    <3>1. PICK c \in Code : c.txn = t /\ codes' = codes \cup {c}
      BY <2>2, SettlesCodes
    <3>2. {d \in codes : d.txn = t} = {} /\ {d \in codes' : d.txn = t} = {c}
      BY <1>1, <3>1, Uncoded
    <3>3. Effects[t] = 0 /\ Effects'[t] = 1
      BY <3>2, FS_EmptySet, FS_Singleton, Zenon DEF Effects
    <3>4. \A u \in Transaction \ {t} :
             {d \in codes' : d.txn = u} = {d \in codes : d.txn = u}
      BY <3>1
    <3>5. \A u \in Transaction \ {t} : Effects'[u] = Effects[u]
      BY <3>4, Zenon DEF Effects
    <3>6. /\ Effects = [u \in Transaction |-> Effects[u]]
          /\ Effects' = [u \in Transaction |-> Effects'[u]]
      BY DEF Effects
    <3>7. Effects' = [Effects EXCEPT ![t] = Effects[t] + 1]
      BY <3>3, <3>5, <3>6
    <3>8. QED
      BY <2>2, <3>7
  <2>3. QED
    BY <2>1, <2>2
<1>5. Promise!Decide(t, v)
  BY <1>2, <1>3, <1>4 DEF Promise!Decide
<1>6. QED
  BY <1>2, <1>5 DEF Promise!Next

\* AuthorizeFlow implements OneShot for any number of transactions and requests:
\* a transaction is decided once, and the one code it may yield appears in the
\* step that consumes it (IssueAuthorizationCode, DenyAuthorization,
\* RejectAuthTransaction, ExpireAuthTransactions).
THEOREM DecidedOnceHolds == Spec => DecidedOnce
<1>1. Init => Promise!Init
  <2>1. SUFFICES ASSUME Init PROVE Promise!Init
    OBVIOUS
  <2>2. \A t \in Transaction : {c \in codes : c.txn = t} = {}
    BY <2>1 DEF Init
  <2>3. Effects = [t \in Transaction |-> 0]
    BY <2>2, FS_EmptySet DEF Effects
  <2>4. Verdicts = [t \in Transaction |-> "absent"]
    BY <2>1 DEF Init, Verdicts, Absent
  <2>5. QED
    BY <2>3, <2>4 DEF Promise!Init
<1>2. FlowInv /\ [Next]_vars => [Promise!Next]_<<Verdicts, Effects>>
  <2>1. SUFFICES ASSUME FlowInv, [Next]_vars
                 PROVE  Promise!Next \/ (Verdicts' = Verdicts /\ Effects' = Effects)
    OBVIOUS
  <2>2. CASE transactions' = transactions /\ codes' = codes
    BY <2>2, UnchangedPromise
  <2>3. CASE Next
    BY <2>1, <2>2, <2>3, Steps, OpensPromise, SettlesPromise, Zenon
       DEF FlowInv, Acts, Environment
  <2>4. QED
    BY <2>1, <2>2, <2>3 DEF vars
<1>3. QED
  BY <1>1, <1>2, FlowInvariant, PTL DEF Spec, DecidedOnce, Promise!Spec
=============================================================================
