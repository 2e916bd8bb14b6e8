----------------------- MODULE PasswordSessionsProofs -----------------------
(* What PasswordSessions keeps for every number of handlers: its types, one code
   per write and, until a write starts from an overtaken copy, the end of every
   older session.  Without that condition the last claim is false (run
   sessions_lostupdate); writers that do not overlap never meet it.                                                    *)
EXTENDS PasswordSessions, TLAPS, FiniteSetTheorems

-----------------------------------------------------------------------------
(* Types.                                                                   *)

LEMMA TypeStep == TypeOK /\ [Next]_vars => TypeOK'
<1> SUFFICES ASSUME TypeOK, [Next]_vars PROVE TypeOK'
  OBVIOUS
<1> USE DEF TypeOK, Tokens, Handlers, Writers, Goto, Read, row, copy, history
<1>s. ASSUME SendChangeCode \/ SendResetCode
      PROVE  \E p \in CodePurposes : CodeSent(p)
  BY <1>s DEF SendChangeCode, SendResetCode, CodePurposes
<1>1. ASSUME NEW p \in CodePurposes, CodeSent(p) \/ CodeGone(p) PROVE TypeOK'
  <2>1. MaxCodes \in Nat /\ issued \in 0..MaxCodes
    BY SessionsAssumption
  <2>2. issued' \in 0..MaxCodes
    BY <1>1, <2>1 DEF CodeSent, CodeGone
  <2>3. outstanding' \subseteq CodePurposes
    BY <1>1 DEF CodeSent, CodeGone
  <2> QED
    BY <1>1, <2>2, <2>3 DEF CodeSent, CodeGone
<1>2. ASSUME NEW h \in Logins, LoginRead(h) PROVE TypeOK'
  BY <1>2 DEF LoginRead
<1>3. ASSUME NEW h \in Logins, LoginAnswer(h) PROVE TypeOK'
  BY <1>3 DEF LoginAnswer, Matches, Token
<1>4. ASSUME NEW h \in Changers, ChangeAuth(h) \/ ChangeVerify(h) \/ ChangeRefused(h)
      PROVE TypeOK'
  BY <1>4 DEF ChangeAuth, ChangeVerify, ChangeRefused, ConsumeCode
<1>5. ASSUME NEW h \in Resetters, ResetVerify(h) \/ ResetRead(h) PROVE TypeOK'
  BY <1>5 DEF ResetVerify, ResetRead, ConsumeCode
<1>6. ASSUME NEW h \in Writers, WritePassword(h) PROVE TypeOK'
  <2>1. readVersion[h] \in 0..epoch
    OBVIOUS
  <2>2. version' \in 0..epoch'
    BY <1>6, <2>1 DEF WritePassword
  <2>3. readVersion' \in [Handlers -> 0..epoch']
    BY <1>6 DEF WritePassword
  <2> QED
    BY <1>6, <2>2, <2>3 DEF WritePassword
<1>7. ASSUME NEW h \in Writers, WriteFails(h) PROVE TypeOK'
  BY <1>7 DEF WriteFails
<1>8. CASE UNCHANGED vars
  BY <1>8 DEF vars
<1> QED
  BY <1>s, <1>1, <1>2, <1>3, <1>4, <1>5, <1>6, <1>7, <1>8 DEF Next

LEMMA InitTyped == Init => TypeOK
<1> SUFFICES ASSUME Init PROVE TypeOK
  OBVIOUS
<1>1. raced = FALSE
  BY DEF Init
<1>2. raced \in BOOLEAN
  BY <1>1
<1> QED
  BY <1>2, SessionsAssumption DEF Init, TypeOK, Handlers, Writers, Tokens, CodePurposes

(* The handlers and the row keep their types, and a version counter never
   overtakes the number of password writes. *)
THEOREM SessionsTyped == Spec => []TypeOK
BY InitTyped, TypeStep, PTL DEF Spec

-----------------------------------------------------------------------------
(* Sessions, as long as no write started from an overtaken copy.            *)

(* A login's copy is the row or of an older version; a token of the current
   version was issued after the last write, to someone who knew the current
   password. *)
LoginNotAhead ==
    \A h \in Logins : pc[h] = "read" =>
        /\ readVersion[h] <= version
        /\ readVersion[h] = version => readPassword[h] = password
TokensNotAhead ==
    \A t \in tokens :
        /\ t.ver <= version
        /\ t.ver = version => t.epoch = epoch /\ t.pw = password
SessionInv == TypeOK /\ (~raced => LoginNotAhead /\ TokensNotAhead)

LEMMA SessionStep == SessionInv /\ [Next]_vars => SessionInv'
<1> SUFFICES ASSUME SessionInv, [Next]_vars, ~raced'
             PROVE  LoginNotAhead' /\ TokensNotAhead'
  BY TypeStep DEF SessionInv
<1>0. TypeOK /\ TypeOK'
  BY TypeStep DEF SessionInv
<1>r. ~raced /\ LoginNotAhead /\ TokensNotAhead
  <2>1. raced \in BOOLEAN /\ (raced' = raced \/ \E h \in Writers : raced' = (raced \/ readVersion[h] # version))
    BY <1>0 DEF TypeOK, Next, vars, history, SendChangeCode, SendResetCode, CodeSent, CodeGone, LoginRead, LoginAnswer,
       ChangeAuth, ChangeVerify, ChangeRefused, ResetVerify, ResetRead, WritePassword, WriteFails
  <2>2. ~raced
    BY <2>1
  <2> QED
    BY <2>2 DEF SessionInv
<1>t. Logins \cap Writers = {} /\ Handlers = Logins \cup Writers
      /\ Changers \subseteq Writers /\ Resetters \subseteq Writers
  BY SessionsAssumption DEF Writers, Handlers
<1> USE DEF LoginNotAhead, TokensNotAhead, TypeOK, Goto, Read, row, copy, history
<1>1. CASE SendChangeCode \/ SendResetCode \/ \E p \in CodePurposes : CodeGone(p)
  BY <1>0, <1>r, <1>1 DEF SendChangeCode, SendResetCode, CodeSent, CodeGone
<1>2. ASSUME NEW h \in Logins, LoginRead(h) PROVE LoginNotAhead' /\ TokensNotAhead'
  BY <1>0, <1>r, <1>2, <1>t DEF LoginRead
<1>3. ASSUME NEW h \in Logins, LoginAnswer(h) PROVE LoginNotAhead' /\ TokensNotAhead'
  <2>1. PICK guess \in Passwords :
          tokens' = IF guess = readPassword[h]
                    THEN tokens \cup {[ver |-> readVersion[h], epoch |-> epoch, pw |-> guess]}
                    ELSE tokens
    BY <1>3 DEF LoginAnswer, Matches, Token
  <2>2. UNCHANGED <<password, version, readPassword, readVersion, epoch>> /\ pc[h] = "read"
    BY <1>3 DEF LoginAnswer
  <2>3. TokensNotAhead'
    <3> SUFFICES ASSUME NEW t \in tokens'
                 PROVE  /\ t.ver <= version
                        /\ t.ver = version => t.epoch = epoch /\ t.pw = password
      BY <2>2
    <3>1. CASE t \in tokens
      BY <1>r, <3>1
    <3>2. CASE t \notin tokens
      <4>1. guess = readPassword[h]
            /\ t = [ver |-> readVersion[h], epoch |-> epoch, pw |-> guess]
        BY <2>1, <3>2
      <4> QED
        BY <1>r, <4>1, <2>2
    <3> QED
      BY <3>1, <3>2
  <2> QED
    BY <1>0, <1>r, <1>3, <1>t, <2>2, <2>3 DEF LoginAnswer
<1>4. ASSUME NEW h \in Changers, ChangeAuth(h) \/ ChangeVerify(h) \/ ChangeRefused(h)
      PROVE  LoginNotAhead' /\ TokensNotAhead'
  BY <1>0, <1>r, <1>4, <1>t DEF ChangeAuth, ChangeVerify, ChangeRefused, ConsumeCode
<1>5. ASSUME NEW h \in Resetters, ResetVerify(h) \/ ResetRead(h)
      PROVE  LoginNotAhead' /\ TokensNotAhead'
  BY <1>0, <1>r, <1>5, <1>t DEF ResetVerify, ResetRead, ConsumeCode
<1>6. ASSUME NEW h \in Writers, WritePassword(h) PROVE LoginNotAhead' /\ TokensNotAhead'
  <2>0. raced' = (raced \/ readVersion[h] # version)
    BY <1>6 DEF WritePassword
  <2>1. readVersion[h] = version
    BY <2>0
  <2>v. version \in Nat
    BY <1>0
  <2>2. version' = version + 1 /\ UNCHANGED <<tokens, readPassword, readVersion>>
    BY <1>6, <2>1 DEF WritePassword
  <2>4. LoginNotAhead'
    <3> SUFFICES ASSUME NEW l \in Logins, pc'[l] = "read"
                 PROVE  readVersion[l] <= version' /\ readVersion[l] # version'
      BY <2>2
    <3>1. l # h /\ pc[l] = "read"
      BY <1>0, <1>6, <1>t DEF WritePassword
    <3>2. readVersion[l] <= version /\ readVersion[l] \in 0..epoch
      BY <1>0, <1>r, <3>1, <1>t
    <3> QED
      BY <3>2, <2>v, <2>2
  <2>5. TokensNotAhead'
    <3> SUFFICES ASSUME NEW t \in tokens PROVE t.ver <= version' /\ t.ver # version'
      BY <2>2
    <3>1. t.ver <= version /\ t.ver \in Nat
      BY <1>0, <1>r DEF Tokens
    <3> QED
      BY <3>1, <2>v, <2>2
  <2> QED
    BY <2>4, <2>5
<1>7. ASSUME NEW h \in Writers, WriteFails(h) PROVE LoginNotAhead' /\ TokensNotAhead'
  BY <1>0, <1>r, <1>7, <1>t DEF WriteFails
<1>8. CASE UNCHANGED vars
  BY <1>0, <1>r, <1>8 DEF vars
<1> QED
  BY <1>1, <1>2, <1>3, <1>4, <1>5, <1>6, <1>7, <1>8 DEF Next

LEMMA SessionInvInvariant == Spec => []SessionInv
<1>1. Init => SessionInv
  <2>1. Init => LoginNotAhead /\ TokensNotAhead
    BY DEF Init, LoginNotAhead, TokensNotAhead, Handlers
  <2> QED
    BY <2>1, InitTyped DEF SessionInv
<1>2. SessionInv /\ [Next]_vars => SessionInv'
  BY SessionStep
<1> QED
  BY <1>1, <1>2, PTL DEF Spec

(* As long as no write started from an overtaken copy, a password write ends
   every session issued before it (auth.py:104-107, README.md:31), however many
   logins, changes and resets overlap. *)
THEOREM WritesEndSessions == Spec => []SessionsEndUnlessRaced
<1>1. SessionInv => SessionsEndUnlessRaced
  BY DEF SessionInv, TokensNotAhead, SessionsEndUnlessRaced, OlderTokensRefused, Accepted
<1> QED
  BY <1>1, SessionInvInvariant, PTL

(* And the holder of a token the server accepts knew the password now in the
   row, even when its login straddled the write (user.py:149-162). *)
THEOREM TokensKnowPassword == Spec => []TokensKnowPasswordUnlessRaced
<1>1. SessionInv => TokensKnowPasswordUnlessRaced
  BY DEF SessionInv, TokensNotAhead, TokensKnowPasswordUnlessRaced, Accepted
<1> QED
  BY <1>1, SessionInvInvariant, PTL

-----------------------------------------------------------------------------
(* A code per write.                                                        *)

LEMMA InProgressFinite == IsFiniteSet(InProgress)
<1>1. InProgress \subseteq Changers \cup Resetters
  BY DEF InProgress
<1>2. IsFiniteSet(Changers \cup Resetters)
  BY FS_Union, SessionsAssumption
<1> QED
  BY <1>1, <1>2, FS_Subset

LEMMA OutstandingFinite == ASSUME TypeOK PROVE IsFiniteSet(outstanding)
<1>1. IsFiniteSet(CodePurposes)
  <2>1. IsFiniteSet({}) /\ IsFiniteSet({"reset"})
    BY FS_EmptySet, FS_Singleton
  <2>2. CodePurposes = {"reset"} \cup {"password_change"}
    BY DEF CodePurposes
  <2> QED
    BY <2>1, <2>2, FS_AddElement
<1> QED
  BY <1>1, FS_Subset DEF TypeOK

(* A finite set's size and that of a subset, of a set one larger, and of a set
   one smaller: the four ways a step moves the two counts. *)
LEMMA Sizes ==
    ASSUME NEW S, IsFiniteSet(S), NEW x
    PROVE  /\ Cardinality(S) \in Nat
           /\ IsFiniteSet(S \cup {x}) /\ Cardinality(S \cup {x}) <= Cardinality(S) + 1
           /\ x \in S => Cardinality(S \ {x}) = Cardinality(S) - 1
BY FS_CardinalityType, FS_AddElement, FS_RemoveElement

CodeInv == TypeOK /\ EachWriteHasItsCode

LEMMA CodeStep == CodeInv /\ [Next]_vars => CodeInv'
<1> SUFFICES ASSUME CodeInv, [Next]_vars PROVE CodeInv'
  OBVIOUS
<1>0. TypeOK /\ TypeOK'
  BY TypeStep DEF CodeInv
<1>f. IsFiniteSet(InProgress) /\ IsFiniteSet(outstanding)
  BY <1>0, InProgressFinite, OutstandingFinite
<1>d. Changers \cap Resetters = {} /\ Logins \cap Writers = {}
  BY SessionsAssumption DEF Writers
<1>n. /\ Cardinality(InProgress) \in Nat /\ Cardinality(outstanding) \in Nat
      /\ issued \in Nat /\ epoch \in Nat
      /\ epoch + Cardinality(InProgress) + Cardinality(outstanding) <= issued
  BY <1>0, <1>f, FS_CardinalityType, SessionsAssumption
     DEF CodeInv, EachWriteHasItsCode, TypeOK
<1> SUFFICES epoch' + Cardinality(InProgress') + Cardinality(outstanding') <= issued'
  BY <1>0 DEF CodeInv, EachWriteHasItsCode
<1> USE DEF InProgress, Goto, copy, row, history
<1>1. ASSUME NEW p \in CodePurposes, CodeSent(p) PROVE
        epoch' + Cardinality(InProgress') + Cardinality(outstanding') <= issued'
  <2>1. InProgress' = InProgress /\ epoch' = epoch /\ issued' = issued + 1
        /\ outstanding' = outstanding \cup {p}
    BY <1>1 DEF CodeSent
  <2>2. Cardinality(outstanding') \in Nat
        /\ Cardinality(outstanding') <= Cardinality(outstanding) + 1
    BY <2>1, <1>f, Sizes, FS_CardinalityType
  <2> HIDE DEF InProgress
  <2> QED
    BY <2>1, <2>2, <1>n
<1>2. ASSUME NEW p \in CodePurposes, CodeGone(p) PROVE
        epoch' + Cardinality(InProgress') + Cardinality(outstanding') <= issued'
  <2>1. InProgress' = InProgress /\ epoch' = epoch /\ issued' = issued
        /\ outstanding' = outstanding \ {p} /\ p \in outstanding
    BY <1>2 DEF CodeGone
  <2>2. Cardinality(outstanding') = Cardinality(outstanding) - 1
    BY <2>1, <1>f, Sizes
  <2> HIDE DEF InProgress
  <2> QED
    BY <2>1, <2>2, <1>n
<1>3. ASSUME NEW h \in Writers, NEW p, ConsumeCode(p), h \notin InProgress,
             InProgress' = InProgress \cup {h}, UNCHANGED <<epoch, issued>>
      PROVE  epoch' + Cardinality(InProgress') + Cardinality(outstanding') <= issued'
  <2>1. Cardinality(outstanding') = Cardinality(outstanding) - 1
    BY <1>3, <1>f, Sizes DEF ConsumeCode
  <2> HIDE DEF InProgress
  <2>2. Cardinality(InProgress') \in Nat
        /\ Cardinality(InProgress') <= Cardinality(InProgress) + 1
    BY <1>3, <1>f, Sizes, FS_CardinalityType
  <2> QED
    BY <1>3, <2>1, <2>2, <1>n
<1>4. ASSUME NEW h \in Writers, h \in InProgress, InProgress' = InProgress \ {h},
             epoch' <= epoch + 1, epoch' \in Nat, UNCHANGED <<outstanding, issued>>
      PROVE  epoch' + Cardinality(InProgress') + Cardinality(outstanding') <= issued'
  <2> HIDE DEF InProgress
  <2>1. Cardinality(InProgress') = Cardinality(InProgress) - 1
    BY <1>4, <1>f, Sizes
  <2> QED
    BY <1>4, <2>1, <1>n
<1>5. ASSUME InProgress' = InProgress, UNCHANGED <<epoch, outstanding, issued>>
      PROVE  epoch' + Cardinality(InProgress') + Cardinality(outstanding') <= issued'
  <2> HIDE DEF InProgress
  <2> QED
    BY <1>5, <1>n
<1>6. ASSUME NEW h \in Logins, LoginRead(h) \/ LoginAnswer(h)
      PROVE  InProgress' = InProgress /\ UNCHANGED <<epoch, outstanding, issued>>
  BY <1>6, <1>0, <1>d DEF LoginRead, LoginAnswer, TypeOK, Handlers, Writers
<1>7. ASSUME NEW h \in Changers, ChangeAuth(h) \/ ChangeRefused(h)
      PROVE  InProgress' = InProgress /\ UNCHANGED <<epoch, outstanding, issued>>
  BY <1>7, <1>0, <1>d DEF ChangeAuth, ChangeRefused, TypeOK, Handlers, Writers
<1>8. ASSUME NEW h \in Changers, ChangeVerify(h)
      PROVE  /\ ConsumeCode("password_change") /\ h \notin InProgress
             /\ InProgress' = InProgress \cup {h} /\ UNCHANGED <<epoch, issued>>
  BY <1>8, <1>0, <1>d DEF ChangeVerify, TypeOK, Handlers, Writers
<1>9. ASSUME NEW h \in Resetters, ResetVerify(h)
      PROVE  /\ ConsumeCode("reset") /\ h \notin InProgress
             /\ InProgress' = InProgress \cup {h} /\ UNCHANGED <<epoch, issued>>
  BY <1>9, <1>0, <1>d DEF ResetVerify, TypeOK, Handlers, Writers
<1>10. ASSUME NEW h \in Resetters, ResetRead(h)
       PROVE  InProgress' = InProgress /\ UNCHANGED <<epoch, outstanding, issued>>
  BY <1>10, <1>0, <1>d DEF ResetRead, TypeOK, Handlers, Writers
<1>11. ASSUME NEW h \in Writers, WritePassword(h)
       PROVE  /\ h \in InProgress /\ InProgress' = InProgress \ {h}
              /\ epoch' <= epoch + 1 /\ epoch' \in Nat /\ UNCHANGED <<outstanding, issued>>
  BY <1>11, <1>0, <1>d DEF WritePassword, TypeOK, Handlers, Writers
<1>12. ASSUME NEW h \in Writers, WriteFails(h)
       PROVE  \/ /\ h \in InProgress /\ InProgress' = InProgress \ {h}
                 /\ UNCHANGED <<epoch, outstanding, issued>>
              \/ InProgress' = InProgress /\ UNCHANGED <<epoch, outstanding, issued>>
  BY <1>12, <1>0, <1>d DEF WriteFails, TypeOK, Handlers, Writers
<1>13. CASE UNCHANGED vars
  <2>1. InProgress' = InProgress /\ UNCHANGED <<epoch, outstanding, issued>>
    BY <1>13 DEF vars
  <2> QED
    BY <2>1, <1>5
<1>14. epoch <= epoch + 1
  BY <1>n
<1> HIDE DEF InProgress
<1>15. ASSUME NEW h \in Writers, WritePassword(h) PROVE
        epoch' + Cardinality(InProgress') + Cardinality(outstanding') <= issued'
  BY <1>15, <1>11, <1>4
<1>16. ASSUME NEW h \in Writers, WriteFails(h) PROVE
        epoch' + Cardinality(InProgress') + Cardinality(outstanding') <= issued'
  BY <1>16, <1>12, <1>4, <1>5, <1>14, <1>n
<1>17. ASSUME NEW h \in Changers, ChangeVerify(h) PROVE
        epoch' + Cardinality(InProgress') + Cardinality(outstanding') <= issued'
  BY <1>17, <1>8, <1>3 DEF Writers
<1>18. ASSUME NEW h \in Resetters, ResetVerify(h) PROVE
        epoch' + Cardinality(InProgress') + Cardinality(outstanding') <= issued'
  BY <1>18, <1>9, <1>3 DEF Writers
<1>19. CASE SendChangeCode \/ SendResetCode
  BY <1>19, <1>1 DEF SendChangeCode, SendResetCode, CodePurposes
<1> QED
  BY <1>19, <1>2, <1>5, <1>6, <1>7, <1>10, <1>13, <1>15, <1>16, <1>17, <1>18 DEF Next

(* Every committed password write used up a code of its own, whatever the
   handlers do and however many there are (user.py:96-103, otp.py:142-144). *)
THEOREM WritesHaveCodes == Spec => []EachWriteHasItsCode
<1>1. Init => CodeInv
  <2> SUFFICES ASSUME Init PROVE CodeInv
    OBVIOUS
  <2>1. TypeOK
    BY InitTyped
  <2>2. InProgress = {} /\ outstanding = {} /\ epoch = 0 /\ issued = 0
    BY DEF Init, InProgress, Handlers, Writers
  <2> HIDE DEF InProgress
  <2>3. Cardinality({}) = 0
    BY FS_EmptySet
  <2> QED
    BY <2>1, <2>2, <2>3 DEF CodeInv, EachWriteHasItsCode
<1> QED
  BY <1>1, CodeStep, PTL DEF Spec, CodeInv

-----------------------------------------------------------------------------
(* Writers one at a time.                                                   *)

(* h has read the row and may still write it. *)
HoldsCopy(h) ==
    \/ h \in Changers /\ pc[h] \in {"read", "writing"}
    \/ h \in Resetters /\ pc[h] = "writing"

OneCopyAtATime == \A g, h \in Writers : HoldsCopy(g) /\ HoldsCopy(h) => g = h

CopiesCurrent == \A h \in Writers : HoldsCopy(h) => readVersion[h] = version

LEMMA CopiesStayCurrent ==
    TypeOK /\ OneCopyAtATime /\ CopiesCurrent /\ ~raced /\ [Next]_vars
        => CopiesCurrent' /\ ~raced'
<1> SUFFICES ASSUME TypeOK, OneCopyAtATime, CopiesCurrent, ~raced, [Next]_vars
             PROVE  CopiesCurrent' /\ ~raced'
  OBVIOUS
<1>0. /\ pc \in [Handlers -> {"idle", "read", "verified", "writing"}]
      /\ readVersion \in [Handlers -> 0..epoch]
      /\ raced \in BOOLEAN
  BY DEF TypeOK
<1>d. /\ Changers \cap Resetters = {} /\ Logins \cap Writers = {}
      /\ Logins \subseteq Handlers /\ Writers \subseteq Handlers
      /\ Writers = Changers \cup Resetters
  BY SessionsAssumption DEF Writers, Handlers
<1> USE DEF Goto, Read, row, copy, history
<1>1. ASSUME NEW h \in Writers, WritePassword(h) PROVE CopiesCurrent' /\ ~raced'
  <2>1. HoldsCopy(h) /\ pc' = [pc EXCEPT ![h] = "idle"]
    BY <1>1, <1>d DEF WritePassword, HoldsCopy
  <2>2. readVersion[h] = version
    BY <2>1 DEF CopiesCurrent
  <2>3. raced' = (raced \/ readVersion[h] # version)
    BY <1>1 DEF WritePassword
  <2>4. ~raced'
    BY <2>2, <2>3, Zenon
  <2>5. \A g \in Writers : ~HoldsCopy(g)'
    BY <1>0, <1>d, <2>1 DEF OneCopyAtATime, HoldsCopy
  <2> QED
    BY <2>4, <2>5 DEF CopiesCurrent
<1>2. ASSUME NEW h \in Changers, ChangeAuth(h) PROVE CopiesCurrent' /\ ~raced'
  BY <1>0, <1>d, <1>2 DEF ChangeAuth, CopiesCurrent, HoldsCopy
<1>3. ASSUME NEW h \in Changers, ChangeVerify(h) \/ ChangeRefused(h)
      PROVE  CopiesCurrent' /\ ~raced'
  BY <1>0, <1>d, <1>3 DEF ChangeVerify, ChangeRefused, CopiesCurrent, HoldsCopy
<1>4. ASSUME NEW h \in Resetters, ResetVerify(h) \/ ResetRead(h)
      PROVE  CopiesCurrent' /\ ~raced'
  BY <1>0, <1>d, <1>4 DEF ResetVerify, ResetRead, CopiesCurrent, HoldsCopy
<1>5. ASSUME NEW h \in Writers, WriteFails(h) PROVE CopiesCurrent' /\ ~raced'
  BY <1>0, <1>d, <1>5 DEF WriteFails, CopiesCurrent, HoldsCopy
<1>6. ASSUME NEW h \in Logins, LoginRead(h) \/ LoginAnswer(h)
      PROVE  CopiesCurrent' /\ ~raced'
  BY <1>0, <1>d, <1>6 DEF LoginRead, LoginAnswer, CopiesCurrent, HoldsCopy
<1>7. CASE UNCHANGED <<row, pc, copy, history>>
  BY <1>7 DEF CopiesCurrent, HoldsCopy
<1> QED
  BY <1>1, <1>2, <1>3, <1>4, <1>5, <1>6, <1>7
  DEF Next, vars, SendChangeCode, SendResetCode, CodeSent, CodeGone

(* README.md:31 is right about changes and resets that do not overlap: if no two
   of them are ever between their read and their write at once, every password
   write ends all older sessions, however logins, codes and failures interleave
   with it. *)
THEOREM WritersOneAtATimeEndSessions ==
    Spec /\ []OneCopyAtATime => []OlderTokensRefused
<1>1. Init => CopiesCurrent /\ ~raced
  BY DEF Init, CopiesCurrent, HoldsCopy, Handlers, Writers
<1>2. SessionsEndUnlessRaced /\ ~raced => OlderTokensRefused
  BY DEF SessionsEndUnlessRaced
<1> QED
  BY <1>1, <1>2, CopiesStayCurrent, SessionsTyped, WritesEndSessions, PTL DEF Spec
=============================================================================
