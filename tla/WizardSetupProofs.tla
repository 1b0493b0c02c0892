------------------------- MODULE WizardSetupProofs -------------------------
(***************************************************************************)
(* Proofs about WizardSetup, for any number of sessions, configurations,   *)
(* secrets, handshakes and resets, and for every set of faults: its types; *)
(* that the two copies of the secret agree; that the wizard implements     *)
(* SetupContract; that its completion page tells the truth unless the API  *)
(* forgets or adopts something behind its back; and that the API's secret  *)
(* stays on this host unless a progress file is lost.                      *)
(***************************************************************************)
EXTENDS WizardSetup, TLAPS

-----------------------------------------------------------------------------
(* The inductive invariant behind SecretsAgree *)

\* The session whose setup-session id the API would accept.
Holder(s) == mem[s].sid # None /\ mem[s].sid = apiSession

\* What the API has loaded, stored and handed out.
ApiInv ==
    /\ apiLoaded \in {None, apiSecret}
    /\ apiSession # None => apiLoaded = None /\ ~apiToken
    /\ ~apiSetup => apiSecret = None
    /\ inflight # {} => apiSetup \/ ~apiToken
    /\ apiSession <= handshakes

\* A state that knows an API address was stored after the fingerprint.
PinInv ==
    /\ env # None => pinned
    /\ \A s \in Sessions : mem[s].addr \/ progress[s].addr => pinned

\* Setup-session ids are unique, recorded with the address, and never on disk.
SidInv ==
    /\ \A s \in Sessions : /\ mem[s].sid <= handshakes
                           /\ mem[s].sid # None => mem[s].addr
                           /\ progress[s].sid = None
    /\ \A s, t \in Sessions : mem[s].sid # None /\ mem[s].sid = mem[t].sid => s = t

\* The holder has the only secret either side can have.
HolderInv ==
    \A s \in Sessions : Holder(s) => /\ apiSecret # None => mem[s].secret = apiSecret
                                     /\ env # None => mem[s].secret = env

\* During an Apply no one else can change what the API accepted.
JobInv ==
    job # Idle => /\ mem[job.s].addr
                  /\ apiSecret \in {None, mem[job.s].secret}
                  /\ apiSession \in {None, mem[job.s].sid}

\* The one request that may be carried out late brings no second secret.
LateInv ==
    /\ \A r, req \in inflight : r = req
    /\ \A req \in inflight :
         req.secret # None =>
           /\ apiSecret \in {None, req.secret}
           /\ env \in {None, req.secret}
           /\ \A s \in Sessions : Holder(s) => mem[s].secret = req.secret
           /\ job # Idle => mem[job.s].secret = req.secret

SInv == SecretsAgree /\ ApiInv /\ PinInv /\ SidInv /\ HolderInv /\ JobInv /\ LateInv

-----------------------------------------------------------------------------
(* Type correctness *)

LEMMA LengthOfWrites == Len(LocalWrites) = 7
  BY DEF LocalWrites

LEMMA NoneIsTyped == None \in Secrets /\ None \in ApiSids
  BY BoundAssumption DEF None, Secrets, ApiSids

\* Saving a well-typed state keeps the store and its files well-typed.
LEMMA SaveToTyped ==
  ASSUME NEW s \in Sessions, NEW st \in WizardState, TypeOK, SaveTo(s, st)
  PROVE  /\ mem' \in [Sessions -> WizardState]
         /\ progress' \in [Sessions -> WizardState]
         /\ latest' \in Sessions \cup {NoSession}
<1>1. Persisted(st) \in WizardState
  BY NoneIsTyped DEF Persisted, WizardState
<1> QED
  BY <1>1 DEF SaveTo, ToDisk, TypeOK

\* What the files fill in is of the session's types.
LEMMA FromFilesTyped ==
  ASSUME TypeOK, NEW st \in WizardState
  PROVE  FromFiles(st) \in WizardState
<1>1. conf["stack"] # NoFile => conf["stack"] \in Configs
  BY DEF TypeOK, ConfFiles
<1> QED
  BY <1>1 DEF FromFiles, TypeOK, WizardState

\* So does saving one and showing a page.
LEMMA ShowTyped ==
  ASSUME NEW s \in Sessions, NEW st \in WizardState, TypeOK, ToDisk(s, st), Show(s, st)
  PROVE  /\ mem' \in [Sessions -> WizardState]
         /\ progress' \in [Sessions -> WizardState]
         /\ latest' \in Sessions \cup {NoSession}
<1>1. Persisted(st) \in WizardState
  BY NoneIsTyped DEF Persisted, WizardState
<1>2. FromFiles(st) \in WizardState
  BY FromFilesTyped
<1> QED
  BY <1>1, <1>2 DEF ToDisk, Show, TypeOK

\* The fields an Apply carries are typed as the API's are.
LEMMA PayloadTyped ==
  ASSUME NEW st \in WizardState PROVE Payload(st) \in Request
  BY DEF Payload, Request, WizardState

LEMMA AdoptTyped ==
  ASSUME TypeOK, NEW req \in Request, Adopt(req)
  PROVE  /\ apiCfg' \in Configs /\ apiSetup' \in BOOLEAN /\ apiSecret' \in Secrets
         /\ apiToken' \in BOOLEAN /\ apiSession' \in ApiSids /\ apiLoaded' \in Secrets
         /\ handshakes' \in ApiSids /\ resets' \in 0 .. MaxResets
  BY DEF Adopt, TypeOK, Request

\* A complete or an interrupted write leaves well-typed files.
LEMMA FilesTyped ==
  ASSUME TypeOK, NEW f, NEW st \in WizardState, WriteFile(f, st) \/ TearFile(f)
  PROVE  /\ conf' \in [ConfFiles -> Configs \cup {NoFile}]
         /\ env' \in Secrets
         /\ pages' \in {"absent", "torn", "default", "custom"}
  BY NoneIsTyped DEF WriteFile, TearFile, TypeOK, WizardState

\* An Apply in progress belongs to a session.
LEMMA JobTyped ==
  ASSUME TypeOK, job # Idle
  PROVE  job.s \in Sessions /\ mem[job.s] \in WizardState /\ job.at \in 1 .. Len(LocalWrites)
         /\ job.pc \in {"preflight", "write", "save", "restart"}
  BY DEF TypeOK, Jobs

LEMMA InitTyped == Init => TypeOK
<1> SUFFICES ASSUME Init PROVE TypeOK
  OBVIOUS
<1>1. /\ mem \in [Sessions -> WizardState]
      /\ progress \in [Sessions -> WizardState]
  BY NoneIsTyped, ConfigAssumption DEF Init, WizardState, Fresh
<1>2. 0 \in Secrets /\ 0 \in ApiSids /\ 0 \in 0 .. MaxResets
  BY BoundAssumption DEF Secrets, ApiSids
<1>3. conf \in [ConfFiles -> Configs \cup {NoFile}]
  BY DEF Init
<1>4. job \in Jobs
  BY DEF Init, Jobs
<1> QED
  BY <1>1, <1>2, <1>3, <1>4, ConfigAssumption DEF Init, TypeOK, None

LEMMA OperatorTyped == ASSUME TypeOK, Operator PROVE TypeOK'
<1>1. CASE Step1Pin \/ CustomisePages
  BY <1>1 DEF Step1Pin, CustomisePages, TypeOK, stateVars, apiVars
<1>2. CASE (\E c \in Configs : AdminEditApi(c))
          \/ (\E f \in ConfFiles, c \in Configs : AdminEditLocal(f, c))
  BY <1>2, NoneIsTyped DEF AdminEditApi, AdminEditLocal, ApiStarts, TypeOK, stateVars,
     fileVars, apiVars
<1>3. ASSUME NEW s \in Sessions, WizardIndex(s) PROVE TypeOK'
  <2>1. /\ mem[s] \in WizardState
        /\ progress[latest] \in WizardState \/ latest = NoSession
    BY DEF TypeOK
  <2>2. \E st \in WizardState : SaveTo(s, st)
    <3>1. CASE latest # NoSession
      <4>1. MergePrior(mem[s], progress[latest]) \in WizardState
        BY <2>1, <3>1 DEF MergePrior, WizardState
      <4> QED  BY <1>3, <3>1, <4>1 DEF WizardIndex
    <3>2. CASE latest = NoSession
      <4>1. [mem[s] EXCEPT !.addr = TRUE] \in WizardState
        BY DEF TypeOK, WizardState
      <4> QED  BY <1>3, <3>2, <4>1 DEF WizardIndex
    <3> QED  BY <3>1, <3>2
  <2> QED
    BY <1>3, <2>2, SaveToTyped DEF WizardIndex, TypeOK, fileVars, apiVars
<1>4. ASSUME NEW s \in Sessions, Step1FirstRun(s) PROVE TypeOK'
  <2>1. handshakes + 1 \in ApiSids
    BY <1>4, BoundAssumption DEF Step1FirstRun, IssueSession, TypeOK, ApiSids
  <2>2. [mem[s] EXCEPT !.addr = TRUE, !.sid = handshakes + 1] \in WizardState
    BY <2>1 DEF TypeOK, WizardState
  <2>3. /\ mem' \in [Sessions -> WizardState] /\ progress' \in [Sessions -> WizardState]
        /\ latest' \in Sessions \cup {NoSession}
    BY <1>4, <2>2, SaveToTyped DEF Step1FirstRun, TypeOK
  <2> QED
    BY <1>4, <2>1, <2>3 DEF Step1FirstRun, IssueSession, TypeOK
<1>5. ASSUME NEW s \in Sessions, Step1Rerun(s) PROVE TypeOK'
  <2>1. MergeCurrent(mem[s]) \subseteq Configs
    BY DEF MergeCurrent, TypeOK, WizardState
  <2>2. \A cfg \in Configs :
          [addr |-> TRUE, sid |-> None, secret |-> env, cfg |-> cfg] \in WizardState
    BY NoneIsTyped DEF TypeOK, WizardState
  <2>3. \E st \in WizardState : SaveTo(s, st)
    BY <1>5, <2>1, <2>2 DEF Step1Rerun
  <2> QED
    BY <1>5, <2>3, SaveToTyped DEF Step1Rerun, TypeOK, fileVars, apiVars
<1>6. ASSUME NEW s \in Sessions, NEW c \in Configs, EditStep(s, c) PROVE TypeOK'
  <2>1. [mem[s] EXCEPT !.cfg = c] \in WizardState
    BY DEF TypeOK, WizardState
  <2>2. /\ mem' \in [Sessions -> WizardState] /\ progress' \in [Sessions -> WizardState]
        /\ latest' \in Sessions \cup {NoSession}
    BY <1>6, <2>1, ShowTyped DEF EditStep, TypeOK
  <2> QED
    BY <1>6, <2>2 DEF EditStep, TypeOK, fileVars, apiVars
<1>7. ASSUME NEW s \in Sessions, NEW c \in Configs, NEW remote \in BOOLEAN,
             Step2Database(s, c, remote)
      PROVE TypeOK'
  <2> DEFINE mint == remote /\ mem[s].secret = None
             k == IF mint THEN minted + 1 ELSE mem[s].secret
  <2>1. minted' \in Secrets /\ k \in Secrets
    BY <1>7, BoundAssumption DEF Step2Database, TypeOK, Secrets, WizardState
  <2>2. [mem[s] EXCEPT !.cfg = c, !.secret = k] \in WizardState
    BY <2>1 DEF TypeOK, WizardState
  <2>3. /\ ToDisk(s, [mem[s] EXCEPT !.cfg = c, !.secret = k])
        /\ Show(s, [mem[s] EXCEPT !.cfg = c, !.secret = k])
    BY <1>7 DEF Step2Database
  <2> HIDE DEF k
  <2> QED
    BY <1>7, <2>1, <2>2, <2>3, ShowTyped DEF Step2Database, TypeOK, fileVars, apiVars
<1>8. ASSUME NEW s \in Sessions,
             \/ ApplyAccepted(s) \/ ApplyReplyLost(s) \/ ApplyTimesOut(s)
             \/ ApplyRefused(s) \/ ApplyGone(s)
      PROVE TypeOK'
  <2>1. Payload(mem[s]) \in Request
    BY PayloadTyped DEF TypeOK
  <2>2. page' \in [Sessions -> {"review", "gone", "localfail", "complete"}]
    BY <1>8 DEF ApplyAccepted, ApplyReplyLost, ApplyTimesOut, ApplyRefused, ApplyGone,
                ShowPage, TypeOK
  <2>3. CASE ApplyAccepted(s)
    <3>1. job' \in Jobs
      BY <2>3, LengthOfWrites DEF ApplyAccepted, Jobs
    <3> QED
      BY <2>1, <2>2, <2>3, <3>1, AdoptTyped DEF ApplyAccepted, TypeOK, stateVars, fileVars
  <2>4. CASE ApplyReplyLost(s)
    BY <2>1, <2>2, <2>4, AdoptTyped DEF ApplyReplyLost, TypeOK, stateVars, fileVars
  <2>5. CASE ApplyTimesOut(s)
    BY <2>1, <2>2, <2>5 DEF ApplyTimesOut, TypeOK, stateVars, fileVars
  <2>6. CASE ApplyRefused(s) \/ ApplyGone(s)
    BY <2>2, <2>6 DEF ApplyRefused, ApplyGone, TypeOK, stateVars, fileVars, apiVars
  <2> QED
    BY <1>8, <2>3, <2>4, <2>5, <2>6
<1>9. ASSUME NEW s \in Sessions, OpenPage(s) PROVE TypeOK'
  <2>1. mem[s] \in WizardState /\ FromFiles(mem[s]) \in WizardState
    BY FromFilesTyped DEF TypeOK
  <2>2. mem' \in [Sessions -> WizardState]
    BY <1>9, <2>1 DEF OpenPage, Show, TypeOK
  <2> QED
    BY <1>9, <2>2 DEF OpenPage, TypeOK, fileVars, apiVars
<1> QED
  BY <1>1, <1>2, <1>3, <1>4, <1>5, <1>6, <1>7, <1>8, <1>9 DEF Operator

LEMMA ApplyStepsTyped == ASSUME TypeOK, ApplySteps PROVE TypeOK'
<1>1. Idle \in Jobs
  BY DEF Jobs
<1>2. ASSUME TypeOK, job # Idle
      PROVE  /\ \A pc \in {"preflight", "write", "save", "restart"} :
                  [job EXCEPT !.pc = pc] \in Jobs
             /\ job.at < Len(LocalWrites) => [job EXCEPT !.at = @ + 1] \in Jobs
             /\ \A p \in {"localfail", "complete"} : ShowPage(job.s, p) =>
                  page' \in [Sessions -> {"review", "gone", "localfail", "complete"}]
  <2>1. job \in [pc : {"preflight", "write", "save", "restart"}, s : Sessions,
                 at : 1 .. Len(LocalWrites)]
    BY <1>2 DEF TypeOK, Jobs
  <2>2. [job EXCEPT !.at = @ + 1] = [pc |-> job.pc, s |-> job.s, at |-> job.at + 1]
    BY <2>1
  <2>3. job.at < Len(LocalWrites) => job.at + 1 \in 1 .. Len(LocalWrites)
    BY <2>1, LengthOfWrites
  <2>4. \A p \in {"localfail", "complete"} : ShowPage(job.s, p) =>
          page' \in [Sessions -> {"review", "gone", "localfail", "complete"}]
    BY <2>1 DEF ShowPage, TypeOK
  <2> QED  BY <2>1, <2>2, <2>3, <2>4 DEF Jobs
<1>3. job.pc # "idle" => job # Idle
  BY DEF Idle
<1>4. CASE Preflight
  BY <1>1, <1>2, <1>3, <1>4 DEF Preflight, TypeOK, stateVars, fileVars, apiVars
<1>5. CASE WriteStep
  <2>1. job # Idle
    BY <1>3, <1>5 DEF WriteStep
  <2>2. /\ conf' \in [ConfFiles -> Configs \cup {NoFile}]
        /\ env' \in Secrets
        /\ pages' \in {"absent", "torn", "default", "custom"}
    BY <1>5, <2>1, JobTyped, FilesTyped DEF WriteStep, TypeOK
  <2>3. job' \in Jobs /\ page' \in [Sessions -> {"review", "gone", "localfail", "complete"}]
    BY <1>1, <1>2, <1>5, <2>1 DEF WriteStep, NextWrite, TypeOK
  <2> QED
    BY <1>5, <2>2, <2>3 DEF WriteStep, TypeOK, stateVars, apiVars
<1>6. CASE SaveFinal
  BY <1>2, <1>3, <1>6, JobTyped, SaveToTyped DEF SaveFinal, TypeOK, fileVars, apiVars
<1>7. CASE RestartApi
  BY <1>1, <1>2, <1>3, <1>7, NoneIsTyped
  DEF RestartApi, ApiStarts, TypeOK, stateVars, fileVars
<1> QED
  BY <1>4, <1>5, <1>6, <1>7 DEF ApplySteps

LEMMA EnvironmentTyped == ASSUME TypeOK, Environment PROVE TypeOK'
<1>1. CASE Restart
  <2>1. Fresh \in WizardState
    BY NoneIsTyped, ConfigAssumption DEF Fresh, WizardState
  <2>2. /\ progress' \in [Sessions -> WizardState] /\ mem' \in [Sessions -> WizardState]
        /\ latest' \in Sessions \cup {NoSession}
    BY <1>1, <2>1 DEF Restart, TypeOK
  <2>3. ASSUME NEW f, TearFile(f)
        PROVE  /\ conf' \in [ConfFiles -> Configs \cup {NoFile}]
               /\ env' \in Secrets
               /\ pages' \in {"absent", "torn", "default", "custom"}
    BY <2>1, <2>3, FilesTyped
  <2>4. /\ conf' \in [ConfFiles -> Configs \cup {NoFile}]
        /\ env' \in Secrets
        /\ pages' \in {"absent", "torn", "default", "custom"}
    BY <1>1, <2>3 DEF Restart, TypeOK
  <2> QED
    BY <1>1, <2>2, <2>4 DEF Restart, TypeOK, Jobs, apiVars
<1>2. CASE ApiRestart
  BY <1>2, NoneIsTyped DEF ApiRestart, ApiStarts, TypeOK, stateVars, fileVars
<1>3. CASE ApiReset
  <2>1. resets' \in 0 .. MaxResets
    BY <1>3, BoundAssumption DEF ApiReset, TypeOK
  <2> QED
    BY <1>3, <2>1, NoneIsTyped, ConfigAssumption
    DEF ApiReset, ApiStarts, TypeOK, stateVars, fileVars
<1>4. CASE LateLand
  BY <1>4, AdoptTyped DEF LateLand, TypeOK, stateVars, fileVars
<1> QED
  BY <1>1, <1>2, <1>3, <1>4 DEF Environment

LEMMA StutterTyped == ASSUME TypeOK, UNCHANGED vars PROVE TypeOK'
  BY DEF TypeOK, vars, stateVars, fileVars, apiVars

\* Every variable keeps its type, for all values of the constants.
THEOREM TypeCorrect == Spec => []TypeOK
<1>1. TypeOK /\ [Next]_vars => TypeOK'
  BY OperatorTyped, ApplyStepsTyped, EnvironmentTyped, StutterTyped DEF Next
<1> QED
  BY InitTyped, <1>1, PTL DEF Spec

-----------------------------------------------------------------------------
(* Agreement of the secrets *)

\* What a new state st must satisfy to take the place of session s's.
Harmless(s, st) ==
    /\ st.addr => pinned
    /\ st.sid \in {None, mem[s].sid}
    /\ st.sid # None => st.addr
    /\ st.sid # None /\ st.sid = apiSession =>
         /\ apiSecret # None => st.secret = apiSecret
         /\ env # None => st.secret = env
         /\ \A req \in inflight : req.secret # None => st.secret = req.secret

LEMMA StoreKeeps ==
  ASSUME TypeOK, SInv, job = Idle, NEW s \in Sessions,
         NEW st \in WizardState, NEW n \in WizardState,
         Harmless(s, st), Harmless(s, n),
         mem' = [mem EXCEPT ![s] = n],
         progress' \in {progress, [progress EXCEPT ![s] = Persisted(st)]},
         UNCHANGED <<fileVars, job, apiVars>>
  PROVE  SInv'
<1>1. SecretsAgree' /\ ApiInv' /\ JobInv'
  BY DEF SInv, SecretsAgree, ApiInv, JobInv, fileVars, apiVars
<1>2. PinInv'
  BY DEF SInv, PinInv, Harmless, fileVars, Persisted, TypeOK, WizardState
<1>3. SidInv'
  <2>1. \A t \in Sessions : mem'[t].sid \in {None, mem[t].sid}
    BY DEF Harmless, TypeOK
  <2>2. \A t \in Sessions : progress'[t].sid = None
    BY DEF SInv, SidInv, Persisted, TypeOK, WizardState
  <2>3. \A t \in Sessions : mem'[t].sid # None => mem'[t].addr
    BY DEF SInv, SidInv, Harmless, TypeOK
  <2>4. None <= handshakes
    BY BoundAssumption DEF None, TypeOK, ApiSids
  <2> QED
    BY <2>1, <2>2, <2>3, <2>4 DEF SInv, SidInv, apiVars
<1>4. HolderInv' /\ LateInv'
  BY DEF SInv, HolderInv, LateInv, Holder, Harmless, TypeOK, fileVars, apiVars
<1> QED
  BY <1>1, <1>2, <1>3, <1>4 DEF SInv

\* Saving a harmless state is such a step.
LEMMA SaveToKeeps ==
  ASSUME TypeOK, SInv, job = Idle, NEW s \in Sessions, NEW st \in WizardState,
         Harmless(s, st), SaveTo(s, st), UNCHANGED <<fileVars, job, apiVars>>
  PROVE  SInv'
  BY StoreKeeps DEF SaveTo, ToDisk

\* The files have nothing to fill into the holder's state: they have its secret.
LEMMA FilledHarmless ==
  ASSUME TypeOK, NEW s \in Sessions, NEW st \in WizardState, Harmless(s, st)
  PROVE  FromFiles(st) \in WizardState /\ Harmless(s, FromFiles(st))
<1>1. FromFiles(st) \in WizardState
  BY FromFilesTyped
<1>2. /\ FromFiles(st).addr = st.addr /\ FromFiles(st).sid = st.sid
      /\ FromFiles(st).secret = IF st.secret = None THEN env ELSE st.secret
  BY DEF FromFiles, WizardState
<1> QED
  BY <1>1, <1>2 DEF Harmless

\* Saving a harmless state and showing a page is one, too.
LEMMA ShowKeeps ==
  ASSUME TypeOK, SInv, job = Idle, NEW s \in Sessions, NEW st \in WizardState,
         Harmless(s, st), ToDisk(s, st), Show(s, st), UNCHANGED <<fileVars, job, apiVars>>
  PROVE  SInv'
<1>1. PICK n \in {st, FromFiles(st)} : mem' = [mem EXCEPT ![s] = n]
  BY DEF Show
<1>2. n \in WizardState /\ Harmless(s, n)
  BY FilledHarmless
<1> QED
  BY <1>1, <1>2, StoreKeeps DEF ToDisk

\* A wizard page that stores a form keeps the invariant.
LEMMA FormKeeps ==
  ASSUME TypeOK, SInv, NEW s \in Sessions,
         \/ WizardIndex(s) \/ OpenPage(s) \/ Step1Rerun(s)
         \/ \E c \in Configs : EditStep(s, c)
         \/ \E c \in Configs, remote \in BOOLEAN : Step2Database(s, c, remote)
  PROVE  SInv'
<1>1. CASE WizardIndex(s)
  <2>1. mem[s].sid = None
    BY <1>1 DEF WizardIndex, SInv, SidInv
  <2>2. CASE latest # NoSession
    <3>1. progress[latest] \in WizardState /\ mem[s] \in WizardState
          /\ (progress[latest].addr => pinned)
      BY <2>2 DEF TypeOK, SInv, PinInv
    <3>2. MergePrior(mem[s], progress[latest]) \in WizardState
      BY <3>1 DEF MergePrior, WizardState
    <3>3. Harmless(s, MergePrior(mem[s], progress[latest]))
      BY <2>1, <3>1 DEF MergePrior, Harmless, WizardState
    <3> QED
      BY <1>1, <2>2, <3>2, <3>3, SaveToKeeps DEF WizardIndex
  <2>3. CASE latest = NoSession
    <3>1. [mem[s] EXCEPT !.addr = TRUE] \in WizardState
      BY DEF TypeOK, WizardState
    <3>2. Harmless(s, [mem[s] EXCEPT !.addr = TRUE])
      BY <1>1, <2>1, <2>3 DEF WizardIndex, Harmless, TypeOK, WizardState
    <3> QED
      BY <1>1, <2>3, <3>1, <3>2, SaveToKeeps DEF WizardIndex
  <2> QED  BY <2>2, <2>3
<1>2. CASE Step1Rerun(s)
  <2>1. PICK cfg \in Configs :
          SaveTo(s, [addr |-> TRUE, sid |-> None, secret |-> env, cfg |-> cfg])
    BY <1>2 DEF Step1Rerun, MergeCurrent, TypeOK, WizardState
  <2> DEFINE st == [addr |-> TRUE, sid |-> None, secret |-> env, cfg |-> cfg]
  <2>2. st \in WizardState
    BY NoneIsTyped DEF TypeOK, WizardState
  <2>3. Harmless(s, st)
    BY <1>2 DEF Step1Rerun, RerunMode, Harmless
  <2> HIDE DEF st
  <2>4. SaveTo(s, st)
    BY <2>1 DEF st
  <2> QED
    BY <1>2, <2>2, <2>3, <2>4, SaveToKeeps DEF Step1Rerun
<1>3. ASSUME NEW c \in Configs, EditStep(s, c) PROVE SInv'
  <2> DEFINE st == [mem[s] EXCEPT !.cfg = c]
  <2>1. st \in WizardState
    BY DEF TypeOK, WizardState
  <2>2. Harmless(s, st)
    BY DEF Harmless, SInv, PinInv, SidInv, HolderInv, LateInv, Holder, TypeOK, WizardState
  <2>3. /\ UNCHANGED <<fileVars, job, apiVars>> /\ job = Idle
        /\ \/ ToDisk(s, st) /\ Show(s, st)
           \/ mem' = [mem EXCEPT ![s] = st] /\ progress' = progress
    BY <1>3 DEF EditStep, TypeOK
  <2> HIDE DEF st
  <2> QED
    BY <2>1, <2>2, <2>3, StoreKeeps, ShowKeeps
<1>4. ASSUME NEW c \in Configs, NEW remote \in BOOLEAN, Step2Database(s, c, remote)
      PROVE SInv'
  <2> DEFINE mint == remote /\ mem[s].secret = None
             k == IF mint THEN minted + 1 ELSE mem[s].secret
             st == [mem[s] EXCEPT !.cfg = c, !.secret = k]
  <2>1. k \in Secrets
    <3>1. mint => minted < MaxSecrets
      BY <1>4 DEF Step2Database
    <3>2. minted \in 0 .. MaxSecrets /\ mem[s].secret \in 0 .. MaxSecrets
      BY DEF TypeOK, Secrets, WizardState
    <3> HIDE DEF mint
    <3> QED
      BY <3>1, <3>2, BoundAssumption DEF Secrets
  <2>2. mem[s].secret # None => k = mem[s].secret
    OBVIOUS
  <2> HIDE DEF k
  <2>3. st \in WizardState
    BY <2>1 DEF TypeOK, WizardState
  <2>4. st.addr = mem[s].addr /\ st.sid = mem[s].sid /\ st.secret = k
    BY DEF TypeOK, WizardState
  <2>5. Harmless(s, st)
    BY <2>2, <2>4 DEF Harmless, SInv, PinInv, SidInv, HolderInv, LateInv, Holder
  <2>6. ToDisk(s, st) /\ Show(s, st)
    BY <1>4 DEF Step2Database, k
  <2> HIDE DEF st
  <2> QED
    BY <1>4, <2>3, <2>5, <2>6, ShowKeeps DEF Step2Database
<1>5. CASE OpenPage(s)
  <2>1. mem[s] \in WizardState
    BY DEF TypeOK
  <2>2. Harmless(s, mem[s])
    BY DEF Harmless, SInv, PinInv, SidInv, HolderInv, LateInv, Holder
  <2>3. PICK n \in {mem[s], FromFiles(mem[s])} : mem' = [mem EXCEPT ![s] = n]
    BY <1>5 DEF OpenPage, Show
  <2>4. n \in WizardState /\ Harmless(s, n)
    BY <2>1, <2>2, FilledHarmless
  <2> QED
    BY <1>5, <2>1, <2>2, <2>3, <2>4, StoreKeeps DEF OpenPage
<1> QED
  BY <1>1, <1>2, <1>3, <1>4, <1>5

\* The handshake hands the API to a session when neither side has a secret.
LEMMA HandshakeKeeps ==
  ASSUME TypeOK, SInv, NEW s \in Sessions, Step1FirstRun(s)
  PROVE  SInv'
<1>1. env = None /\ apiSecret = None /\ inflight = {} /\ job = Idle
  BY DEF Step1FirstRun, IssueSession, RerunMode, SInv, PinInv, ApiInv
<1>2. handshakes \in Nat /\ handshakes' = handshakes + 1 /\ apiSession' = handshakes + 1
  BY BoundAssumption DEF Step1FirstRun, IssueSession, TypeOK, ApiSids
<1>3. SecretsAgree' /\ ApiInv' /\ JobInv' /\ LateInv'
  BY <1>1, <1>2 DEF Step1FirstRun, IssueSession, SInv, SecretsAgree, ApiInv, JobInv, LateInv
<1>4. \A t \in Sessions :
        /\ mem'[t].sid \in {mem[t].sid, handshakes + 1}
        /\ mem'[t].sid = handshakes + 1 => t = s /\ mem'[t].addr
        /\ mem'[t].sid # handshakes + 1 => mem'[t] = mem[t]
        /\ progress'[t].sid = None
  <2> DEFINE st == [mem[s] EXCEPT !.addr = TRUE, !.sid = handshakes + 1]
  <2>1. st.addr /\ st.sid = handshakes + 1 /\ Persisted(st).sid = None
    BY DEF Persisted, TypeOK, WizardState
  <2>2. \A t \in Sessions : mem[t].sid # handshakes + 1 /\ progress[t].sid = None
    BY <1>2 DEF SInv, SidInv, TypeOK, WizardState, ApiSids
  <2>3. SaveTo(s, st) \/ UNCHANGED <<mem, progress>>
    BY DEF Step1FirstRun
  <2> HIDE DEF st
  <2> QED
    BY <2>1, <2>2, <2>3 DEF SaveTo, ToDisk, TypeOK
<1>5. PinInv' /\ HolderInv'
  BY <1>1 DEF Step1FirstRun, IssueSession, SaveTo, ToDisk, PinInv, HolderInv
<1>6. SidInv'
  BY <1>2, <1>4 DEF SInv, SidInv, TypeOK, WizardState, ApiSids
<1> QED
  BY <1>3, <1>5, <1>6 DEF SInv

\* A session the API answers has the only secret either side can have.
LEMMA AuthorizedSecret ==
  ASSUME TypeOK, SInv, NEW s \in Sessions, Authorized(mem[s])
  PROVE  /\ mem[s].addr
         /\ apiSecret \in {None, mem[s].secret}
         /\ env \in {None, mem[s].secret}
         /\ apiSession \in {None, mem[s].sid}
         /\ \A t \in Sessions : Holder(t) => t = s
         /\ \A req \in inflight : req.secret # None => mem[s].secret = req.secret
         /\ apiSetup \/ ~apiToken
<1>1. CASE mem[s].sid # None /\ mem[s].sid = apiSession
  BY <1>1 DEF Authorized, SInv, ApiInv, HolderInv, LateInv, SidInv, Holder
<1>2. CASE mem[s].sid = None /\ mem[s].secret # None /\ mem[s].secret = apiLoaded
  BY <1>2 DEF Authorized, SInv, SecretsAgree, ApiInv, LateInv, Holder
<1> QED
  BY <1>1, <1>2 DEF Authorized

\* The API adopting such a session's payload, with the Apply going on or not.
LEMMA AdoptKeeps ==
  ASSUME TypeOK, SInv, NEW s \in Sessions, job = Idle, Authorized(mem[s]),
         Adopt(Payload(mem[s])),
         \/ job' = job
         \/ job' = [pc |-> "preflight", s |-> s, at |-> 1],
         UNCHANGED <<stateVars, fileVars, inflight>>
  PROVE  SInv'
<1>1. /\ apiSecret' \in {None, mem[s].secret}
      /\ apiSecret' = None => apiSecret = None /\ mem[s].secret = None
      /\ apiSetup' /\ apiSession' = apiSession /\ apiToken' = apiToken
      /\ apiLoaded' = apiLoaded /\ handshakes' = handshakes
  BY AuthorizedSecret DEF Adopt, Payload
<1>2. SecretsAgree' /\ PinInv' /\ SidInv'
  BY <1>1, AuthorizedSecret DEF SInv, SecretsAgree, PinInv, SidInv, stateVars, fileVars
<1>3. ApiInv'
  <2>1. apiLoaded # None => apiLoaded = apiSecret'
    BY <1>1, AuthorizedSecret DEF SInv, ApiInv
  <2> QED
    BY <1>1, <2>1 DEF SInv, ApiInv
<1>4. HolderInv'
  BY <1>1, AuthorizedSecret DEF SInv, HolderInv, Holder, stateVars, fileVars
<1>5. JobInv' /\ LateInv'
  <2>1. job' # Idle => job'.s = s
    OBVIOUS
  <2> QED
    BY <1>1, <2>1, AuthorizedSecret DEF SInv, JobInv, LateInv, Holder, stateVars, fileVars
<1> QED
  BY <1>2, <1>3, <1>4, <1>5 DEF SInv

LEMMA ApplyKeeps ==
  ASSUME TypeOK, SInv, NEW s \in Sessions,
         \/ ApplyAccepted(s) \/ ApplyReplyLost(s) \/ ApplyTimesOut(s)
         \/ ApplyRefused(s) \/ ApplyGone(s)
  PROVE  SInv'
<1>1. CASE ApplyAccepted(s)
  BY <1>1, AdoptKeeps DEF ApplyAccepted
<1>2. CASE ApplyReplyLost(s)
  BY <1>2, AdoptKeeps DEF ApplyReplyLost
<1>3. CASE ApplyTimesOut(s)
  <2>1. inflight' = {Payload(mem[s])} /\ Payload(mem[s]).secret = mem[s].secret
    BY <1>3 DEF ApplyTimesOut, Payload
  <2>2. LateInv'
    BY <1>3, <2>1, AuthorizedSecret
    DEF ApplyTimesOut, SInv, LateInv, Holder, stateVars, fileVars
  <2>3. SecretsAgree' /\ ApiInv' /\ PinInv' /\ SidInv' /\ HolderInv' /\ JobInv'
    BY <1>3, AuthorizedSecret DEF ApplyTimesOut, SInv, SecretsAgree, ApiInv, PinInv, SidInv,
       HolderInv, JobInv, Holder, stateVars, fileVars
  <2> QED  BY <2>2, <2>3 DEF SInv
<1>4. CASE ApplyRefused(s) \/ ApplyGone(s)
  BY <1>4 DEF ApplyRefused, ApplyGone, SInv, SecretsAgree, ApiInv, PinInv, SidInv,
     HolderInv, JobInv, LateInv, Holder, stateVars, fileVars, apiVars
<1> QED
  BY <1>1, <1>2, <1>3, <1>4

LEMMA OperatorKeeps == ASSUME TypeOK, SInv, Operator PROVE SInv'
<1>1. CASE Step1Pin \/ CustomisePages
  BY <1>1 DEF Step1Pin, CustomisePages, SInv, SecretsAgree, ApiInv, PinInv, SidInv,
     HolderInv, JobInv, LateInv, Holder, stateVars, apiVars
<1>2. CASE (\E c \in Configs : AdminEditApi(c))
          \/ (\E f \in ConfFiles, c \in Configs : AdminEditLocal(f, c))
  <2>1. 0 <= handshakes
    BY BoundAssumption DEF TypeOK, ApiSids
  <2>2. /\ pinned => pinned'
        /\ UNCHANGED <<mem, progress, env, job, apiSetup, apiSecret, handshakes>>
        /\ \/ UNCHANGED <<apiLoaded, apiSession, apiToken, inflight>>
           \/ ApiStarts(apiSetup, apiSecret)
    <3>1. CASE \E c \in Configs : AdminEditApi(c)
      BY <3>1 DEF AdminEditApi, ApiStarts, stateVars, fileVars
    <3>2. CASE \E f \in ConfFiles, c \in Configs : AdminEditLocal(f, c)
      BY <3>2 DEF AdminEditLocal, stateVars, apiVars
    <3> QED  BY <1>2, <3>1, <3>2
  <2>3. SecretsAgree' /\ PinInv' /\ SidInv'
    BY <2>2 DEF SInv, SecretsAgree, PinInv, SidInv
  <2>4. CASE UNCHANGED <<apiLoaded, apiSession, apiToken, inflight>>
    <3>1. ApiInv' /\ HolderInv' /\ JobInv' /\ LateInv'
      BY <2>2, <2>4 DEF SInv, ApiInv, HolderInv, JobInv, LateInv, Holder
    <3> QED  BY <2>3, <3>1 DEF SInv
  <2>5. CASE ApiStarts(apiSetup, apiSecret)
    <3>1. ApiInv'
      BY <2>1, <2>2, <2>5 DEF ApiStarts, SInv, ApiInv, None
    <3>2. HolderInv' /\ JobInv' /\ LateInv'
      BY <2>2, <2>5 DEF ApiStarts, SInv, HolderInv, JobInv, LateInv, Holder
    <3> QED  BY <2>3, <3>1, <3>2 DEF SInv
  <2> QED
    BY <2>2, <2>4, <2>5
<1> QED
  BY <1>1, <1>2, FormKeeps, HandshakeKeeps, ApplyKeeps DEF Operator

\* Writing a file gives secrets.env the applying session's secret, or empties it.
LEMMA EnvOfWrite ==
  ASSUME NEW f, NEW st, WriteFile(f, st) \/ TearFile(f)
  PROVE  env' \in {env, st.secret, None}
  BY DEF WriteFile, TearFile

LEMMA ApplyStepsKeep == ASSUME TypeOK, SInv, ApplySteps PROVE SInv'
<1>1. job # Idle /\ job.s \in Sessions /\ mem[job.s] \in WizardState
  BY JobTyped DEF ApplySteps, Preflight, WriteStep, SaveFinal, RestartApi, Idle
<1>2. CASE Preflight
  <2>1. job' = Idle \/ job'.s = job.s
    BY <1>1, <1>2 DEF Preflight, TypeOK, Jobs
  <2> QED
    BY <1>1, <1>2, <2>1 DEF Preflight, SInv, SecretsAgree, ApiInv, PinInv, SidInv,
       HolderInv, JobInv, LateInv, Holder, stateVars, fileVars, apiVars
<1>3. CASE WriteStep
  <2>1. job' = Idle \/ job'.s = job.s
    BY <1>1, <1>3 DEF WriteStep, NextWrite, TypeOK, Jobs
  <2>2. env' \in {env, mem[job.s].secret, None}
    BY <1>3, EnvOfWrite DEF WriteStep
  <2>3. UNCHANGED <<mem, progress, pinned, apiVars>>
    BY <1>3 DEF WriteStep, stateVars
  <2>4. pinned
    BY <1>1 DEF SInv, PinInv, JobInv
  <2>5. \A t \in Sessions : Holder(t) => t = job.s
    BY <1>1 DEF SInv, JobInv, SidInv, Holder
  <2>6. SecretsAgree' /\ ApiInv' /\ PinInv' /\ SidInv' /\ JobInv'
    BY <1>1, <2>1, <2>2, <2>3, <2>4
    DEF SInv, SecretsAgree, ApiInv, PinInv, SidInv, JobInv, apiVars
  <2>7. HolderInv' /\ LateInv'
    BY <1>1, <2>1, <2>2, <2>3, <2>5 DEF SInv, HolderInv, LateInv, Holder, apiVars
  <2> QED  BY <2>6, <2>7 DEF SInv
<1>4. CASE SaveFinal
  <2>1. mem' = mem
    BY <1>1, <1>4 DEF SaveFinal, SaveTo, ToDisk, TypeOK
  <2>2. \A t \in Sessions : progress'[t].sid = None /\ (progress'[t].addr => pinned)
    BY <1>1, <1>4 DEF SaveFinal, SaveTo, ToDisk, Persisted, SInv, PinInv, SidInv, TypeOK, WizardState
  <2>3. job' # Idle /\ job'.s = job.s
    BY <1>1, <1>4 DEF SaveFinal, TypeOK, Jobs, Idle
  <2> QED
    BY <1>1, <1>4, <2>1, <2>2, <2>3 DEF SaveFinal, SInv, SecretsAgree, ApiInv, PinInv, SidInv,
       HolderInv, JobInv, LateInv, Holder, fileVars, apiVars
<1>5. CASE RestartApi
  <2>1. 0 <= handshakes
    BY BoundAssumption DEF TypeOK, ApiSids
  <2> QED
    BY <1>1, <1>5, <2>1 DEF RestartApi, ApiStarts, SInv, SecretsAgree, ApiInv, PinInv, SidInv,
       HolderInv, JobInv, LateInv, Holder, stateVars, fileVars, None
<1> QED
  BY <1>2, <1>3, <1>4, <1>5 DEF ApplySteps

LEMMA EnvironmentKeeps == ASSUME TypeOK, SInv, Environment PROVE SInv'
<1>1. 0 <= handshakes
  BY BoundAssumption DEF TypeOK, ApiSids
<1>2. CASE Restart
  <2>1. \A t \in Sessions : /\ mem'[t] = progress'[t]
                            /\ mem'[t].sid = None
                            /\ mem'[t].addr => pinned
    BY <1>2 DEF Restart, SInv, SidInv, PinInv, Fresh, TypeOK
  <2>2. env' \in {env, None} /\ job' = Idle
    BY <1>2 DEF Restart, TearFile
  <2>3. pinned' = pinned /\ UNCHANGED apiVars
    BY <1>2 DEF Restart
  <2> QED
    BY <1>1, <2>1, <2>2, <2>3 DEF SInv, SecretsAgree, ApiInv, PinInv, SidInv,
       HolderInv, JobInv, LateInv, Holder, apiVars, None
<1>3. CASE ApiRestart \/ ApiReset
  BY <1>1, <1>3 DEF ApiRestart, ApiReset, ApiStarts, SInv, SecretsAgree, ApiInv, PinInv, SidInv,
     HolderInv, JobInv, LateInv, Holder, stateVars, fileVars, None
<1>4. CASE LateLand
  <2>1. PICK req \in inflight : Adopt(req) /\ inflight' = inflight \ {req}
    BY <1>4 DEF LateLand
  <2>2. /\ apiSecret' = (IF req.secret = None THEN apiSecret ELSE req.secret)
        /\ apiSecret' \in {None, apiSecret, req.secret}
        /\ apiSetup' /\ apiSession' = apiSession /\ apiToken' = apiToken
        /\ apiLoaded' = apiLoaded /\ handshakes' = handshakes
        /\ UNCHANGED <<stateVars, fileVars, job>>
    BY <1>4, <2>1 DEF LateLand, Adopt
  <2>3. job # Idle => job.s \in Sessions
    BY JobTyped
  <2>4. PinInv' /\ SidInv'
    BY <2>2 DEF SInv, PinInv, SidInv, stateVars, fileVars
  <2>5. ApiInv' /\ SecretsAgree'
    <3>1. /\ apiSecret # None => apiSecret' = apiSecret
          /\ env # None /\ apiSecret' # None => apiSecret' = env
      BY <2>1, <2>2 DEF SInv, SecretsAgree, LateInv
    <3>2. apiLoaded' \in {None, apiSecret'}
      BY <2>2, <3>1 DEF SInv, ApiInv
    <3>3. inflight' # {} => apiSetup' \/ ~apiToken'
      BY <2>2
    <3>4. ~apiSetup' => apiSecret' = None
      BY <2>2
    <3>5. apiSession' # None => apiLoaded' = None /\ ~apiToken'
      BY <2>2 DEF SInv, ApiInv
    <3> QED
      BY <2>2, <3>1, <3>2, <3>3, <3>4, <3>5 DEF SInv, ApiInv, SecretsAgree, fileVars
  <2>6. HolderInv'
    BY <2>1, <2>2 DEF SInv, HolderInv, LateInv, Holder, stateVars, fileVars
  <2>7. JobInv'
    BY <2>1, <2>2, <2>3 DEF SInv, JobInv, LateInv, stateVars
  <2>8. LateInv'
    <3>1. inflight' = {}
      BY <2>1 DEF SInv, LateInv
    <3> QED
      BY <3>1 DEF LateInv
  <2> QED  BY <2>4, <2>5, <2>6, <2>7, <2>8 DEF SInv
<1> QED
  BY <1>2, <1>3, <1>4 DEF Environment

LEMMA StutterKeeps == ASSUME SInv, UNCHANGED vars PROVE SInv'
  BY DEF SInv, SecretsAgree, ApiInv, PinInv, SidInv, HolderInv, JobInv, LateInv, Holder,
     vars, stateVars, fileVars, apiVars

LEMMA InitAgrees == Init => SInv
  BY DEF Init, SInv, SecretsAgree, ApiInv, PinInv, SidInv, HolderInv, JobInv, LateInv, Holder,
     Fresh, None

LEMMA InvariantHolds == Spec => []SInv
<1>1. TypeOK /\ SInv /\ [Next]_vars => SInv'
  BY OperatorKeeps, ApplyStepsKeep, EnvironmentKeeps, StutterKeeps DEF Next
<1> QED
  BY InitAgrees, TypeCorrect, <1>1, PTL DEF Spec

\* secrets.env and the API never hold different secrets, for any number of
\* browsers, secrets, handshakes and resets, and under every set of faults.
THEOREM SecretsAlwaysAgree == Spec => []SecretsAgree
<1>1. SInv => SecretsAgree
  BY DEF SInv
<1> QED
  BY InvariantHolds, <1>1, PTL

-----------------------------------------------------------------------------
(* What an Apply in progress has already written *)

Written(i) == job.pc \in {"save", "restart"} \/ (job.pc = "write" /\ job.at > i)

\* Write number i is done, for the session that applies.
Holds(i) ==
    LET f == LocalWrites[i].file IN
    /\ f \in ConfFiles => conf[f] = mem[job.s].cfg
    /\ f = "secrets" => env = mem[job.s].secret

WriteInv ==
    job # Idle =>
      /\ page[job.s] # "complete"
      /\ job.pc = "preflight" => job.at = 1
      /\ \A i \in 1 .. 7 : LocalWrites[i].hard /\ Written(i) => Holds(i)

LEMMA OnlyFirstIsSoft == \A i \in 1 .. 7 : LocalWrites[i].hard <=> i # 1
  BY DEF LocalWrites

\* Writing the same session's state again undoes none of its writes.
LEMMA WriteKeepsHolds ==
  ASSUME TypeOK, job # Idle, job.pc = "write", WriteFile(LocalWrites[job.at].file, mem[job.s]),
         mem' = mem, job'.s = job.s, NEW i \in 1 .. 7, Holds(i) \/ i = job.at
  PROVE  Holds(i)'
<1>1. /\ conf \in [ConfFiles -> Configs \cup {NoFile}]
      /\ \A f \in ConfFiles : conf'[f] \in {conf[f], mem[job.s].cfg}
      /\ LocalWrites[job.at].file \in ConfFiles =>
           conf'[LocalWrites[job.at].file] = mem[job.s].cfg
  BY DEF WriteFile, TypeOK
<1>2. env' \in {env, mem[job.s].secret}
      /\ (LocalWrites[job.at].file = "secrets" => env' = mem[job.s].secret)
  BY DEF WriteFile
<1> QED
  BY <1>1, <1>2 DEF Holds

LEMMA WriteInvKept == ASSUME TypeOK, WriteInv, [Next]_vars PROVE WriteInv'
<1>1. CASE job = Idle
  <2>1. job' = Idle \/ \E s \in Sessions : /\ job' = [pc |-> "preflight", s |-> s, at |-> 1]
                                           /\ ShowPage(s, "review")
    BY <1>1 DEF Next, Operator, ApplySteps, Environment, vars, Idle, Step1Pin, CustomisePages,
       AdminEditApi, AdminEditLocal, WizardIndex, OpenPage,
       Step1FirstRun, Step1Rerun, EditStep, Step2Database,
       ApplyAccepted, ApplyReplyLost, ApplyTimesOut, ApplyRefused, ApplyGone, Preflight,
       WriteStep, SaveFinal, RestartApi, Restart, ApiRestart, ApiReset, LateLand
  <2> QED
    BY <2>1 DEF WriteInv, Written, ShowPage, TypeOK
<1>2. CASE job # Idle /\ job' = Idle
  BY <1>2 DEF WriteInv
<1>3. CASE job # Idle /\ job' # Idle
  <2>1. \/ Preflight \/ WriteStep \/ SaveFinal \/ RestartApi
        \/ UNCHANGED <<mem, conf, env, job, page>>
    BY <1>3 DEF Next, Operator, ApplySteps, Environment, vars, stateVars, fileVars,
       Step1Pin, CustomisePages, AdminEditApi, AdminEditLocal, WizardIndex, OpenPage,
       Step1FirstRun, Step1Rerun, EditStep,
       Step2Database, ApplyAccepted, ApplyReplyLost, ApplyTimesOut, ApplyRefused, ApplyGone,
       Restart, ApiRestart, ApiReset, LateLand
  <2>2. CASE UNCHANGED <<mem, conf, env, job, page>>
    BY <1>3, <2>2 DEF WriteInv, Written, Holds
  <2>3. CASE Preflight
    <3>1. job' = [job EXCEPT !.pc = "write"] /\ job.at = 1
      BY <1>3, <2>3 DEF Preflight, WriteInv
    <3>2. job'.s = job.s /\ job'.pc = "write" /\ job'.at = 1 /\ page' = page
      BY <1>3, <2>3, <3>1 DEF Preflight, TypeOK, Jobs
    <3> QED
      BY <1>3, <3>2 DEF WriteInv, Written
  <2>4. CASE SaveFinal
    <3>1. mem' = mem /\ UNCHANGED <<conf, env, page>>
      BY <1>3, <2>4, JobTyped DEF SaveFinal, SaveTo, ToDisk, fileVars, TypeOK
    <3>2. job'.s = job.s /\ job'.pc = "restart" /\ job.pc = "save"
      BY <1>3, <2>4 DEF SaveFinal, TypeOK, Jobs
    <3> QED
      BY <1>3, <3>1, <3>2 DEF WriteInv, Written, Holds
  <2>5. CASE WriteStep
    <3>1. mem' = mem /\ page' = page /\ NextWrite
      BY <1>3, <2>5 DEF WriteStep, stateVars
    <3>2. job.at \in 1 .. 7 /\ job.pc = "write"
      BY <1>3, <2>5, JobTyped, LengthOfWrites DEF WriteStep
    <3>3. /\ job'.s = job.s /\ job'.pc # "preflight"
          /\ \A i \in 1 .. 7 : Written(i)' => Written(i) \/ i = job.at
      BY <1>3, <3>1, <3>2, LengthOfWrites DEF NextWrite, Written, TypeOK, Jobs
    <3>4. CASE WriteFile(LocalWrites[job.at].file, mem[job.s])
      BY <1>3, <3>1, <3>2, <3>3, <3>4, WriteKeepsHolds DEF WriteInv
    <3>5. CASE job.at = 1
      BY <1>3, <3>1, <3>2, <3>3, <3>5, OnlyFirstIsSoft DEF WriteInv, Written
    <3> QED
      BY <1>3, <2>5, <3>2, <3>4, <3>5, OnlyFirstIsSoft DEF WriteStep
  <2>6. CASE RestartApi
    BY <1>3, <2>6 DEF RestartApi
  <2> QED  BY <2>1, <2>2, <2>3, <2>4, <2>5, <2>6
<1> QED
  BY <1>1, <1>2, <1>3

LEMMA WriteInvInit == Init => WriteInv
  BY DEF Init, WriteInv

LEMMA WrittenTruly == Spec => []WriteInv
<1>1. TypeOK /\ WriteInv /\ [Next]_vars => WriteInv'
  BY WriteInvKept
<1> QED
  BY WriteInvInit, TypeCorrect, <1>1, PTL DEF Spec

-----------------------------------------------------------------------------
(* The wizard implements SetupContract *)

\* The abstract variables, by name.
Exchange == IF job = Idle THEN {} ELSE {Payload(mem[job.s])}
Told     == {s \in Sessions : page[s] = "complete"}
Remote   == [cfg |-> apiCfg, secret |-> apiSecret]
Local    == [cfg |-> conf["stack"], secret |-> env]

LEMMA InitRefines == Init => Contract!Init
  BY DEF Init, Contract!Init, ConfFiles, None

\* What leaves the abstract state alone.
LEMMA NothingShown ==
  ASSUME UNCHANGED <<conf, env, apiCfg, apiSecret, job, page>>, job = Idle \/ mem' = mem
  PROVE  UNCHANGED Contract!vars
  BY DEF Contract!vars, Payload

\* The API answers no, or adopts a payload without the wizard knowing.
LEMMA RefusalRefines ==
  ASSUME TypeOK, TypeOK', NEW s \in Sessions, ShowPage(s, "review") \/ ShowPage(s, "gone"),
         UNCHANGED <<conf, env, job, mem>>
  PROVE  Contract!Next
<1>1. Contract!Refuse(s)
  <2>1. Told' = Told \ {s}
    BY DEF ShowPage, Told, TypeOK
  <2>2. Remote' \in [cfg : Configs, secret : Secrets]
    BY DEF TypeOK, Remote
  <2> QED
    BY <2>1, <2>2 DEF Contract!Refuse, Contract!Holding, Told, Remote, Payload
<1> QED
  BY <1>1 DEF Contract!Next

LEMMA DriftRefines ==
  ASSUME TypeOK', UNCHANGED <<conf, env, job, mem, page>>
  PROVE  Contract!Next
<1>1. Contract!RemoteDrift
  BY DEF Contract!RemoteDrift, Contract!Holding, TypeOK, Payload
<1> QED
  BY <1>1 DEF Contract!Next

LEMMA OperatorRefines ==
  ASSUME TypeOK, TypeOK', Operator PROVE Contract!Next \/ UNCHANGED Contract!vars
<1>1. CASE Step1Pin \/ CustomisePages
  BY <1>1, NothingShown DEF Step1Pin, CustomisePages, stateVars, apiVars
<1>2. CASE (\E c \in Configs : AdminEditApi(c))
          \/ (\E f \in ConfFiles, c \in Configs : AdminEditLocal(f, c))
  <2>1. CASE \E c \in Configs : AdminEditApi(c)
    BY <2>1, DriftRefines DEF AdminEditApi, stateVars, fileVars
  <2>2. CASE \E f \in ConfFiles, c \in Configs : AdminEditLocal(f, c)
    <3>1. PICK f \in ConfFiles, c \in Configs : AdminEditLocal(f, c)
      BY <2>2
    <3>2. PICK d \in Configs \cup {NoFile} : d = conf'["stack"]
      BY DEF TypeOK, ConfFiles
    <3>3. Local' = [Local EXCEPT !.cfg = d]
      BY <3>1, <3>2 DEF AdminEditLocal, Local
    <3>4. Exchange = {} /\ Exchange' = {} /\ Remote' = Remote /\ Told' = Told
      BY <3>1 DEF AdminEditLocal, Exchange, Remote, Told, apiVars
    <3>5. Contract!LocalDrift
      BY <3>3, <3>4 DEF Contract!LocalDrift, Exchange, Remote, Local, Told
    <3> QED  BY <3>5 DEF Contract!Next
  <2> QED  BY <1>2, <2>1, <2>2
<1>3. ASSUME NEW s \in Sessions,
             \/ WizardIndex(s) \/ OpenPage(s) \/ Step1FirstRun(s) \/ Step1Rerun(s)
             \/ \E c \in Configs : EditStep(s, c)
             \/ \E c \in Configs, remote \in BOOLEAN : Step2Database(s, c, remote)
      PROVE UNCHANGED Contract!vars
  BY <1>3, NothingShown DEF WizardIndex, OpenPage, Step1FirstRun, IssueSession, Step1Rerun, EditStep,
     Step2Database, fileVars, apiVars
<1>4. ASSUME NEW s \in Sessions, ApplyAccepted(s) PROVE Contract!Next
  <2>1. job' # Idle /\ job'.s = s /\ mem' = mem
    BY <1>4 DEF ApplyAccepted, Idle, stateVars
  <2>2. Exchange = {} /\ Exchange' = {Payload(mem[s])}
    BY <1>4, <2>1 DEF ApplyAccepted, Exchange, Payload
  <2>3. PICK x \in [cfg : Configs, secret : Secrets] : x = Payload(mem[s])
    BY PayloadTyped DEF TypeOK, Request
  <2>4. Remote' = [x EXCEPT !.secret = IF @ = None THEN Remote.secret ELSE @]
    BY <1>4, <2>3 DEF ApplyAccepted, Adopt, Payload, Remote
  <2>5. Told' = Told \ {s} /\ Local' = Local
    BY <1>4 DEF ApplyAccepted, ShowPage, Told, Local, TypeOK, fileVars
  <2>6. Contract!Begin(s, x)
    BY <2>2, <2>3, <2>4, <2>5 DEF Contract!Begin, Exchange, Remote, Local, Told
  <2> QED
    BY <2>6 DEF Contract!Next, Contract!Holding
<1>5. ASSUME NEW s \in Sessions,
             ApplyReplyLost(s) \/ ApplyTimesOut(s) \/ ApplyRefused(s) \/ ApplyGone(s)
      PROVE Contract!Next
  BY <1>5, RefusalRefines DEF ApplyReplyLost, ApplyTimesOut, ApplyRefused, ApplyGone,
     stateVars, fileVars
<1> QED
  BY <1>1, <1>2, <1>3, <1>4, <1>5 DEF Operator

\* Writing one file is a step of the exchange, whether or not it ends it.
LEMMA FileRefines ==
  ASSUME TypeOK, job # Idle, NEW f,
         WriteFile(f, mem[job.s]) \/ TearFile(f),
         Exchange' \in {Exchange, {}}, Told' = Told,
         UNCHANGED <<apiCfg, apiSecret>>
  PROVE  Contract!Next \/ UNCHANGED Contract!vars
<1>1. Payload(mem[job.s]) \in Exchange /\ Exchange # {} /\ Remote' = Remote
  BY DEF Exchange, Remote
<1>2. CASE f = "stack"
  <2>1. env' = env /\ conf'["stack"] \in {Payload(mem[job.s]).cfg, NoFile}
    BY <1>2 DEF WriteFile, TearFile, ConfFiles, Payload, TypeOK
  <2>2. Local' = [Local EXCEPT !.cfg = conf'["stack"]]
    BY <2>1 DEF Local
  <2>3. Contract!WriteConfig
    BY <1>1, <2>1, <2>2 DEF Contract!WriteConfig, Exchange, Told, Local, Remote
  <2> QED  BY <2>3 DEF Contract!Next
<1>3. CASE f = "secrets"
  <2>1. conf' = conf /\ env' \in {Payload(mem[job.s]).secret, None}
    BY <1>3 DEF WriteFile, TearFile, ConfFiles, Payload
  <2>2. Local' = [Local EXCEPT !.secret = env']
    BY <2>1 DEF Local
  <2>3. Contract!WriteSecret
    BY <1>1, <2>1, <2>2 DEF Contract!WriteSecret, Exchange, Told, Local, Remote
  <2> QED  BY <2>3 DEF Contract!Next
<1>4. CASE f \notin {"stack", "secrets"}
  <2>1. Local' = Local
    BY <1>4 DEF WriteFile, TearFile, Local, TypeOK, ConfFiles
  <2>2. CASE Exchange' = Exchange
    BY <1>1, <2>1, <2>2 DEF Contract!vars, Exchange, Told, Local, Remote
  <2>3. CASE Exchange' = {}
    <3>1. Contract!Abandon
      BY <1>1, <2>1, <2>3 DEF Contract!Abandon, Exchange, Told, Local, Remote
    <3> QED  BY <3>1 DEF Contract!Next
  <2> QED  BY <2>2, <2>3
<1> QED
  BY <1>2, <1>3, <1>4

\* A hard failure: the exchange is abandoned and its session hears so.
LEMMA FailureRefines ==
  ASSUME TypeOK, WriteInv, job # Idle, job' = Idle, ShowPage(job.s, "localfail"),
         UNCHANGED <<conf, env, mem, apiCfg, apiSecret>>
  PROVE  Contract!Next
<1>1. Told' = Told
  BY DEF ShowPage, WriteInv, Told, TypeOK
<1>2. Exchange # {} /\ Exchange' = {}
  BY DEF Exchange
<1>3. Contract!Abandon
  BY <1>1, <1>2 DEF Contract!Abandon, Exchange, Told
<1> QED
  BY <1>3 DEF Contract!Next

LEMMA ApplyStepsRefine ==
  ASSUME TypeOK, TypeOK', WriteInv, ApplySteps
  PROVE  Contract!Next \/ UNCHANGED Contract!vars
<1>1. job # Idle /\ job.s \in Sessions
  BY DEF ApplySteps, Preflight, WriteStep, SaveFinal, RestartApi, Idle, TypeOK, Jobs
<1>2. CASE Preflight
  <2>1. UNCHANGED <<mem, conf, env, apiCfg, apiSecret>>
    BY <1>2 DEF Preflight, stateVars, fileVars, apiVars
  <2>2. CASE UNCHANGED page /\ job' = [job EXCEPT !.pc = "write"]
    <3>1. job' # Idle /\ job'.s = job.s
      BY <1>1, <2>2 DEF TypeOK, Jobs, Idle
    <3>2. Exchange' = Exchange
      BY <1>1, <2>1, <3>1 DEF Exchange, Payload
    <3> QED
      BY <2>1, <2>2, <3>2 DEF Contract!vars, Exchange
  <2>3. CASE job' = Idle /\ ShowPage(job.s, "localfail")
    BY <1>1, <2>1, <2>3, FailureRefines
  <2> QED
    BY <1>2, <2>2, <2>3 DEF Preflight
<1>3. CASE WriteStep
  <2> DEFINE w == LocalWrites[job.at]
  <2>1. mem' = mem /\ UNCHANGED <<apiCfg, apiSecret>>
    BY <1>3 DEF WriteStep, stateVars, apiVars
  <2>2. job' # Idle => Exchange' = Exchange
    BY <1>1, <1>3, <2>1 DEF WriteStep, NextWrite, Exchange, Payload, TypeOK, Jobs, Idle
  <2>3. Exchange' \in {Exchange, {}} /\ Told' = Told
    BY <1>1, <1>3, <2>2 DEF WriteStep, ShowPage, WriteInv, Exchange, Told, TypeOK
  <2>4. CASE WriteFile(w.file, mem[job.s]) \/ TearFile(w.file)
    BY <1>1, <2>1, <2>3, <2>4, FileRefines
  <2>5. CASE UNCHANGED <<conf, pages, env>> /\ job' = Idle /\ ShowPage(job.s, "localfail")
    BY <1>1, <2>1, <2>5, FailureRefines
  <2>6. CASE UNCHANGED <<conf, pages, env>> /\ NextWrite /\ UNCHANGED page
    <3>1. job' # Idle
      BY <1>1, <1>3, <2>6 DEF WriteStep, NextWrite, TypeOK, Jobs, Idle
    <3> QED
      BY <2>1, <2>2, <2>6, <3>1 DEF Contract!vars, Exchange
  <2> QED
    BY <1>3, <2>4, <2>5, <2>6 DEF WriteStep
<1>4. CASE SaveFinal
  <2>1. mem' = mem /\ UNCHANGED <<conf, env, page, apiCfg, apiSecret>>
    BY <1>1, <1>4 DEF SaveFinal, SaveTo, ToDisk, fileVars, apiVars, TypeOK
  <2>2. job' # Idle /\ job'.s = job.s
    BY <1>1, <1>4 DEF SaveFinal, TypeOK, Jobs, Idle
  <2>3. Exchange' = Exchange
    BY <1>1, <2>1, <2>2 DEF Exchange, Payload
  <2> QED
    BY <2>1, <2>3 DEF Contract!vars, Exchange
<1>5. CASE RestartApi
  <2>1. Exchange' = {} /\ Remote' = Remote /\ Local' = Local
    BY <1>5 DEF RestartApi, Exchange, Remote, Local, fileVars
  <2>2. Told' = Told \cup {job.s}
    BY <1>1, <1>5 DEF RestartApi, ShowPage, Told, TypeOK
  <2>3. LocalWrites[2].file = "stack" /\ LocalWrites[6].file = "secrets"
    BY DEF LocalWrites
  <2>4. Holds(2) /\ Holds(6)
    BY <1>1, <1>5, OnlyFirstIsSoft DEF RestartApi, WriteInv, Written
  <2>5. Exchange = {Local}
    BY <1>1, <2>3, <2>4 DEF Holds, Exchange, Payload, Local, ConfFiles
  <2>6. PICK p \in Sessions : p = job.s
    BY <1>1
  <2>7. Contract!Announce(p)
    BY <2>1, <2>2, <2>5, <2>6 DEF Contract!Announce, Exchange, Remote, Local, Told
  <2> QED
    BY <2>7 DEF Contract!Next
<1> QED
  BY <1>2, <1>3, <1>4, <1>5 DEF ApplySteps

LEMMA EnvironmentRefines ==
  ASSUME TypeOK, TypeOK', WriteInv, Environment
  PROVE  Contract!Next \/ UNCHANGED Contract!vars
<1>1. CASE Restart
  <2>1. Exchange' = {} /\ Remote' = Remote /\ Told' = Told
    BY <1>1 DEF Restart, Exchange, Remote, Told, apiVars
  <2>2. CASE UNCHANGED <<conf, pages, env>> /\ job = Idle
    BY <2>1, <2>2 DEF Contract!vars, Exchange, Remote, Told
  <2>3. CASE UNCHANGED <<conf, pages, env>> /\ job # Idle
    <3>1. Contract!Abandon
      BY <2>1, <2>3 DEF Contract!Abandon, Exchange, Remote, Told
    <3> QED  BY <3>1 DEF Contract!Next
  <2>4. ASSUME NEW f \in BeingWritten, TearFile(f)
        PROVE  Contract!Next \/ UNCHANGED Contract!vars
    <3>1. CASE job # Idle
      BY <1>1, <2>1, <2>4, <3>1, FileRefines DEF Restart, apiVars
    <3>2. CASE job = Idle
      <4>1. /\ conf'["stack"] \in {conf["stack"], NoFile} /\ env' \in {env, None}
            /\ conf'["stack"] = conf["stack"] \/ env' = env
        BY <2>4 DEF TearFile, ConfFiles, TypeOK
      <4>2. PICK d \in Configs \cup {NoFile} : d = conf'["stack"]
        BY DEF TypeOK, ConfFiles
      <4>3. Local' = [Local EXCEPT !.cfg = d] \/ Local' = [Local EXCEPT !.secret = None]
        BY <4>1, <4>2 DEF Local
      <4>4. Contract!LocalDrift
        BY <2>1, <3>2, <4>3 DEF Contract!LocalDrift, Exchange, Remote, Local, Told
      <4> QED  BY <4>4 DEF Contract!Next
    <3> QED  BY <3>1, <3>2
  <2> QED
    BY <1>1, <2>2, <2>3, <2>4 DEF Restart
<1>2. CASE ApiRestart
  BY <1>2, DriftRefines DEF ApiRestart, stateVars, fileVars
<1>3. CASE ApiReset
  BY <1>3, DriftRefines DEF ApiReset, stateVars, fileVars
<1>4. CASE LateLand
  BY <1>4, DriftRefines DEF LateLand, stateVars, fileVars
<1> QED
  BY <1>1, <1>2, <1>3, <1>4 DEF Environment

\* The wizard keeps the contract under every set of faults: local files change
\* only inside an exchange the API has accepted, and a session is shown the
\* completion page only when the files hold all of what it carried.
THEOREM HandoverFollowsContract == Spec => FollowsContract
<1>1. TypeOK /\ TypeOK' /\ WriteInv /\ [Next]_vars => [Contract!Next]_(Contract!vars)
  <2> SUFFICES ASSUME TypeOK, TypeOK', WriteInv, [Next]_vars
               PROVE  Contract!Next \/ UNCHANGED Contract!vars
    OBVIOUS
  <2>1. CASE UNCHANGED vars
    BY <2>1 DEF vars, stateVars, fileVars, apiVars, Contract!vars, Payload
  <2> QED
    BY <2>1, OperatorRefines, ApplyStepsRefine, EnvironmentRefines DEF Next
<1> QED
  BY InitRefines, TypeCorrect, WrittenTruly, <1>1, PTL DEF Spec, FollowsContract, Contract!Spec

-----------------------------------------------------------------------------
(* The completion page tells the truth *)

\* While an Apply is in progress the API holds what it carried: it was sent
\* before the first local write, and nothing else reaches the API meanwhile.
ApiHolds ==
    /\ inflight = {}
    /\ job # Idle => /\ apiSetup
                     /\ apiCfg = mem[job.s].cfg
                     /\ mem[job.s].secret # None => apiSecret = mem[job.s].secret

\* An API that is neither reset nor acts on requests the wizard gave up on.
SteadyApi == MaxResets = 0 /\ "late" \notin Faults

LEMMA ApiHoldsInit == Init => ApiHolds
  BY DEF Init, ApiHolds

LEMMA ApiHoldsKept == ASSUME SteadyApi, TypeOK, ApiHolds, [Next]_vars PROVE ApiHolds'
<1>1. CASE job = Idle
  <2>1. CASE \E s \in Sessions : ApplyAccepted(s)
    <3>1. PICK s \in Sessions : ApplyAccepted(s)
      BY <2>1
    <3>2. job'.s = s /\ mem' = mem /\ inflight' = {}
      BY <3>1 DEF ApplyAccepted, stateVars, ApiHolds
    <3>3. apiSetup' /\ apiCfg' = mem[s].cfg
      BY <3>1 DEF ApplyAccepted, Adopt, Payload
    <3>4. mem[s].secret # None => apiSecret' = mem[s].secret
      BY <3>1 DEF ApplyAccepted, Adopt, Payload
    <3> QED
      BY <3>2, <3>3, <3>4 DEF ApiHolds
  <2>2. CASE ~ \E s \in Sessions : ApplyAccepted(s)
    <3>1. job' = Idle
      BY <1>1, <2>2 DEF Next, Operator, ApplySteps, Environment, vars, Idle, Step1Pin,
         CustomisePages, AdminEditApi, AdminEditLocal, WizardIndex, OpenPage,
         Step1FirstRun, Step1Rerun, EditStep,
         Step2Database, ApplyReplyLost, ApplyTimesOut, ApplyRefused, ApplyGone, Preflight,
         WriteStep, SaveFinal, RestartApi, Restart, ApiRestart, ApiReset, LateLand
    <3>2. inflight' = {}
      BY <1>1, <2>2 DEF SteadyApi, ApiHolds, Next, Operator, ApplySteps, Environment, vars,
         apiVars, Step1Pin, CustomisePages, AdminEditApi, AdminEditLocal, WizardIndex, OpenPage,
         Step1FirstRun,
         IssueSession, Step1Rerun, EditStep, Step2Database, ApplyReplyLost, ApplyTimesOut,
         ApplyRefused, ApplyGone, Preflight, WriteStep, SaveFinal, RestartApi, ApiStarts,
         Restart, ApiRestart, ApiReset, LateLand
    <3> QED
      BY <3>1, <3>2 DEF ApiHolds
  <2> QED
    BY <2>1, <2>2
<1>2. CASE job # Idle
  <2>1. ~ApiReset
    BY DEF ApiReset, SteadyApi, TypeOK
  <2>2. \/ job' = Idle
        \/ job'.s = job.s /\ mem' = mem
    <3>1. CASE SaveFinal
      BY <1>2, <3>1, JobTyped DEF SaveFinal, SaveTo, ToDisk, TypeOK, Jobs
    <3>2. CASE Preflight \/ WriteStep
      BY <1>2, <3>2 DEF Preflight, WriteStep, NextWrite, stateVars, TypeOK, Jobs
    <3> QED
      BY <1>2, <2>1, <3>1, <3>2 DEF ApiHolds, Next, Operator, ApplySteps, Environment, vars,
         stateVars, Step1Pin, CustomisePages, AdminEditApi, AdminEditLocal, WizardIndex, OpenPage,
         Step1FirstRun,
         Step1Rerun, EditStep, Step2Database, ApplyAccepted, ApplyReplyLost, ApplyTimesOut,
         ApplyRefused, ApplyGone, RestartApi, Restart, ApiRestart, LateLand
  <2>3. inflight' = {} /\ UNCHANGED <<apiSetup, apiCfg, apiSecret>>
    BY <1>2, <2>1 DEF ApiHolds, Next, Operator, ApplySteps, Environment, vars, apiVars,
       Step1Pin, CustomisePages, AdminEditApi, AdminEditLocal, WizardIndex, OpenPage,
       Step1FirstRun, Step1Rerun, EditStep,
       Step2Database, ApplyAccepted, ApplyReplyLost, ApplyTimesOut, ApplyRefused, ApplyGone,
       Preflight, WriteStep, SaveFinal, RestartApi, ApiStarts, Restart, ApiRestart, LateLand
  <2> QED
    BY <1>2, <2>2, <2>3 DEF ApiHolds
<1> QED
  BY <1>1, <1>2

\* With a steady API, a session is shown the completion page only in a step
\* after which the API, all three configuration files and secrets.env hold
\* exactly what that session collected, for any number of sessions.
THEOREM CompletionIsTrue == ASSUME SteadyApi PROVE Spec => CompletionMeansAgreement
<1>1. TypeOK /\ ApiHolds /\ [Next]_vars => ApiHolds'
  BY ApiHoldsKept
<1> DEFINE Shown(s) == page[s] # "complete" /\ page'[s] = "complete"
           Agreed(s) == /\ apiSetup' /\ apiCfg' = mem[s].cfg
                        /\ \A f \in ConfFiles : conf'[f] = mem[s].cfg
                        /\ env' = mem[s].secret
                        /\ env' # None => apiSecret' = env'
<1>2. ASSUME TypeOK, WriteInv, ApiHolds, [Next]_vars, NEW s \in Sessions, Shown(s)
      PROVE  Agreed(s)
  <2>1. RestartApi
    BY <1>2 DEF Next, Operator, ApplySteps, Environment, vars, ShowPage, TypeOK, Step1Pin,
       CustomisePages, AdminEditApi, AdminEditLocal, WizardIndex, OpenPage,
       Step1FirstRun, Step1Rerun, EditStep,
       Step2Database, ApplyAccepted, ApplyReplyLost, ApplyTimesOut, ApplyRefused, ApplyGone,
       Preflight, WriteStep, SaveFinal, Restart, ApiRestart, ApiReset, LateLand
  <2>2. job # Idle /\ job.s = s
    BY <1>2, <2>1 DEF RestartApi, Idle, ShowPage, TypeOK
  <2>3. UNCHANGED <<conf, env, apiSetup, apiCfg, apiSecret>>
    BY <2>1 DEF RestartApi, fileVars
  <2>4. \A i \in {2, 3, 5, 6} : Holds(i)
    BY <2>1, <2>2, <1>2, OnlyFirstIsSoft DEF RestartApi, WriteInv, Written
  <2>5. /\ LocalWrites[2].file = "stack" /\ LocalWrites[3].file = "branding"
        /\ LocalWrites[5].file = "caddy" /\ LocalWrites[6].file = "secrets"
    BY DEF LocalWrites
  <2>6. (\A f \in ConfFiles : conf[f] = mem[s].cfg) /\ env = mem[s].secret
    BY <2>2, <2>4, <2>5 DEF Holds, ConfFiles
  <2> QED
    BY <1>2, <2>2, <2>3, <2>6 DEF ApiHolds
<1>3. TypeOK /\ WriteInv /\ ApiHolds /\ [Next]_vars
        => [\A s \in Sessions : Shown(s) => Agreed(s)]_vars
  BY <1>2
<1>4. Spec => []ApiHolds
  BY ApiHoldsInit, TypeCorrect, <1>1, PTL DEF Spec
<1> QED
  BY TypeCorrect, WrittenTruly, <1>3, <1>4, PTL DEF Spec, CompletionMeansAgreement

-----------------------------------------------------------------------------
(* The API's secret stays on this host *)

OnDisk(k) == \E s \in Sessions : progress[s].secret = k

\* A progress file has no other secret than its session, and the holder's has
\* the same; what the API holds or may still adopt is in some progress file.
DiskInv ==
    /\ \A s \in Sessions : /\ progress[s].secret \in {None, mem[s].secret}
                           /\ Holder(s) => progress[s].secret = mem[s].secret
    /\ apiSecret # None => OnDisk(apiSecret)
    /\ \A req \in inflight : req.secret # None => OnDisk(req.secret)

\* Progress files are written when they should be and not aged out.
FilesLast == {"save", "cleanup"} \cap Faults = {}

LEMMA DiskInvInit == Init => DiskInv
  BY DEF Init, DiskInv, Holder, Fresh

\* The files give no secret to a session that the API would accept by its id:
\* one that has none then finds none.
LEMMA FilesGiveHolderNothing ==
  ASSUME TypeOK, SInv, NEW s \in Sessions, NEW st \in WizardState, st.sid = mem[s].sid,
         mem[s].secret \in {None, st.secret}, NEW n \in {st, FromFiles(st)}
  PROVE  /\ st.secret \in {None, n.secret}
         /\ n.sid = mem[s].sid
         /\ Holder(s) => n.secret = st.secret
<1>1. n.sid = st.sid /\ n.secret \in {st.secret, IF st.secret = None THEN env ELSE st.secret}
  BY DEF FromFiles, WizardState
<1>2. Holder(s) /\ env # None => mem[s].secret = env
  BY DEF SInv, HolderInv
<1> QED
  BY <1>1, <1>2

LEMMA SaveOnDisk ==
  ASSUME FilesLast, TypeOK, DiskInv, NEW s \in Sessions,
         NEW st \in WizardState, NEW n \in WizardState,
         ToDisk(s, st), mem' = [mem EXCEPT ![s] = n],
         inflight' = inflight, apiSecret' = apiSecret,
         st.secret \in {None, n.secret},
         n.sid # None /\ n.sid = apiSession' => n.secret = st.secret,
         \A t \in Sessions : t # s /\ mem[t].sid # None /\ mem[t].sid = apiSession' => Holder(t),
         \/ progress[s].secret \in {None, st.secret}
         \/ /\ apiSecret # None => st.secret = apiSecret
            /\ \A req \in inflight : req.secret # None => st.secret = req.secret
  PROVE  DiskInv'
<1>1. progress' = [progress EXCEPT ![s] = Persisted(st)] /\ Persisted(st).secret = st.secret
  BY DEF ToDisk, FilesLast, Persisted, WizardState
<1>2. /\ progress'[s].secret = st.secret /\ mem'[s] = n
      /\ \A t \in Sessions : t # s => progress'[t] = progress[t] /\ mem'[t] = mem[t]
  BY <1>1 DEF TypeOK
<1>3. \A t \in Sessions : /\ progress'[t].secret \in {None, mem'[t].secret}
                          /\ Holder(t)' => progress'[t].secret = mem'[t].secret
  <2> SUFFICES ASSUME NEW t \in Sessions
               PROVE  /\ progress'[t].secret \in {None, mem'[t].secret}
                      /\ Holder(t)' => progress'[t].secret = mem'[t].secret
    OBVIOUS
  <2>1. CASE t = s
    BY <1>2, <2>1 DEF Holder
  <2>2. CASE t # s
    <3>1. Holder(t)' => Holder(t)
      BY <1>2, <2>2 DEF Holder
    <3> QED
      BY <1>2, <2>2, <3>1 DEF DiskInv
  <2> QED  BY <2>1, <2>2
<1>4. ASSUME NEW k, k # None, OnDisk(k),
             progress[s].secret \in {None, st.secret} \/ st.secret = k
      PROVE  OnDisk(k)'
  BY <1>2, <1>4 DEF OnDisk
<1>5. apiSecret # None => OnDisk(apiSecret)'
  BY <1>4 DEF DiskInv
<1>6. \A req \in inflight : req.secret # None => OnDisk(req.secret)'
  BY <1>4 DEF DiskInv
<1> QED
  BY <1>3, <1>5, <1>6 DEF DiskInv, OnDisk

\* A form that is saved while the API stays as it is, and the page after it.
LEMMA FormOnDisk ==
  ASSUME FilesLast, TypeOK, SInv, DiskInv, NEW s \in Sessions, NEW st \in WizardState,
         ToDisk(s, st), SaveTo(s, st) \/ Show(s, st), UNCHANGED apiVars,
         st.sid = mem[s].sid, mem[s].secret \in {None, st.secret}
  PROVE  DiskInv'
<1>1. PICK n \in {st, FromFiles(st)} : mem' = [mem EXCEPT ![s] = n]
  BY DEF SaveTo, Show
<1>2. n \in WizardState
  BY FromFilesTyped
<1>3. /\ st.secret \in {None, n.secret}
      /\ n.sid # None /\ n.sid = apiSession' => n.secret = st.secret
  BY FilesGiveHolderNothing DEF Holder, apiVars
<1>4. \A t \in Sessions : t # s /\ mem[t].sid # None /\ mem[t].sid = apiSession' => Holder(t)
  BY DEF Holder, apiVars
<1>5. progress[s].secret \in {None, st.secret}
  BY DEF DiskInv
<1>6. inflight' = inflight /\ apiSecret' = apiSecret
  BY DEF apiVars
<1> QED
  BY <1>1, <1>2, <1>3, <1>4, <1>5, <1>6, SaveOnDisk

\* A page that stores a form.
LEMMA FormsOnDisk ==
  ASSUME FilesLast, TypeOK, SInv, DiskInv, NEW s \in Sessions,
         \/ WizardIndex(s) \/ OpenPage(s) \/ Step1FirstRun(s) \/ Step1Rerun(s)
         \/ \E c \in Configs : EditStep(s, c)
         \/ \E c \in Configs, remote \in BOOLEAN : Step2Database(s, c, remote)
  PROVE  DiskInv'
<1>1. CASE WizardIndex(s)
  <2>1. CASE latest # NoSession
    <3> DEFINE st == MergePrior(mem[s], progress[latest])
    <3>1. /\ st \in WizardState /\ mem[s].secret \in {None, st.secret}
          /\ st.sid = mem[s].sid
      BY <2>1 DEF MergePrior, TypeOK, WizardState
    <3>2. SaveTo(s, st) /\ UNCHANGED apiVars
      BY <1>1, <2>1 DEF WizardIndex
    <3> HIDE DEF st
    <3> QED
      BY <3>1, <3>2, FormOnDisk DEF SaveTo
  <2>2. CASE latest = NoSession
    <3> DEFINE st == [mem[s] EXCEPT !.addr = TRUE]
    <3>1. st \in WizardState /\ mem[s].secret = st.secret /\ st.sid = mem[s].sid
      BY DEF TypeOK, WizardState
    <3>2. SaveTo(s, st) /\ UNCHANGED apiVars
      BY <1>1, <2>2 DEF WizardIndex
    <3> HIDE DEF st
    <3> QED
      BY <3>1, <3>2, FormOnDisk DEF SaveTo
  <2> QED  BY <2>1, <2>2
<1>2. CASE Step1FirstRun(s)
  <2> DEFINE st == [mem[s] EXCEPT !.addr = TRUE, !.sid = handshakes + 1]
  <2>1. /\ UNCHANGED <<inflight, apiSecret>> /\ handshakes + 1 \in ApiSids
        /\ apiSession' = handshakes + 1
    BY <1>2, BoundAssumption DEF Step1FirstRun, IssueSession, TypeOK, ApiSids
  <2>2. st \in WizardState /\ mem[s].secret = st.secret
    BY <2>1 DEF TypeOK, WizardState
  <2>3. \A t \in Sessions : mem[t].sid # handshakes + 1
    BY DEF SInv, SidInv, TypeOK, WizardState, ApiSids
  <2>4. CASE UNCHANGED <<mem, progress>>
    BY <2>1, <2>3, <2>4 DEF DiskInv, OnDisk, Holder
  <2>5. CASE SaveTo(s, st)
    <3> HIDE DEF st
    <3>1. ToDisk(s, st) /\ mem' = [mem EXCEPT ![s] = st]
      BY <2>5 DEF SaveTo
    <3>2. progress[s].secret \in {None, st.secret}
      BY <2>2 DEF DiskInv
    <3> QED
      BY <2>1, <2>2, <2>3, <3>1, <3>2, SaveOnDisk
  <2> QED
    BY <1>2, <2>4, <2>5 DEF Step1FirstRun
<1>3. CASE Step1Rerun(s)
  <2>1. PICK cfg \in Configs :
          SaveTo(s, [addr |-> TRUE, sid |-> None, secret |-> env, cfg |-> cfg])
    BY <1>3 DEF Step1Rerun, MergeCurrent, TypeOK, WizardState
  <2> DEFINE st == [addr |-> TRUE, sid |-> None, secret |-> env, cfg |-> cfg]
  <2>2. st \in WizardState /\ st.sid = None
    BY NoneIsTyped DEF TypeOK, WizardState
  <2>3. /\ apiSecret # None => st.secret = apiSecret
        /\ \A req \in inflight : req.secret # None => st.secret = req.secret
    BY <1>3 DEF Step1Rerun, RerunMode, SInv, SecretsAgree, LateInv
  <2> HIDE DEF st
  <2>4. ToDisk(s, st) /\ mem' = [mem EXCEPT ![s] = st]
    BY <2>1 DEF SaveTo, st
  <2>5. inflight' = inflight /\ apiSecret' = apiSecret /\ apiSession' = apiSession
    BY <1>3 DEF Step1Rerun, apiVars
  <2> QED
    BY <2>2, <2>3, <2>4, <2>5, SaveOnDisk DEF Holder
<1>4. ASSUME NEW c \in Configs, EditStep(s, c) PROVE DiskInv'
  <2> DEFINE st == [mem[s] EXCEPT !.cfg = c]
  <2>1. st \in WizardState /\ mem[s].secret = st.secret /\ st.sid = mem[s].sid
    BY DEF TypeOK, WizardState
  <2>2. CASE mem' = [mem EXCEPT ![s].cfg = c] /\ UNCHANGED progress
    <3>1. \A t \in Sessions : mem'[t].secret = mem[t].secret /\ mem'[t].sid = mem[t].sid
      BY <2>2 DEF TypeOK, WizardState
    <3> QED
      BY <1>4, <2>2, <3>1 DEF EditStep, DiskInv, Holder, OnDisk, apiVars
  <2>3. CASE ToDisk(s, st) /\ Show(s, st)
    <3>1. UNCHANGED apiVars
      BY <1>4 DEF EditStep
    <3> HIDE DEF st
    <3> QED  BY <2>1, <2>3, <3>1, FormOnDisk
  <2> QED
    BY <1>4, <2>2, <2>3 DEF EditStep
<1>5. ASSUME NEW c \in Configs, NEW remote \in BOOLEAN, Step2Database(s, c, remote)
      PROVE  DiskInv'
  <2> DEFINE mint == remote /\ mem[s].secret = None
             k == IF mint THEN minted + 1 ELSE mem[s].secret
             st == [mem[s] EXCEPT !.cfg = c, !.secret = k]
  <2>1. k \in Secrets
    <3>1. mint => minted < MaxSecrets
      BY <1>5 DEF Step2Database
    <3>2. minted \in 0 .. MaxSecrets /\ mem[s].secret \in 0 .. MaxSecrets
      BY DEF TypeOK, Secrets, WizardState
    <3> HIDE DEF mint
    <3> QED
      BY <3>1, <3>2, BoundAssumption DEF Secrets
  <2>2. mem[s].secret \in {None, k}
    OBVIOUS
  <2>3. ToDisk(s, st) /\ Show(s, st) /\ UNCHANGED apiVars
    BY <1>5 DEF Step2Database
  <2> HIDE DEF k
  <2>4. st \in WizardState /\ st.secret = k /\ st.sid = mem[s].sid
    BY <2>1 DEF TypeOK, WizardState
  <2> HIDE DEF st
  <2> QED
    BY <2>2, <2>3, <2>4, FormOnDisk
<1>6. CASE OpenPage(s)
  <2>1. PICK n \in {mem[s], FromFiles(mem[s])} : mem' = [mem EXCEPT ![s] = n]
    BY <1>6 DEF OpenPage, Show
  <2>2. /\ mem[s].secret \in {None, n.secret}
        /\ n.sid = mem[s].sid
        /\ Holder(s) => n.secret = mem[s].secret
    BY FilesGiveHolderNothing DEF TypeOK
  <2>3. /\ mem'[s] = n /\ \A t \in Sessions : t # s => mem'[t] = mem[t]
        /\ UNCHANGED <<progress, apiSession, apiSecret, inflight>>
    BY <1>6, <2>1 DEF OpenPage, TypeOK, apiVars
  <2>4. \A t \in Sessions : Holder(t)' <=> Holder(t)
    BY <2>2, <2>3 DEF Holder
  <2> QED
    BY <2>2, <2>3, <2>4 DEF DiskInv, OnDisk
<1> QED
  BY <1>1, <1>2, <1>3, <1>4, <1>5, <1>6

\* What a request carries is on disk when it is sent: the holder's by its own
\* progress file, and what the API knows already by another.
LEMMA AppliesOnDisk ==
  ASSUME TypeOK, SInv, DiskInv, NEW s \in Sessions,
         ApplyAccepted(s) \/ ApplyReplyLost(s) \/ ApplyTimesOut(s) \/ ApplyRefused(s)
           \/ ApplyGone(s)
  PROVE  DiskInv'
<1>1. UNCHANGED <<mem, progress, apiSession>>
  BY DEF ApplyAccepted, ApplyReplyLost, ApplyTimesOut, ApplyRefused, ApplyGone, stateVars,
     Adopt, apiVars
<1>2. Authorized(mem[s]) => mem[s].secret = None \/ OnDisk(mem[s].secret)
  BY DEF Authorized, SInv, ApiInv, DiskInv, Holder, OnDisk
<1>3. /\ apiSecret' # apiSecret => apiSecret' = mem[s].secret /\ Authorized(mem[s])
      /\ inflight' # inflight => inflight' = {Payload(mem[s])} /\ Authorized(mem[s])
  BY DEF ApplyAccepted, ApplyReplyLost, ApplyTimesOut, ApplyRefused, ApplyGone, apiVars, Adopt,
     Payload
<1>4. Payload(mem[s]).secret = mem[s].secret
  BY DEF Payload
<1> QED
  BY <1>1, <1>2, <1>3, <1>4 DEF DiskInv, OnDisk, Holder

LEMMA DiskInvKept ==
  ASSUME FilesLast, TypeOK, SInv, DiskInv, [Next]_vars PROVE DiskInv'
<1>1. CASE UNCHANGED <<mem, progress, apiSession, apiSecret, inflight>>
  BY <1>1 DEF DiskInv, OnDisk, Holder
<1>2. CASE Operator
  <2>1. CASE Step1Pin \/ CustomisePages
             \/ \E f \in ConfFiles, c \in Configs : AdminEditLocal(f, c)
    BY <1>1, <2>1 DEF Step1Pin, CustomisePages, AdminEditLocal, stateVars, apiVars
  <2>2. CASE \E c \in Configs : AdminEditApi(c)
    BY <2>2 DEF AdminEditApi, ApiStarts, stateVars, DiskInv, OnDisk, Holder
  <2> QED
    BY <1>2, <2>1, <2>2, FormsOnDisk, AppliesOnDisk DEF Operator
<1>3. CASE SaveFinal
  <2>1. job # Idle /\ SaveTo(job.s, mem[job.s]) /\ UNCHANGED apiVars
    BY <1>3 DEF SaveFinal, Idle
  <2>2. job.s \in Sessions /\ mem[job.s] \in WizardState
    BY <2>1, JobTyped
  <2> QED
    BY <2>1, <2>2, FormOnDisk DEF SaveTo
<1>4. CASE Preflight \/ WriteStep \/ UNCHANGED vars
  BY <1>1, <1>4 DEF Preflight, WriteStep, vars, stateVars, apiVars
<1>5. CASE RestartApi \/ ApiRestart \/ ApiReset
  BY <1>5 DEF RestartApi, ApiRestart, ApiReset, ApiStarts, stateVars, DiskInv, OnDisk, Holder
<1>6. CASE Restart
  <2>1. progress' = progress /\ mem' = progress
    BY <1>6 DEF Restart, FilesLast, TypeOK
  <2> QED
    BY <1>6, <2>1 DEF Restart, apiVars, DiskInv, OnDisk, Holder
<1>7. CASE LateLand
  BY <1>7 DEF LateLand, Adopt, stateVars, DiskInv, OnDisk, Holder
<1> QED
  BY <1>2, <1>3, <1>4, <1>5, <1>6, <1>7 DEF Next, ApplySteps, Environment

\* As long as progress files are written and kept, the secret the API enforces
\* can be found on this host after every crash, failed write and lost answer.
THEOREM SecretAlwaysKnownHere == ASSUME FilesLast PROVE Spec => []SecretKnownHere
<1>1. TypeOK /\ SInv /\ DiskInv /\ [Next]_vars => DiskInv'
  BY DiskInvKept
<1>2. DiskInv => SecretKnownHere
  BY DEF DiskInv, OnDisk, SecretKnownHere
<1> QED
  BY DiskInvInit, TypeCorrect, InvariantHolds, <1>1, <1>2, PTL DEF Spec

-----------------------------------------------------------------------------
(* An administrator's pages.json *)

LEMMA StepsKeepPages ==
  ASSUME pages = "custom", job # Idle, Next PROVE pages' = "custom"
<1>1. CASE Operator
  BY <1>1 DEF Operator, Step1Pin, CustomisePages, AdminEditApi, AdminEditLocal, WizardIndex, OpenPage,
     Step1FirstRun, Step1Rerun, EditStep, Step2Database, ApplyAccepted, ApplyReplyLost,
     ApplyTimesOut, ApplyRefused, ApplyGone, fileVars
<1>2. CASE ApplySteps
  BY <1>2 DEF ApplySteps, Preflight, WriteStep, WriteFile, TearFile, SaveFinal, RestartApi,
     fileVars
<1>3. CASE Environment
  BY <1>3 DEF Environment, Restart, TearFile, ApiRestart, ApiReset, LateLand, fileVars
<1> QED
  BY <1>1, <1>2, <1>3 DEF Next

\* Whatever file an Apply has come to, and however its writes end, the page visibility an
\* administrator chose is still there (wizard_apply, write_pages_json).
THEOREM PagesAlwaysKept == Spec => PagesKept
<1>1. [Next]_vars => [pages = "custom" /\ job # Idle => pages' = "custom"]_vars
  BY StepsKeepPages
<1> QED
  BY <1>1, PTL DEF Spec, PagesKept
=============================================================================
