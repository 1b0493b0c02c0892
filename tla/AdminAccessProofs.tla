------------------------- MODULE AdminAccessProofs -------------------------
(***************************************************************************)
(* The safety properties of AdminAccess for any accounts, tabs, bounds and *)
(* faults: type correctness, whole credentials, sessions that neither come *)
(* back nor get lost, a way in, and one account per bootstrap token.       *)
(***************************************************************************)
EXTENDS AdminAccess, TLAPS

\* A request that is to store credentials has an account; only a running service has a
\* request between two file accesses.
JobHasAccount == job.pc \in {"unset", "read", "write"} => job.who \in Accounts
JobRuns       == job # Idle => running

-----------------------------------------------------------------------------
(* Types.                                                                  *)

LEMMA ConstantsTyped ==
    /\ None \in Tokens /\ 0 \in 0..MaxSessions /\ 0 \in 0..MaxResets
    /\ EmptyFile \in SecretsFile /\ Idle \in Jobs
<1>1. None \in Tokens /\ 0 \in 0..MaxSessions /\ 0 \in 0..MaxResets
  BY AccessBounds DEF None, Tokens
<1>2. EmptyFile \in SecretsFile
  BY <1>1 DEF EmptyFile, SecretsFile
<1> QED
  BY <1>1, <1>2 DEF Idle, Jobs

\* A write of secrets.env by the service, done or failed.
LEMMA ServerWritesTyped ==
    ASSUME TypeOK, NEW content \in SecretsFile, NEW next \in Jobs, ServerWrites(content, next)
    PROVE  file' \in SecretsFile /\ job' \in Jobs /\ rough' \in BOOLEAN
<1>1. Rewritten(content.user) \subseteq Accounts \cup {NoAccount, Spoilt}
  BY AccountAssumption DEF Rewritten, SecretsFile
<1>2. \A name \in Rewritten(content.user) : [content EXCEPT !.user = name] \in SecretsFile
  BY <1>1 DEF SecretsFile
<1> QED
  BY <1>2, ConstantsTyped DEF ServerWrites, TypeOK

\* What is in the file after it: the name may read as another.
LEMMA ServerWritesContent ==
    ASSUME NEW content \in SecretsFile, NEW next, ServerWrites(content, next)
    PROVE  \/ /\ file'.hash = content.hash /\ file'.token = content.token
              /\ file'.user \in Rewritten(content.user)
              /\ job' = next /\ rough' = rough
           \/ rough' = TRUE /\ file' \in {file, EmptyFile} /\ job' = Idle
<1>1. \A name : LET new == [content EXCEPT !.user = name] IN
          new.user = name /\ new.hash = content.hash /\ new.token = content.token
  BY DEF SecretsFile
<1> QED
  BY <1>1 DEF ServerWrites

\* What each of the three writers in the service hands to it.
LEMMA WritersContent ==
    ASSUME TypeOK
    PROVE  /\ LET c == [job.snap EXCEPT !.token = None] IN
                  c \in SecretsFile /\ c.user = job.snap.user /\ c.hash = job.snap.hash
                  /\ c.token = None
           /\ LET c == [job.snap EXCEPT !.user = job.who, !.hash = job.who] IN
                  c \in SecretsFile /\ c.user = job.who /\ c.hash = job.who
                  /\ c.token = job.snap.token
           /\ \A b \in BOOLEAN : LET c == [job.snap EXCEPT !.proxy = b] IN
                  c \in SecretsFile /\ c.user = job.snap.user /\ c.hash = job.snap.hash
                  /\ c.token = job.snap.token
BY ConstantsTyped DEF TypeOK, Jobs, SecretsFile

LEMMA PersistTyped ==
    ASSUME TypeOK, PersistSessions, sessions' \in SUBSET SessionIds
    PROVE  saved' \in SUBSET SessionIds /\ rough' \in BOOLEAN
BY DEF PersistSessions, TypeOK

LEMMA CreateTyped ==
    ASSUME TypeOK, CreateSession
    PROVE  /\ sessions' \in SUBSET SessionIds /\ saved' \in SUBSET SessionIds
           /\ issued' \in 0..MaxSessions /\ rough' \in BOOLEAN
           /\ expired' = expired /\ out' = out
<1>1. issued \in 0..MaxSessions /\ issued < MaxSessions /\ issued' = issued + 1
  BY DEF CreateSession, TypeOK
<1>2. MaxSessions \in Nat
  BY AccessBounds
<1>3. issued' \in 0..MaxSessions /\ issued + 1 \in SessionIds
  BY <1>1, <1>2 DEF SessionIds
<1>4. sessions' \in SUBSET SessionIds
  BY <1>3 DEF CreateSession, TypeOK
<1> QED
  BY <1>3, <1>4, PersistTyped DEF CreateSession

\* Steps that only the service's start, a crash or a session makes.
LEMMA StartTyped ==
    ASSUME TypeOK, Start
    PROVE  TypeOK'
<1>1. running' \in BOOLEAN /\ rough' \in BOOLEAN
  BY DEF Start, TypeOK
<1>2. sessions' \in SUBSET SessionIds
  BY DEF Start, TypeOK
<1>3. file' \in SecretsFile /\ token' \in Tokens /\ tokens' \in Tokens
  <2>1. CASE file.user # NoAccount
    BY <2>1, ConstantsTyped DEF Start, TypeOK
  <2>2. CASE file.user = NoAccount /\ file.token # None
    BY <2>2 DEF Start, TypeOK, SecretsFile
  <2>3. CASE file.user = NoAccount /\ file.token = None
    <3>1. tokens < MaxTokens /\ tokens' = tokens + 1 /\ token' = tokens + 1
          /\ file' = [file EXCEPT !.token = tokens + 1]
      BY <2>3 DEF Start
    <3>2. tokens + 1 \in Tokens
      BY <3>1, AccessBounds DEF TypeOK, Tokens
    <3> QED
      BY <3>1, <3>2 DEF TypeOK, SecretsFile
  <2> QED
    BY <2>1, <2>2, <2>3
<1> QED
  BY <1>1, <1>2, <1>3 DEF Start, TypeOK

LEMMA CrashTyped ==
    ASSUME TypeOK, Crash
    PROVE  TypeOK'
<1>1. file' \in SecretsFile
  BY ConstantsTyped DEF Crash, TypeOK
<1>2. running' \in BOOLEAN
  BY DEF Crash
<1> QED
  BY <1>1, <1>2, ConstantsTyped DEF Crash, TypeOK, cliVars

LEMMA SessionStepsTyped ==
    ASSUME TypeOK, SessionSteps
    PROVE  TypeOK'
<1>1. ASSUME NEW a \in Accounts, Login(a) PROVE TypeOK'
  BY <1>1, CreateTyped DEF Login, TypeOK, accessVars
<1>2. ASSUME NEW s \in SessionIds, Logout(s) PROVE TypeOK'
  <2>1. sessions' \in SUBSET SessionIds /\ out' \in SUBSET SessionIds
    BY <1>2 DEF Logout, TypeOK
  <2>2. saved' \in SUBSET SessionIds /\ rough' \in BOOLEAN
    BY <1>2, <2>1, PersistTyped DEF Logout
  <2> QED
    BY <1>2, <2>1, <2>2 DEF Logout, TypeOK, accessVars
<1>3. ASSUME NEW s \in SessionIds, Age(s) PROVE TypeOK'
  BY <1>3 DEF Age, TypeOK, accessVars, cliVars
<1>4. ASSUME NEW s \in SessionIds, ExpireSession(s) PROVE TypeOK'
  <2>1. sessions' \in SUBSET SessionIds
    BY <1>4 DEF ExpireSession, TypeOK
  <2>2. saved' \in SUBSET SessionIds /\ rough' \in BOOLEAN
    BY <1>4, <2>1, PersistTyped DEF ExpireSession
  <2> QED
    BY <1>4, <2>1, <2>2 DEF ExpireSession, TypeOK, accessVars
<1> QED
  BY <1>1, <1>2, <1>3, <1>4 DEF SessionSteps

LEMMA BootstrapTyped ==
    ASSUME TypeOK, JobHasAccount, Bootstrap
    PROVE  TypeOK'
<1>1. ASSUME NEW p \in Post, BootstrapCheck(p) PROVE TypeOK'
  <2>1. rough' \in BOOLEAN
    BY <1>1 DEF BootstrapCheck, TypeOK
  <2> QED
    BY <1>1, <2>1 DEF BootstrapCheck, TypeOK, sessVars
<1>2. ASSUME NEW p \in posts, BootstrapInvalid(p) PROVE TypeOK'
  BY <1>2 DEF BootstrapInvalid, TypeOK, sessVars, cliVars
<1>3. ASSUME NEW p \in posts, BootstrapConsume(p) PROVE TypeOK'
  <2>1. p \in Post /\ p.who \in Accounts /\ p.token \in Tokens
    BY DEF TypeOK, Post
  <2>2. job' \in Jobs /\ token' \in Tokens /\ posts' \in SUBSET Post
    BY <1>3, <2>1, ConstantsTyped DEF BootstrapConsume, TypeOK, Jobs
  <2> QED
    BY <1>3, <2>2 DEF BootstrapConsume, TypeOK, sessVars, cliVars
<1>4. ASSUME UnsetToken PROVE TypeOK'
  <2>1. [job.snap EXCEPT !.token = None] \in SecretsFile /\ [job EXCEPT !.pc = "read"] \in Jobs
    BY ConstantsTyped DEF TypeOK, Jobs, SecretsFile
  <2>2. file' \in SecretsFile /\ job' \in Jobs /\ rough' \in BOOLEAN
    BY <1>4, <2>1, ServerWritesTyped DEF UnsetToken
  <2> QED
    BY <1>4, <2>2 DEF UnsetToken, TypeOK, sessVars
<1>5. ASSUME ReadSecrets PROVE TypeOK'
  <2>1. job' \in Jobs
    BY <1>5 DEF ReadSecrets, TypeOK, Jobs
  <2> QED
    BY <1>5, <2>1 DEF ReadSecrets, TypeOK, sessVars, cliVars
<1>6. ASSUME WriteCredentials PROVE TypeOK'
  <2>1. job.who \in Accounts \cup {NoAccount}
    BY DEF TypeOK, Jobs
  <2>2. [job.snap EXCEPT !.user = job.who, !.hash = job.who] \in SecretsFile
    BY <2>1 DEF TypeOK, Jobs, SecretsFile
  <2>3. [job EXCEPT !.pc = "enter"] \in Jobs
    BY DEF TypeOK, Jobs
  <2>4. file' \in SecretsFile /\ job' \in Jobs /\ rough' \in BOOLEAN
    BY <1>6, <2>2, <2>3, ServerWritesTyped DEF WriteCredentials
  <2>5. job.who \in Accounts /\ job.token \in Tokens
    BY <1>6 DEF WriteCredentials, JobHasAccount, TypeOK, Jobs
  <2>6. used' \in [Tokens -> SUBSET Accounts]
    BY <1>6, <2>5 DEF WriteCredentials, TypeOK
  <2> QED
    BY <1>6, <2>4, <2>6 DEF WriteCredentials, TypeOK, sessVars
<1>7. ASSUME EnterSession PROVE TypeOK'
  BY <1>7, CreateTyped, ConstantsTyped DEF EnterSession, TypeOK
<1> QED
  BY <1>1, <1>2, <1>3, <1>4, <1>5, <1>6, <1>7 DEF Bootstrap

LEMMA OtherWritersTyped ==
    ASSUME TypeOK, OtherWriters
    PROVE  TypeOK'
<1>1. CASE ApplyReadsSecrets
  <2>1. job' \in Jobs
    BY <1>1, ConstantsTyped DEF ApplyReadsSecrets, TypeOK, Jobs
  <2> QED
    BY <1>1, <2>1 DEF ApplyReadsSecrets, TypeOK, sessVars, cliVars
<1>2. CASE ApplyWritesSecrets
  <2>1. PICK b \in BOOLEAN : ServerWrites([job.snap EXCEPT !.proxy = b], Idle)
    BY <1>2 DEF ApplyWritesSecrets
  <2>2. [job.snap EXCEPT !.proxy = b] \in SecretsFile
    BY DEF TypeOK, Jobs, SecretsFile
  <2>3. file' \in SecretsFile /\ job' \in Jobs /\ rough' \in BOOLEAN
    BY <2>1, <2>2, ConstantsTyped, ServerWritesTyped
  <2> QED
    BY <1>2, <2>3 DEF ApplyWritesSecrets, TypeOK, sessVars
<1>3. CASE CliReads
  <2>1. rough' \in BOOLEAN
    BY <1>3 DEF CliReads, TypeOK
  <2>2. resets' \in 0..MaxResets
    BY <1>3, AccessBounds DEF CliReads, TypeOK
  <2> QED
    BY <1>3, <2>1, <2>2 DEF CliReads, TypeOK, accessVars, sessVars
<1>4. CASE CliWrites
  <2>1. \A snap \in cli : [snap EXCEPT !.user = NoAccount, !.hash = NoAccount] \in SecretsFile
    BY DEF TypeOK, SecretsFile
  <2>2. file' \in SecretsFile /\ cli' \in SUBSET SecretsFile
    BY <1>4, <2>1, ConstantsTyped DEF CliWrites
  <2> QED
    BY <1>4, <2>2 DEF CliWrites, TypeOK, accessVars, sessVars
<1> QED
  BY <1>1, <1>2, <1>3, <1>4 DEF OtherWriters

\* Credentials, the request in hand and the service's state: who may have a request.
LEMMA JobKept ==
    ASSUME TypeOK, JobHasAccount, JobRuns, [Next]_vars
    PROVE  JobHasAccount' /\ JobRuns'
<1> USE DEF JobHasAccount, JobRuns
<1>1. Idle.pc = "idle"
  BY DEF Idle
<1>2. CASE Start
  BY <1>2 DEF Start
<1>3. CASE Crash
  BY <1>1, <1>3 DEF Crash
<1>4. CASE SessionSteps
  BY <1>4 DEF SessionSteps, Login, Logout, Age, ExpireSession, accessVars
<1>5. CASE Bootstrap
  <2>1. ASSUME NEW p \in Post, BootstrapCheck(p) PROVE UNCHANGED <<job, running>>
    BY <2>1 DEF BootstrapCheck
  <2>2. ASSUME NEW p \in posts, BootstrapInvalid(p) PROVE UNCHANGED <<job, running>>
    BY <2>2 DEF BootstrapInvalid
  <2>3. ASSUME NEW p \in posts, BootstrapConsume(p) PROVE JobHasAccount' /\ JobRuns'
    <3>1. p.who \in Accounts
      BY DEF TypeOK, Post
    <3> QED
      BY <2>3, <3>1 DEF BootstrapConsume, Ready
  <2>4. ASSUME UnsetToken \/ WriteCredentials PROVE JobHasAccount' /\ JobRuns'
    <3>1. running /\ running' = running
      BY <1>1, <2>4 DEF UnsetToken, WriteCredentials
    <3>2. \/ job' = Idle
          \/ job' = [job EXCEPT !.pc = "read"] /\ job.pc = "unset"
          \/ job' = [job EXCEPT !.pc = "enter"]
      BY <2>4 DEF UnsetToken, WriteCredentials, ServerWrites
    <3>3. JobRuns'
      BY <3>1
    <3>4. job'.pc \in {"idle", "enter"} \/ (job'.pc = "read" /\ job.pc = "unset" /\ job'.who = job.who)
      BY <1>1, <3>2 DEF TypeOK, Jobs
    <3>5. JobHasAccount'
      BY <3>4
    <3> QED
      BY <3>3, <3>5
  <2>5. ASSUME ReadSecrets PROVE JobHasAccount' /\ JobRuns'
    BY <1>1, <2>5 DEF ReadSecrets, TypeOK, Jobs
  <2>6. ASSUME EnterSession PROVE JobHasAccount' /\ JobRuns'
    BY <1>1, <2>6 DEF EnterSession
  <2> QED
    BY <1>5, <2>1, <2>2, <2>3, <2>4, <2>5, <2>6 DEF Bootstrap
<1>6. CASE OtherWriters
  <2>1. CASE ApplyReadsSecrets
    BY <2>1 DEF ApplyReadsSecrets, Ready, Idle
  <2>2. CASE ApplyWritesSecrets
    BY <1>1, <2>2 DEF ApplyWritesSecrets, ServerWrites
  <2>3. CASE CliReads \/ CliWrites
    BY <2>3 DEF CliReads, CliWrites, accessVars
  <2> QED
    BY <1>6, <2>1, <2>2, <2>3 DEF OtherWriters
<1>7. CASE UNCHANGED vars
  BY <1>7 DEF vars, accessVars
<1> QED
  BY <1>2, <1>3, <1>4, <1>5, <1>6, <1>7 DEF Next

LEMMA NextTyped ==
    ASSUME TypeOK, JobHasAccount, [Next]_vars
    PROVE  TypeOK'
<1>1. CASE UNCHANGED vars
  BY <1>1 DEF vars, accessVars, sessVars, cliVars, TypeOK
<1> QED
  BY <1>1, StartTyped, CrashTyped, SessionStepsTyped, BootstrapTyped, OtherWritersTyped DEF Next

-----------------------------------------------------------------------------
(* Credentials.                                                            *)

\* A file whose username and hash belong together, but for a name spoilt on its way.
Whole(f) == f.user = f.hash \/ (f.user = Spoilt /\ f.hash \in Quoted)

\* So have the file and every copy that is to be written back.
AllWhole == Whole(file) /\ Whole(job.snap) /\ \A snap \in cli : Whole(snap)

LEMMA RewrittenWhole ==
    ASSUME NEW content \in SecretsFile, NEW next, Whole(content), AllWhole,
           ServerWrites(content, next)
    PROVE  Whole(file)'
<1>1. Whole(EmptyFile)
  BY DEF Whole, EmptyFile
<1>2. content.hash # Spoilt
  BY SpoiltAssumption DEF SecretsFile
<1>3. CASE file'.hash = content.hash /\ file'.user \in Rewritten(content.user)
  BY <1>2, <1>3 DEF Whole, Rewritten
<1> QED
  BY <1>1, <1>3, ServerWritesContent DEF AllWhole, Whole

\* Nobody but bootstrap_post and the command line sets either key, and they set both.
LEMMA AllWholeKept ==
    ASSUME TypeOK, AllWhole, [Next]_vars
    PROVE  AllWhole'
<1> USE DEF AllWhole, Whole
<1>1. Whole(EmptyFile) /\ Whole(Idle.snap)
  BY DEF EmptyFile, Idle
<1>2. CASE Start
  BY <1>2 DEF Start, TypeOK, SecretsFile
<1>3. CASE Crash
  BY <1>1, <1>3 DEF Crash, cliVars
<1>4. CASE SessionSteps
  BY <1>4 DEF SessionSteps, Login, Logout, Age, ExpireSession, accessVars, cliVars
<1>5. CASE Bootstrap
  <2>1. ASSUME NEW p \in Post, BootstrapCheck(p) PROVE AllWhole'
    BY <2>1 DEF BootstrapCheck
  <2>2. ASSUME NEW p \in posts, BootstrapInvalid(p) PROVE AllWhole'
    BY <2>2 DEF BootstrapInvalid, cliVars
  <2>3. ASSUME NEW p \in posts, BootstrapConsume(p) PROVE AllWhole'
    BY <2>3 DEF BootstrapConsume, cliVars
  <2>4. CASE UnsetToken
    <3>1. Whole(file)'
      BY <2>4, WritersContent, RewrittenWhole DEF UnsetToken
    <3>2. job' = Idle \/ job'.snap = job.snap
      BY <2>4 DEF UnsetToken, ServerWrites, TypeOK, Jobs
    <3> QED
      BY <1>1, <2>4, <3>1, <3>2 DEF UnsetToken
  <2>5. CASE ReadSecrets
    BY <2>5 DEF ReadSecrets, TypeOK, Jobs, cliVars
  <2>6. CASE WriteCredentials
    <3>1. Whole(file)'
      BY <2>6, WritersContent, RewrittenWhole DEF WriteCredentials
    <3>2. job' = Idle \/ job'.snap = job.snap
      BY <2>6 DEF WriteCredentials, ServerWrites, TypeOK, Jobs
    <3> QED
      BY <1>1, <2>6, <3>1, <3>2 DEF WriteCredentials
  <2>7. CASE EnterSession
    BY <1>1, <2>7 DEF EnterSession
  <2> QED
    BY <1>5, <2>1, <2>2, <2>3, <2>4, <2>5, <2>6, <2>7 DEF Bootstrap
<1>6. CASE OtherWriters
  <2>1. CASE ApplyReadsSecrets
    BY <2>1 DEF ApplyReadsSecrets, Idle, cliVars
  <2>2. CASE ApplyWritesSecrets
    <3>1. Whole(file)'
      BY <2>2, WritersContent, RewrittenWhole DEF ApplyWritesSecrets
    <3>2. job' = Idle
      BY <2>2 DEF ApplyWritesSecrets, ServerWrites
    <3> QED
      BY <1>1, <2>2, <3>1, <3>2 DEF ApplyWritesSecrets
  <2>3. CASE CliReads
    BY <2>3 DEF CliReads, accessVars
  <2>4. CASE CliWrites
    <3>1. \A snap \in cli : Whole([snap EXCEPT !.user = NoAccount, !.hash = NoAccount])
      BY DEF TypeOK, SecretsFile
    <3> QED
      BY <1>1, <2>4, <3>1 DEF CliWrites, accessVars
  <2> QED
    BY <1>6, <2>1, <2>2, <2>3, <2>4 DEF OtherWriters
<1>7. CASE UNCHANGED vars
  BY <1>7 DEF vars, accessVars, cliVars
<1> QED
  BY <1>2, <1>3, <1>4, <1>5, <1>6, <1>7 DEF Next

-----------------------------------------------------------------------------
(* What holds as long as nothing is rough.                                 *)

LEMMA RoughStays ==
    ASSUME rough, [Next]_vars
    PROVE  rough'
<1>1. CASE Start
  BY <1>1 DEF Start
<1>2. CASE Crash
  BY <1>2 DEF Crash, cliVars
<1>3. CASE SessionSteps
  BY <1>3 DEF SessionSteps, Login, Logout, Age, ExpireSession, CreateSession, PersistSessions, cliVars
<1>4. CASE Bootstrap
  BY <1>4 DEF Bootstrap, BootstrapCheck, BootstrapInvalid, BootstrapConsume, UnsetToken, ReadSecrets,
              WriteCredentials, EnterSession, ServerWrites, CreateSession, PersistSessions, cliVars
<1>5. CASE OtherWriters
  BY <1>5 DEF OtherWriters, ApplyReadsSecrets, ApplyWritesSecrets, CliReads, CliWrites, ServerWrites,
              cliVars
<1>6. CASE UNCHANGED vars
  BY <1>6 DEF vars, cliVars
<1> QED
  BY <1>1, <1>2, <1>3, <1>4, <1>5, <1>6 DEF Next

\* Where a live session is kept.
Live == IF running THEN sessions ELSE saved

\* Memory is never ahead of sessions.json, a logged-out session is in neither, and an
\* issued one is where the service has its sessions.
SessionsInStep ==
    /\ sessions \subseteq saved
    /\ out \subseteq 1..issued
    /\ out \cap saved = {}
    /\ 1..issued \subseteq expired \cup out \cup Live

LEMMA CreateInStep ==
    ASSUME TypeOK, SessionsInStep, running, running' = running, CreateSession, ~rough'
    PROVE  SessionsInStep'
<1>1. issued \in Nat /\ issued' = issued + 1 /\ sessions' = sessions \cup {issued + 1}
      /\ saved' = sessions' /\ expired' = expired /\ out' = out
  BY AccessBounds DEF CreateSession, PersistSessions, TypeOK
<1>2. 1..issued' = (1..issued) \cup {issued + 1} /\ issued + 1 \notin 1..issued
  BY <1>1
<1>3. Live = sessions /\ Live' = sessions'
  BY DEF Live
<1> QED
  BY <1>1, <1>2, <1>3 DEF SessionsInStep

\* A session that is deleted, because of its logout or its age.
LEMMA DeleteInStep ==
    ASSUME TypeOK, SessionsInStep, running, running' = running, NEW s \in SessionIds,
           sessions' = sessions \ {s}, saved' = sessions', issued' = issued, expired' = expired,
           \/ out' = out \cup {s} /\ s <= issued
           \/ out' = out /\ s \in expired
    PROVE  SessionsInStep'
<1>1. Live = sessions /\ Live' = sessions'
  BY DEF Live
<1>2. s <= issued => s \in 1..issued
  BY AccessBounds DEF TypeOK, SessionIds
<1> QED
  BY <1>1, <1>2 DEF SessionsInStep

LEMMA SessionsInStepKept ==
    ASSUME TypeOK, JobRuns, SessionsInStep, [Next]_vars, ~rough'
    PROVE  SessionsInStep'
<1>1. CASE UNCHANGED <<sessVars, running>>
  BY <1>1 DEF sessVars, SessionsInStep, Live
<1>2. CASE Start
  BY <1>2 DEF Start, SessionsInStep, Live
<1>3. CASE Crash
  BY <1>3 DEF Crash, SessionsInStep, Live
<1>4. ASSUME NEW a \in Accounts, Login(a) PROVE SessionsInStep'
  BY <1>4, CreateInStep DEF Login, Ready
<1>5. ASSUME NEW s \in SessionIds, Logout(s) PROVE SessionsInStep'
  BY <1>5, DeleteInStep DEF Logout, Ready, PersistSessions
<1>6. ASSUME NEW s \in SessionIds, Age(s) PROVE SessionsInStep'
  BY <1>6 DEF Age, SessionsInStep, Live
<1>7. ASSUME NEW s \in SessionIds, ExpireSession(s) PROVE SessionsInStep'
  BY <1>7, DeleteInStep DEF ExpireSession, Ready, PersistSessions
<1>8. CASE EnterSession
  <2>1. running
    BY <1>8 DEF EnterSession, JobRuns, Idle
  <2> QED
    BY <1>8, <2>1, CreateInStep DEF EnterSession
<1>9. CASE Bootstrap /\ ~EnterSession
  <2>1. UNCHANGED <<sessVars, running>>
    BY <1>9 DEF Bootstrap, BootstrapCheck, BootstrapInvalid, BootstrapConsume, UnsetToken,
                ReadSecrets, WriteCredentials
  <2> QED
    BY <1>1, <2>1
<1>10. CASE OtherWriters
  <2>1. UNCHANGED <<sessVars, running>>
    BY <1>10 DEF OtherWriters, ApplyReadsSecrets, ApplyWritesSecrets, CliReads, CliWrites
  <2> QED
    BY <1>1, <2>1
<1> QED
  BY <1>1, <1>2, <1>3, <1>4, <1>5, <1>6, <1>7, <1>8, <1>9, <1>10 DEF Next, SessionSteps, vars
\* A service with no handler between two file accesses has a way in, and no handler
\* that is between two of them is about to close it.
WayIn ==
    running =>
        /\ cli = {}
        /\ job = Idle => file.user # NoAccount \/ token # None
        /\ job.pc = "secrets" => job.snap.user # NoAccount \/ token # None
        /\ job.pc = "enter" => file.user # NoAccount

LEMMA WayInKept ==
    ASSUME TypeOK, JobHasAccount, JobRuns, WayIn, [Next]_vars, ~rough'
    PROVE  WayIn'
<1> USE DEF WayIn
<1>1. Idle.pc = "idle"
  BY DEF Idle
<1>2. CASE Start
  <2>1. job' = Idle /\ cli' = {}
    BY <1>2 DEF Start, JobRuns
  <2>2. tokens + 1 # None
    BY DEF TypeOK, Tokens, None
  <2>3. file.user = NoAccount => token' # None
    BY <1>2, <2>2 DEF Start
  <2>4. file.user # NoAccount => file' = file
    BY <1>2 DEF Start
  <2> QED
    BY <1>1, <2>1, <2>3, <2>4, AccountAssumption
<1>3. CASE Crash
  BY <1>3 DEF Crash
<1>4. CASE SessionSteps
  BY <1>4 DEF SessionSteps, Login, Logout, Age, ExpireSession, accessVars, cliVars
<1>5. CASE Bootstrap
  <2>1. ASSUME NEW p \in Post, BootstrapCheck(p) PROVE WayIn'
    BY <2>1 DEF BootstrapCheck
  <2>2. ASSUME NEW p \in posts, BootstrapInvalid(p) PROVE WayIn'
    BY <2>2 DEF BootstrapInvalid, cliVars
  <2>3. ASSUME NEW p \in posts, BootstrapConsume(p) PROVE WayIn'
    BY <1>1, <2>3 DEF BootstrapConsume, cliVars, Ready
  <2>4. CASE UnsetToken
    <3>1. job'.pc = "read"
      BY <2>4 DEF UnsetToken, ServerWrites, TypeOK, Jobs
    <3> QED
      BY <1>1, <2>4, <3>1 DEF UnsetToken
  <2>5. CASE ReadSecrets
    <3>1. job'.pc = "write"
      BY <2>5 DEF ReadSecrets, TypeOK, Jobs
    <3> QED
      BY <1>1, <2>5, <3>1 DEF ReadSecrets, cliVars
  <2>6. CASE WriteCredentials
    <3>1. job' = [job EXCEPT !.pc = "enter"] /\ file'.user \in Rewritten(job.who)
      BY <2>6, WritersContent, ServerWritesContent DEF WriteCredentials
    <3>2. job'.pc = "enter"
      BY <3>1 DEF TypeOK, Jobs
    <3>3. job.who # NoAccount
      BY <2>6, AccountAssumption DEF WriteCredentials, JobHasAccount
    <3>4. file'.user # NoAccount
      BY <3>1, <3>3, SpoiltAssumption DEF Rewritten
    <3> QED
      BY <1>1, <2>6, <3>2, <3>4 DEF WriteCredentials
  <2>7. CASE EnterSession
    BY <1>1, <2>7 DEF EnterSession
  <2> QED
    BY <1>5, <2>1, <2>2, <2>3, <2>4, <2>5, <2>6, <2>7 DEF Bootstrap
<1>6. CASE OtherWriters
  <2>1. CASE ApplyReadsSecrets
    <3>1. job'.pc = "secrets" /\ job'.snap = file
      BY <2>1 DEF ApplyReadsSecrets, Idle
    <3> QED
      BY <1>1, <2>1, <3>1 DEF ApplyReadsSecrets, Ready, cliVars
  <2>2. CASE ApplyWritesSecrets
    <3>1. job' = Idle /\ file'.user \in Rewritten(job.snap.user)
      BY <2>2, WritersContent, ServerWritesContent DEF ApplyWritesSecrets
    <3>2. job.snap.user # NoAccount => file'.user # NoAccount
      BY <3>1, SpoiltAssumption DEF Rewritten
    <3> QED
      BY <1>1, <2>2, <3>1, <3>2 DEF ApplyWritesSecrets
  <2>3. CASE CliReads
    BY <2>3, <1>1 DEF CliReads, accessVars
  <2>4. CASE CliWrites
    BY <2>4, <1>1 DEF CliWrites, accessVars
  <2> QED
    BY <1>6, <2>1, <2>2, <2>3, <2>4 DEF OtherWriters
<1>7. CASE UNCHANGED vars
  BY <1>7 DEF vars, accessVars, cliVars
<1> QED
  BY <1>2, <1>3, <1>4, <1>5, <1>6, <1>7 DEF Next
\* A token that has set up nobody yet; None is never spent.
Fresh(k) == k = None \/ (k <= tokens /\ used[k] = {})

\* A token that is stored anywhere is fresh, and by the time its account is written no
\* copy of it is left: neither in memory, nor in secrets.env, nor in what is written back.
Once ==
    /\ TokenUsedOnce
    /\ \A k \in Tokens : used[k] # {} => k <= tokens
    /\ Fresh(file.token) /\ Fresh(token) /\ Fresh(job.snap.token)
    /\ \A snap \in cli : Fresh(snap.token)
    /\ running => cli = {}
    /\ ~running => posts = {}
    /\ \A p, q \in posts : p = q
    /\ \A p \in posts : p.token = token /\ token # None
    /\ job.pc \in {"unset", "read", "write"} => token = None /\ job.token # None /\ Fresh(job.token)
    /\ job.pc \in {"read", "write"} => file.token = None
    /\ job.pc = "write" => job.snap.token = None

LEMMA StartOnce ==
    ASSUME TypeOK, JobRuns, Once, Start, ~rough'
    PROVE  Once'
<1>1. job = Idle /\ job' = Idle /\ posts = {} /\ posts' = {} /\ used' = used /\ cli' = {}
  BY DEF Start, JobRuns, Once
<1>2. Idle.pc = "idle" /\ Idle.snap.token = None
  BY DEF Idle, EmptyFile
<1>3. TokenUsedOnce'
  BY <1>1 DEF Once, TokenUsedOnce
<1>4. CASE token' = None /\ UNCHANGED <<file, tokens>>
  BY <1>1, <1>2, <1>3, <1>4 DEF Once, Fresh
<1>5. CASE file.token # None /\ token' = file.token /\ UNCHANGED <<file, tokens>>
  BY <1>1, <1>2, <1>3, <1>5 DEF Once, Fresh
<1>6. CASE /\ tokens < MaxTokens /\ tokens' = tokens + 1 /\ token' = tokens + 1
           /\ file' = [file EXCEPT !.token = tokens + 1]
  <2>1. tokens \in Nat /\ tokens' \in Tokens /\ ~(tokens' <= tokens)
    BY <1>6, AccessBounds DEF TypeOK, Tokens
  <2>2. file'.token = tokens'
    BY <1>6 DEF TypeOK, SecretsFile
  <2>3. used[tokens'] = {}
    BY <2>1 DEF Once
  <2>4. \A k \in Tokens : k <= tokens => k <= tokens'
    BY <1>6, <2>1 DEF Tokens
  <2>5. Fresh(token)' /\ Fresh(file.token)' /\ Fresh(job.snap.token)'
    BY <1>1, <1>2, <1>6, <2>1, <2>2, <2>3 DEF Fresh
  <2> QED
    BY <1>1, <1>2, <1>3, <2>4, <2>5 DEF Once
<1> QED
  BY <1>4, <1>5, <1>6 DEF Start

\* A step that leaves the tokens, their accounts and the command line alone.
LEMMA FreshUnchanged ==
    ASSUME Once, UNCHANGED <<tokens, used>>
    PROVE  /\ TokenUsedOnce' /\ (\A k \in Tokens : used[k] # {} => k <= tokens)'
           /\ \A k : Fresh(k) => Fresh(k)'
BY DEF Once, TokenUsedOnce, Fresh

LEMMA BootstrapOnce ==
    ASSUME TypeOK, JobRuns, Once, Bootstrap, ~rough'
    PROVE  Once'
<1>1. Idle.pc = "idle" /\ Idle.snap.token = None /\ Fresh(None) /\ Fresh(None)'
  BY DEF Idle, EmptyFile, Fresh
<1>2. ASSUME NEW p \in Post, BootstrapCheck(p) PROVE Once'
  BY <1>2, FreshUnchanged DEF BootstrapCheck, Ready, Once, Fresh
<1>3. ASSUME NEW p \in posts, BootstrapInvalid(p) PROVE Once'
  BY <1>3, FreshUnchanged DEF BootstrapInvalid, cliVars, Ready, Once, Fresh
<1>4. ASSUME NEW p \in posts, BootstrapConsume(p) PROVE Once'
  <2>1. p.token = token /\ token # None /\ Fresh(token) /\ posts' = {} /\ token' = None
    BY <1>4 DEF BootstrapConsume, Once
  <2>2. job'.pc = "unset" /\ job'.token = token /\ job'.snap = file
    BY <1>4, <2>1 DEF BootstrapConsume
  <2> QED
    BY <1>1, <1>4, <2>1, <2>2, FreshUnchanged DEF BootstrapConsume, cliVars, Ready, Once, Fresh
<1>5. CASE UnsetToken
  <2>1. job'.pc = "read" /\ job'.token = job.token /\ job'.snap = job.snap /\ file'.token = None
    <3>1. file'.token = None /\ job' = [job EXCEPT !.pc = "read"]
      BY <1>5, WritersContent, ServerWritesContent DEF UnsetToken
    <3> QED
      BY <3>1 DEF TypeOK, Jobs
  <2> QED
    BY <1>1, <1>5, <2>1, FreshUnchanged DEF UnsetToken, Once, Fresh
<1>6. CASE ReadSecrets
  <2>1. job'.pc = "write" /\ job'.token = job.token /\ job'.snap = file
    BY <1>6 DEF ReadSecrets, TypeOK, Jobs
  <2> QED
    BY <1>1, <1>6, <2>1, FreshUnchanged DEF ReadSecrets, cliVars, Once, Fresh
<1>7. CASE WriteCredentials
  <2>1. job'.pc = "enter" /\ job'.snap = job.snap /\ file'.token = job.snap.token /\ job' # Idle
    <3>1. file'.token = job.snap.token /\ job' = [job EXCEPT !.pc = "enter"]
      BY <1>7, WritersContent, ServerWritesContent DEF WriteCredentials
    <3> QED
      BY <1>1, <3>1 DEF TypeOK, Jobs
  <2>2. job.snap.token = None /\ token = None /\ posts = {} /\ running /\ cli = {}
    BY <1>1, <1>7 DEF WriteCredentials, Once, JobRuns
  <2>3. used' = [used EXCEPT ![job.token] = {job.who}] /\ job.token \in Tokens
        /\ job.token <= tokens
    BY <1>7, <2>1 DEF WriteCredentials, Once, Fresh, TypeOK, Jobs
  <2>4. TokenUsedOnce' /\ (\A k \in Tokens : used[k] # {} => k <= tokens)'
    BY <1>7, <2>3 DEF WriteCredentials, Once, TokenUsedOnce, TypeOK
  <2> QED
    BY <1>1, <1>7, <2>1, <2>2, <2>4 DEF WriteCredentials, Once, Fresh
<1>8. CASE EnterSession
  BY <1>1, <1>8, FreshUnchanged DEF EnterSession, Once, Fresh
<1> QED
  BY <1>2, <1>3, <1>4, <1>5, <1>6, <1>7, <1>8 DEF Bootstrap

LEMMA OnceKept ==
    ASSUME TypeOK, JobRuns, Once, [Next]_vars, ~rough'
    PROVE  Once'
<1>1. Idle.pc = "idle" /\ Idle.snap.token = None /\ EmptyFile.token = None
      /\ Fresh(None) /\ Fresh(None)'
  BY DEF Idle, EmptyFile, Fresh
<1>2. CASE Start
  BY <1>2, StartOnce
<1>3. CASE Crash
  <2>1. UNCHANGED <<tokens, used, cli>> /\ ~running' /\ posts' = {} /\ token' = None /\ job' = Idle
        /\ (file' = file \/ file' = EmptyFile)
    BY <1>3 DEF Crash, cliVars
  <2> QED
    BY <1>1, <2>1, FreshUnchanged DEF Once, Fresh
<1>4. CASE SessionSteps
  <2>1. UNCHANGED <<file, running, token, posts, job, cli, tokens, used>>
    BY <1>4 DEF SessionSteps, Login, Logout, Age, ExpireSession, accessVars, cliVars
  <2> QED
    BY <2>1, FreshUnchanged DEF Once, Fresh
<1>5. CASE Bootstrap
  BY <1>5, BootstrapOnce
<1>6. CASE OtherWriters
  <2>1. CASE ApplyReadsSecrets
    <3>1. job'.pc = "secrets" /\ job'.snap = file
      BY <2>1 DEF ApplyReadsSecrets, Idle
    <3> QED
      BY <1>1, <2>1, <3>1, FreshUnchanged DEF ApplyReadsSecrets, cliVars, Once, Fresh
  <2>2. CASE ApplyWritesSecrets
    <3>1. job' = Idle /\ file'.token = job.snap.token
      BY <2>2, WritersContent, ServerWritesContent DEF ApplyWritesSecrets
    <3> QED
      BY <1>1, <2>2, <3>1, FreshUnchanged DEF ApplyWritesSecrets, Once, Fresh
  <2>3. CASE CliReads
    BY <2>3, FreshUnchanged DEF CliReads, accessVars, Once, Fresh
  <2>4. CASE CliWrites
    <3>1. Fresh(file.token)'
      BY <1>1, <2>4, FreshUnchanged DEF CliWrites, Once, Fresh, TypeOK, SecretsFile
    <3>2. ~running
      BY <2>4 DEF CliWrites, Once
    <3>3. job = Idle /\ job' = Idle
      BY <2>4, <3>2 DEF CliWrites, accessVars, JobRuns
    <3> QED
      BY <1>1, <2>4, <3>1, <3>2, <3>3, FreshUnchanged DEF CliWrites, accessVars, Once, Fresh
  <2> QED
    BY <1>6, <2>1, <2>2, <2>3, <2>4 DEF OtherWriters
<1>7. CASE UNCHANGED vars
  BY <1>7, FreshUnchanged DEF vars, accessVars, cliVars, Once, Fresh
<1> QED
  BY <1>2, <1>3, <1>4, <1>5, <1>6, <1>7 DEF Next
-----------------------------------------------------------------------------
(* The inductive invariant and the theorems.                               *)

IInv == /\ TypeOK /\ JobHasAccount /\ JobRuns /\ AllWhole
        /\ rough \/ (SessionsInStep /\ WayIn /\ Once)

LEMMA InitIInv == Init => IInv
<1> SUFFICES ASSUME Init PROVE IInv
  OBVIOUS
<1>1. TypeOK
  BY ConstantsTyped DEF Init, TypeOK, None
<1>2. JobHasAccount /\ JobRuns /\ AllWhole
  BY DEF Init, JobHasAccount, JobRuns, AllWhole, Whole, Idle, EmptyFile
<1>3. SessionsInStep
  BY DEF Init, SessionsInStep, Live
<1>4. WayIn
  BY DEF Init, WayIn
<1>5. Once
  BY DEF Init, Once, Fresh, TokenUsedOnce, Idle, EmptyFile
<1> QED
  BY <1>1, <1>2, <1>3, <1>4, <1>5 DEF IInv

LEMMA NextIInv == IInv /\ [Next]_vars => IInv'
<1> SUFFICES ASSUME IInv, [Next]_vars PROVE IInv'
  OBVIOUS
<1>1. TypeOK' /\ JobHasAccount' /\ JobRuns'
  BY NextTyped, JobKept DEF IInv
<1>2. AllWhole'
  BY AllWholeKept DEF IInv
<1>3. ASSUME ~rough' PROVE SessionsInStep' /\ WayIn' /\ Once'
  <2>1. ~rough
    BY <1>3, RoughStays
  <2> QED
    BY <1>3, <2>1, SessionsInStepKept, WayInKept, OnceKept DEF IInv
<1> QED
  BY <1>1, <1>2, <1>3 DEF IInv

LEMMA IInvHolds == Spec => []IInv
BY InitIInv, NextIInv, PTL DEF Spec

\* Every variable keeps its type, whatever fault happens.
THEOREM AccessTypeCorrect == Spec => []TypeOK
<1>1. IInv => TypeOK
  BY DEF IInv
<1> QED
  BY <1>1, IInvHolds, PTL

\* The username and the password hash in secrets.env are of one account or both absent,
\* whatever is cut short and whoever writes beside the service (auth.py, cli.py); a name
\* with a quotation mark alone may have turned into one that is nobody's.
THEOREM CredentialsStayWhole == Spec => []CredentialsWhole
<1>1. IInv => CredentialsWhole
  BY DEF IInv, AllWhole, Whole, CredentialsWhole
<1> QED
  BY <1>1, IInvHolds, PTL

\* A logged-out session never comes back, over crashes and restarts
\* (SessionManager.delete, _persist, _load).
THEOREM LogoutIsFinal == Spec => []LoggedOutStaysOut
<1>1. IInv => LoggedOutStaysOut
  BY DEF IInv, SessionsInStep, LoggedOutStaysOut
<1> QED
  BY <1>1, IInvHolds, PTL

\* An issued session lasts until it ages or logs out, over crashes and restarts
\* (SessionManager.create, _persist, _load).
THEOREM SessionsLast == Spec => []SessionsSurvive
<1>1. IInv => SessionsSurvive
  BY DEF IInv, SessionsInStep, Live, SessionsSurvive
<1> QED
  BY <1>1, IInvHolds, PTL

\* A running service between two requests lets its operator in, by the stored account,
\* whose name and password then match, or by a bootstrap token, also after a file was
\* cut short or the account was reset (BootstrapManager._load_or_generate,
\* bootstrap_post, login_post, cli.py); an account whose name has a quotation mark excepted.
THEOREM NeverLockedOut == Spec => []SomeWayIn
<1>1. ASSUME IInv, Ready, ~rough, token = None, file.hash \notin Quoted
      PROVE  \E a \in Accounts : Admits(a)
  <2>1. file.user # NoAccount
    BY <1>1 DEF IInv, WayIn, Ready
  <2>2. file.user = file.hash
    BY <1>1 DEF IInv, AllWhole, Whole
  <2>3. file.hash \in Accounts
    BY <1>1, <2>1, <2>2 DEF IInv, TypeOK, SecretsFile
  <2> QED
    BY <2>2, <2>3 DEF Admits
<1>2. IInv => SomeWayIn
  BY <1>1 DEF SomeWayIn
<1> QED
  BY <1>2, IInvHolds, PTL

\* A bootstrap token sets up one account unless two forms with it wait at once, over
\* crashes between the writes of its use (BootstrapManager.validate, bootstrap_post).
THEOREM TokenSetsUpOneAccount == Spec => []SecondAccountTakesTwoForms
<1>1. IInv => SecondAccountTakesTwoForms
  BY DEF IInv, Once, SecondAccountTakesTwoForms
<1> QED
  BY <1>1, IInvHolds, PTL
=============================================================================
