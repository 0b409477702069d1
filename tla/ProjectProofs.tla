--------------------------- MODULE ProjectProofs ---------------------------
(***************************************************************************)
(* Proofs about Project: what every run of init leaves, for any launches,  *)
(* environments and edits.  The invariant says what each step of a run can *)
(* rely on: a key without a live line has no value, a file just created    *)
(* has no lines, an artifact that did not fail is whole once it has had    *)
(* its turn, and after a run that succeeded every artifact is.             *)
(***************************************************************************)
EXTENDS Project, TLAPS

\* A key that no live line assigns has no value.
Consistent == \A k \in Key : env.kinds[k] \cap Live = {} => env.value[k] = Unset

\* The file init has just created has no lines.
Fresh == pc = "fill .env" => env.there /\ \A k \in Key : env.kinds[k] = {}

Whole == env.there /\ \A k \in Key : key_present(env, k)
Registered == mcp # "absent"
Ignored == gitignore = "ignores"

AfterMcp == {".gitignore", "fill .gitignore", "report"}
AfterEnv == {".mcp.json", "fill .mcp.json"} \cup AfterMcp

\* What has had its turn and did not fail is done.
Done ==
  /\ pc \in AfterEnv /\ ".env" \notin failed => Whole
  /\ pc \in AfterMcp /\ ".mcp.json" \notin failed => mcp = "current" \/ stanza
  /\ pc = "report" /\ ".gitignore" \notin failed => Ignored

\* stanza speaks of a registration; nothing is registered otherwise.
Told == stanza \/ mcp = "current" => Registered

\* After a run that succeeded there is nothing to create.
Settled ==
  settled => Whole /\ Registered /\ Ignored
             /\ pc \notin {"fill .env", "fill .mcp.json", "fill .gitignore"}

IInv == TypeOK /\ Consistent /\ Fresh /\ Done /\ Told /\ Settled /\ ServesAsTold

-----------------------------------------------------------------------------
\* A file to which init adds blocks is a file.
LEMMA WithBlocksType ==
  ASSUME NEW file \in EnvFile, NEW keys \in SUBSET Key
  PROVE  WithBlocks(file, keys) \in EnvFile
<1>1. \A k \in Key : TemplateKind(k) \in Kind
  BY DEF TemplateKind, Kind
<1>2. \A k \in Key : file.kinds[k] \in SUBSET Kind /\ file.value[k] \in Value \cup {Unset}
  BY DEF EnvFile
<1>3. [k \in Key |-> IF k \in keys THEN file.kinds[k] \cup {TemplateKind(k)} ELSE file.kinds[k]]
        \in [Key -> SUBSET Kind]
  BY <1>1, <1>2
<1>4. [k \in Key |-> IF k \in keys /\ TemplateKind(k) \in Live THEN "" ELSE file.value[k]]
        \in [Key -> Value \cup {Unset}]
  BY <1>2 DEF Value
<1>5. file.additions + 1 \in Nat
  BY DEF EnvFile
<1>6. QED
  BY <1>3, <1>4, <1>5 DEF WithBlocks, EnvFile

\* A file with blocks for keys differs in them alone, key by key.
AddsOnly(file, keys, added) ==
  /\ added.there = file.there
  /\ \A k \in keys : added.kinds[k] \cap Matched # {}
  /\ \A k \in Key \ keys : added.kinds[k] = file.kinds[k] /\ added.value[k] = file.value[k]
  /\ \A k \in keys : added.value[k] = IF k \in REQUIRED THEN "" ELSE file.value[k]
  /\ \A k \in keys : k \in REQUIRED => added.kinds[k] \cap Live # {}
  /\ \A k \in keys : file.kinds[k] \subseteq added.kinds[k]

\* What the blocks change.
LEMMA WithBlocksFields ==
  ASSUME NEW file \in EnvFile, NEW keys \in SUBSET Key
  PROVE  AddsOnly(file, keys, WithBlocks(file, keys))
<1> DEFINE added == WithBlocks(file, keys)
<1>1. \A k \in Key : TemplateKind(k) \in Matched /\ (k \in REQUIRED <=> TemplateKind(k) \in Live)
  BY DEF TemplateKind, Live, Kind, Matched
<1>2. /\ added.there = file.there
      /\ \A k \in Key : added.kinds[k] = IF k \in keys THEN file.kinds[k] \cup {TemplateKind(k)}
                                                      ELSE file.kinds[k]
      /\ \A k \in Key : added.value[k] = IF k \in keys /\ TemplateKind(k) \in Live THEN ""
                                                                                  ELSE file.value[k]
  BY DEF WithBlocks, EnvFile
<1> HIDE DEF added
<1>3. added.there = file.there /\ \A k \in keys : added.kinds[k] \cap Matched # {}
  BY <1>1, <1>2
<1>4. \A k \in Key \ keys : added.kinds[k] = file.kinds[k] /\ added.value[k] = file.value[k]
  BY <1>2
<1>5. \A k \in keys : added.value[k] = IF k \in REQUIRED THEN "" ELSE file.value[k]
  BY <1>1, <1>2
<1>6. \A k \in keys : k \in REQUIRED => added.kinds[k] \cap Live # {}
  BY <1>1, <1>2
<1>7. \A k \in keys : file.kinds[k] \subseteq added.kinds[k]
  BY <1>2
<1>8. QED
  BY <1>3, <1>4, <1>5, <1>6, <1>7 DEF AddsOnly, added

-----------------------------------------------------------------------------
LEMMA InitIInv == Init => IInv
<1> SUFFICES ASSUME Init PROVE IInv
  OBVIOUS
<1>1. NoFile \in EnvFile
  BY DEF NoFile, EnvFile
<1>2a. env \in EnvFile
  BY <1>1 DEF Init
<1>2b. runs \in 0..MaxRuns /\ edits \in 0..MaxEdits
  BY ProjectAssumption DEF Init
<1>2. TypeOK
  BY <1>2a, <1>2b DEF Init, TypeOK, Registration, Down
<1>3. Consistent /\ Fresh
  BY DEF Init, Consistent, Fresh, NoFile
<1>4. Done /\ Told /\ Settled
  BY DEF Init, Done, Told, Settled, AfterEnv, AfterMcp, Registered, Registration
<1>5. ServesAsTold
  BY DEF Init, ServesAsTold, Down
<1>6. QED
  BY <1>2, <1>3, <1>4, <1>5 DEF IInv

\* A step of init that adds blocks to a file, each for a key it lacks.
LEMMA AddingIsSound ==
  ASSUME IInv, NEW keys \in SUBSET Key, keys = {k \in Key : ~key_present(env, k)},
         NEW open \in Key \cup {Nothing},
         env' = [WithBlocks(env, keys) EXCEPT !.open = open], env.there
  PROVE  /\ env' \in EnvFile
         /\ Consistent'
         /\ Whole'
         /\ \A k \in Key : key_present(env, k) => env'.value[k] = env.value[k]
         /\ env'.value[FLAG] = env.value[FLAG] /\ env'.value[LEVEL] = env.value[LEVEL]
<1> DEFINE added == WithBlocks(env, keys)
<1>0. env \in EnvFile
  BY DEF IInv, TypeOK
<1>1. added \in EnvFile
  BY <1>0, WithBlocksType
<1>2. AddsOnly(env, keys, added)
  BY <1>0, WithBlocksFields
<1> HIDE DEF added
<1>3. env' = [added EXCEPT !.open = open]
  BY DEF added
<1>4. /\ env'.there = added.there /\ env'.kinds = added.kinds /\ env'.value = added.value
      /\ env' \in EnvFile
  BY <1>1, <1>3 DEF EnvFile
<1>5. \A k \in Key : env.kinds[k] \cap Live = {} => env.value[k] = Unset
  BY DEF IInv, Consistent
<1>6. Consistent'
  BY <1>2, <1>4, <1>5 DEF Consistent, AddsOnly
<1>7. Whole'
  BY <1>2, <1>4 DEF Whole, AddsOnly, key_present
<1>8. FLAG \in Key /\ LEVEL \in Key /\ FLAG \notin REQUIRED /\ LEVEL \notin REQUIRED
  BY DEF Key, FLAG, LEVEL, REQUIRED
<1>9. QED
  BY <1>2, <1>4, <1>6, <1>7, <1>8 DEF AddsOnly

-----------------------------------------------------------------------------
\* The steps, one by one.

\* The artifact gives up: its turn is over, and it has failed.
LEMMA FailIInv ==
  ASSUME IInv, NEW artifact \in Artifact, NEW next,
         Fail(artifact, next), UNCHANGED <<runs, edits, settled, server>>,
         \/ artifact = ".env" /\ next = ".mcp.json"
         \/ artifact = ".mcp.json" /\ next = ".gitignore" /\ pc \in {".mcp.json", "fill .mcp.json"}
         \/ artifact = ".gitignore" /\ next = "report" /\ pc \in {".gitignore", "fill .gitignore"}
  PROVE  IInv'
<1>1. TypeOK'
  BY DEF IInv, TypeOK, Fail, files, Artifact, ServesAsTold
<1>2. Consistent' /\ Fresh'
  BY DEF IInv, Consistent, Fresh, Fail, files
<1>3. Done'
  BY DEF IInv, Done, Fail, files, AfterEnv, AfterMcp, Whole, Ignored
<1>4. Told' /\ Settled'
  BY DEF IInv, Told, Settled, Fail, files, Whole, Registered, Ignored
<1>5. ServesAsTold'
  BY DEF IInv, ServesAsTold
<1>6. QED
  BY <1>1, <1>2, <1>3, <1>4, <1>5 DEF IInv

LEMMA ScaffoldEnvIInv == IInv /\ scaffold_env => IInv'
<1> SUFFICES ASSUME IInv, scaffold_env PROVE IInv'
  OBVIOUS
<1>0. pc = ".env" /\ UNCHANGED <<mcp, gitignore, stanza, runs, edits, settled, server>>
  BY DEF scaffold_env
<1>1. CASE Fail(".env", ".mcp.json")
  BY <1>0, <1>1, FailIInv DEF Artifact
<1>2. CASE ~env.there /\ env' = EmptyFile /\ Go("fill .env")
  <2>1. env' \in EnvFile
    BY <1>2 DEF EmptyFile, NoFile, EnvFile
  <2>2. TypeOK'
    BY <1>0, <1>2, <2>1 DEF IInv, TypeOK, Go, Artifact
  <2>3. Consistent' /\ Fresh'
    BY <1>2 DEF Consistent, Fresh, Go, EmptyFile, NoFile
  <2>4. Done'
    BY <1>2 DEF Done, Go, AfterEnv, AfterMcp
  <2>5. Told' /\ Settled'
    BY <1>0, <1>2 DEF IInv, Told, Settled, Whole, Registered
  <2>6. ServesAsTold'
    BY <1>0 DEF IInv, ServesAsTold
  <2>7. QED
    BY <2>2, <2>3, <2>4, <2>5, <2>6 DEF IInv
<1>3. CASE env.there /\ Missing = {} /\ UNCHANGED env /\ Go(".mcp.json")
  <2>1. Whole'
    BY <1>3 DEF Missing, Whole
  <2>2. TypeOK'
    BY <1>0, <1>3 DEF IInv, TypeOK, Go, Artifact
  <2>3. Consistent' /\ Fresh'
    BY <1>3 DEF IInv, Consistent, Fresh, Go
  <2>4. Done'
    BY <1>3, <2>1 DEF Done, Go, AfterMcp
  <2>5. Told' /\ Settled'
    BY <1>0, <1>3, <2>1 DEF IInv, Told, Settled, Registered, Ignored, Go
  <2>6. ServesAsTold'
    BY <1>0 DEF IInv, ServesAsTold
  <2>7. QED
    BY <2>2, <2>3, <2>4, <2>5, <2>6 DEF IInv
<1>4. CASE env.there /\ Missing # {} /\ append(Missing) /\ Go(".mcp.json")
  <2>1. Missing \in SUBSET Key /\ Missing = {k \in Key : ~key_present(env, k)}
    BY DEF Missing
  <2>2. env' \in EnvFile /\ Consistent' /\ Whole'
    BY <1>4, <2>1, AddingIsSound DEF append
  <2>3. TypeOK'
    BY <1>0, <1>4, <2>2 DEF IInv, TypeOK, Go, Artifact
  <2>4. Fresh'
    BY <1>4 DEF Fresh, Go
  <2>5. Done'
    BY <1>4, <2>2 DEF Done, Go, AfterMcp
  <2>6. Told' /\ Settled'
    BY <1>0, <1>4, <2>2 DEF IInv, Told, Settled, Registered, Ignored, Go
  <2>7. ServesAsTold'
    BY <1>0 DEF IInv, ServesAsTold
  <2>8. QED
    BY <2>2, <2>3, <2>4, <2>5, <2>6, <2>7 DEF IInv
<1>5. QED
  BY <1>1, <1>2, <1>3, <1>4 DEF scaffold_env

\* The file fill_env writes to lacks every key.
LEMMA FillAdds ==
  ASSUME IInv, pc = "fill .env"
  PROVE  /\ env.there /\ Key = {k \in Key : ~key_present(env, k)}
         /\ WithBlocks(env, Key) = [WithBlocks(env, Key) EXCEPT !.open = env.open]
         /\ env.open \in Key \cup {Nothing}
<1>1. env \in EnvFile /\ WithBlocks(env, Key) \in EnvFile
  BY WithBlocksType DEF IInv, TypeOK
<1>2. WithBlocks(env, Key).open = env.open
  BY <1>1 DEF WithBlocks, EnvFile
<1>3. env.open \in Key \cup {Nothing}
  BY <1>1 DEF EnvFile
<1>4. QED
  BY <1>1, <1>2, <1>3 DEF IInv, Fresh, EnvFile, key_present

LEMMA FillEnvIInv == IInv /\ fill_env => IInv'
<1> SUFFICES ASSUME IInv, fill_env PROVE IInv'
  OBVIOUS
<1>0. pc = "fill .env" /\ UNCHANGED <<mcp, gitignore, stanza, runs, edits, settled, server>>
  BY DEF fill_env
<1>1. CASE Fail(".env", ".mcp.json")
  BY <1>0, <1>1, FailIInv DEF Artifact
<1>2. CASE /\ env' = WithBlocks(env, Key)
           /\ pc' = ".mcp.json"
           /\ failed' \in {failed, failed \cup {".env"}}
  <2>1. env' = [WithBlocks(env, Key) EXCEPT !.open = env.open]
    BY <1>0, <1>2, FillAdds
  <2>2. env' \in EnvFile /\ Consistent' /\ Whole'
    BY <1>0, <2>1, FillAdds, AddingIsSound
  <2>3. TypeOK'
    BY <1>0, <1>2, <2>2 DEF IInv, TypeOK, Artifact
  <2>4. Fresh'
    BY <1>2 DEF Fresh
  <2>5. Done'
    BY <1>2, <2>2 DEF Done, AfterMcp
  <2>6. Told' /\ Settled'
    BY <1>0, <1>2, <2>2 DEF IInv, Told, Settled, Registered, Ignored
  <2>7. ServesAsTold'
    BY <1>0 DEF IInv, ServesAsTold
  <2>8. QED
    BY <2>2, <2>3, <2>4, <2>5, <2>6, <2>7 DEF IInv
<1>3. QED
  BY <1>1, <1>2 DEF fill_env

LEMMA McpIInv == IInv /\ (scaffold_mcp_json \/ fill_mcp_json) => IInv'
<1> SUFFICES ASSUME IInv, scaffold_mcp_json \/ fill_mcp_json PROVE IInv'
  OBVIOUS
<1>0. /\ pc \in {".mcp.json", "fill .mcp.json"}
      /\ UNCHANGED <<env, gitignore, runs, edits, settled, server>>
  BY DEF scaffold_mcp_json, fill_mcp_json
<1>1. CASE Fail(".mcp.json", ".gitignore")
  BY <1>0, <1>1, FailIInv DEF Artifact
<1>2. CASE ~Fail(".mcp.json", ".gitignore")
  <2>1. /\ mcp' \in Registration \ {"absent"} /\ UNCHANGED failed
        /\ \/ pc' = "fill .mcp.json" /\ mcp = "absent" /\ UNCHANGED stanza
           \/ pc' = ".gitignore" /\ stanza' \in BOOLEAN /\ (mcp' = "current" \/ stanza')
        /\ pc = ".mcp.json" => mcp' = mcp \/ mcp = "absent"
    BY <1>2 DEF IInv, TypeOK, Registration, scaffold_mcp_json, fill_mcp_json, Go
  <2>2. TypeOK'
    BY <1>0, <2>1 DEF IInv, TypeOK, Artifact
  <2>3. Consistent' /\ Fresh'
    BY <1>0, <2>1 DEF IInv, Consistent, Fresh
  <2>4. Done'
    BY <1>0, <2>1 DEF IInv, Done, AfterEnv, AfterMcp, Whole
  <2>5. Told' /\ Settled'
    BY <1>0, <2>1 DEF IInv, Told, Settled, Whole, Registered, Ignored
  <2>6. ServesAsTold'
    BY <1>0 DEF IInv, ServesAsTold
  <2>7. QED
    BY <2>2, <2>3, <2>4, <2>5, <2>6 DEF IInv
<1>3. QED
  BY <1>1, <1>2

LEMMA GitignoreIInv == IInv /\ (scaffold_gitignore \/ fill_gitignore) => IInv'
<1> SUFFICES ASSUME IInv, scaffold_gitignore \/ fill_gitignore PROVE IInv'
  OBVIOUS
<1>0. /\ pc \in {".gitignore", "fill .gitignore"}
      /\ UNCHANGED <<env, mcp, stanza, runs, edits, settled, server>>
  BY DEF scaffold_gitignore, fill_gitignore
<1>1. CASE Fail(".gitignore", "report")
  BY <1>0, <1>1, FailIInv DEF Artifact
<1>2. CASE ~Fail(".gitignore", "report")
  <2>1. /\ gitignore' \in {"silent", "ignores"} /\ UNCHANGED failed
        /\ \/ pc' = "fill .gitignore" /\ gitignore = "absent"
           \/ pc' = "report" /\ gitignore' = "ignores"
    BY <1>2 DEF IInv, TypeOK, scaffold_gitignore, fill_gitignore, Go
  <2>2. TypeOK'
    BY <1>0, <2>1 DEF IInv, TypeOK, Artifact
  <2>3. Consistent' /\ Fresh'
    BY <1>0, <2>1 DEF IInv, Consistent, Fresh
  <2>4. Done'
    BY <1>0, <2>1 DEF IInv, Done, AfterEnv, AfterMcp, Whole, Ignored
  <2>5. Told' /\ Settled'
    BY <1>0, <2>1 DEF IInv, Told, Settled, Whole, Registered, Ignored
  <2>6. ServesAsTold'
    BY <1>0 DEF IInv, ServesAsTold
  <2>7. QED
    BY <2>2, <2>3, <2>4, <2>5, <2>6 DEF IInv
<1>3. QED
  BY <1>1, <1>2

LEMMA GoneIInv ==
  ASSUME IInv, Gone, settled' \in BOOLEAN,
         settled' => Whole /\ Registered /\ Ignored
  PROVE  IInv'
<1>1. TypeOK'
  BY DEF IInv, TypeOK, Gone, files, Artifact
<1>2. Consistent' /\ Fresh'
  BY DEF IInv, Consistent, Fresh, Gone, files
<1>3. Done'
  BY DEF Done, Gone, AfterEnv, AfterMcp
<1>4. Told' /\ Settled'
  BY DEF IInv, Told, Settled, Gone, files, Whole, Registered, Ignored
<1>5. ServesAsTold'
  BY DEF IInv, ServesAsTold, Gone
<1>6. QED
  BY <1>1, <1>2, <1>3, <1>4, <1>5 DEF IInv

LEMMA ExitIInv == IInv /\ (Exit \/ Kill) => IInv'
<1>1. ASSUME IInv, Exit PROVE IInv'
  <2>1. pc = "report" /\ Gone /\ settled' = (ExitCode = 0)
    BY <1>1 DEF Exit
  <2>2. failed = {} => Whole /\ Registered /\ Ignored
    BY <1>1, <2>1 DEF IInv, Done, Told, AfterEnv, AfterMcp
  <2>3. settled' = (failed = {})
    BY <2>1 DEF ExitCode
  <2>4. QED
    BY <1>1, <2>1, <2>2, <2>3, GoneIInv
<1>2. ASSUME IInv, Kill PROVE IInv'
  BY <1>2, GoneIInv DEF Kill
<1>3. QED
  BY <1>1, <1>2

LEMMA RunInitIInv == IInv /\ RunInit => IInv'
<1> SUFFICES ASSUME IInv, RunInit PROVE IInv'
  OBVIOUS
<1>1. runs' \in 0..MaxRuns
  BY ProjectAssumption DEF IInv, TypeOK, RunInit
<1>2. TypeOK'
  BY <1>1 DEF IInv, TypeOK, RunInit, files, Artifact
<1>3. Consistent' /\ Fresh'
  BY DEF IInv, Consistent, Fresh, RunInit, files
<1>4. Done'
  BY DEF Done, RunInit, AfterEnv, AfterMcp
<1>5. Told' /\ Settled'
  BY DEF IInv, Told, Settled, RunInit, files, Whole, Registered, Ignored
<1>6. ServesAsTold'
  BY DEF IInv, ServesAsTold, RunInit
<1>7. QED
  BY <1>2, <1>3, <1>4, <1>5, <1>6 DEF IInv

LEMMA EditIInv == ASSUME NEW line \in Lines PROVE IInv /\ Edit(line) => IInv'
<1> SUFFICES ASSUME IInv, Edit(line) PROVE IInv'
  OBVIOUS
<1>0. line \in [key : Key, kind : Kind, value : Value, open : BOOLEAN]
  BY ProjectAssumption
<1>1. /\ env.kinds \in [Key -> SUBSET Kind] /\ env.value \in [Key -> Value \cup {Unset}]
      /\ env.additions \in Nat
  BY DEF IInv, TypeOK, EnvFile
<1>2. env' \in EnvFile
  BY <1>0, <1>1 DEF Edit, EnvFile
<1>3. edits' \in 0..MaxEdits
  BY ProjectAssumption DEF IInv, TypeOK, Edit
<1>4. TypeOK'
  BY <1>2, <1>3 DEF IInv, TypeOK, Edit, process
<1>5. Consistent'
  BY <1>0, <1>1 DEF IInv, Consistent, Edit
<1>6. Fresh' /\ Done'
  BY DEF Edit, process, Fresh, Done, AfterEnv, AfterMcp
<1>7. Told' /\ Settled'
  BY DEF IInv, Told, Settled, Edit, process, Registered
<1>8. ServesAsTold'
  BY DEF IInv, ServesAsTold, Edit
<1>9. QED
  BY <1>4, <1>5, <1>6, <1>7, <1>8 DEF IInv

\* What is not the server stays as it is.
LEMMA RestIInv ==
  ASSUME IInv, UNCHANGED <<files, process, edits, settled>>,
         server'.up \in BOOLEAN, ServesAsTold'
  PROVE  IInv'
<1>1. TypeOK'
  BY DEF IInv, TypeOK, files, process
<1>2. Consistent' /\ Fresh'
  BY DEF IInv, Consistent, Fresh, files, process
<1>3. Done' /\ Told' /\ Settled'
  BY DEF IInv, Done, Told, Settled, files, process, Whole, Registered, Ignored
<1>4. QED
  BY <1>1, <1>2, <1>3 DEF IInv

LEMMA StartIInv ==
  ASSUME NEW launch \in Launches, NEW environ \in Environs, NEW status
  PROVE  IInv /\ Start(launch, environ, status) => IInv'
<1> SUFFICES ASSUME IInv, Start(launch, environ, status) PROVE IInv'
  OBVIOUS
<1> DEFINE place == resolve_env_file(launch)
<1>1. /\ server'.up = TRUE /\ server'.named = Named(launch) /\ server'.place = place
      /\ server'.gated = allow_destructive(File(place), environ)
      /\ server'.refused = (Flags(File(place), environ) \ {"good"} # {})
  BY DEF Start, Configured
<1>2. server'.named \in {Unset, server'.place}
  BY <1>1 DEF resolve_env_file
<1>3. ~(server'.gated /\ server'.refused)
  BY <1>1 DEF allow_destructive
<1>4. ServesAsTold'
  BY <1>2, <1>3 DEF ServesAsTold
<1>5. QED
  BY <1>1, <1>4, RestIInv DEF Start

LEMMA NextIInv == IInv /\ [Next]_vars => IInv'
<1> SUFFICES ASSUME IInv, [Next]_vars PROVE IInv'
  OBVIOUS
<1>1. CASE RunInit
  BY <1>1, RunInitIInv
<1>2. CASE InitSteps
  BY <1>2, ScaffoldEnvIInv, FillEnvIInv, McpIInv, GitignoreIInv DEF InitSteps
<1>3. CASE Exit \/ Kill
  BY <1>3, ExitIInv
<1>4. CASE \E line \in Lines : Edit(line)
  BY <1>4, EditIInv
<1>5. CASE \E launch \in Launches, environ \in Environs, status \in {401, 403} :
             Start(launch, environ, status)
  BY <1>5, StartIInv
<1>6. CASE Stop
  <2>1. server'.up = FALSE /\ UNCHANGED <<files, process, edits, settled>>
    BY <1>6 DEF Stop, Down
  <2>2. QED
    BY <2>1, RestIInv DEF ServesAsTold
<1>7. CASE UNCHANGED vars
  <2>1. UNCHANGED <<files, process, edits, settled, server>>
    BY <1>7 DEF vars
  <2>2. server'.up \in BOOLEAN /\ ServesAsTold'
    BY <2>1 DEF IInv, TypeOK, ServesAsTold
  <2>3. QED
    BY <2>1, <2>2, RestIInv
<1>8. QED
  BY <1>1, <1>2, <1>3, <1>4, <1>5, <1>6, <1>7 DEF Next

\* The invariant holds throughout: it is what each step of init relies on,
\* whatever failed or was killed before it (run_init, _attempt).
THEOREM InvariantHolds == Spec => []IInv
BY InitIInv, NextIInv, PTL DEF Spec

-----------------------------------------------------------------------------
\* Adding the blocks of missing keys keeps every start that there was.
LEMMA AddingKeepsStarts ==
  ASSUME IInv, IInv', NEW keys \in SUBSET Key, keys = {k \in Key : ~key_present(env, k)},
         NEW open \in Key \cup {Nothing},
         env' = [WithBlocks(env, keys) EXCEPT !.open = open], env.there,
         NEW launch \in Launches, NEW environ \in Environs, Starts(launch, environ),
         resolve_env_file(launch) = "here" =>
           \A k \in REQUIRED : environ[k] # Unset \/ env.kinds[k] # {"quoted"}
  PROVE  /\ Starts(launch, environ)'
         /\ Configured(launch, environ)' = Configured(launch, environ)
<1> DEFINE place == resolve_env_file(launch)
<1>1. /\ env'.there
      /\ \A k \in Key : key_present(env, k) => env'.value[k] = env.value[k]
      /\ env'.value[FLAG] = env.value[FLAG] /\ env'.value[LEVEL] = env.value[LEVEL]
  BY AddingIsSound DEF Whole
<1>2. \A k \in Key : ~key_present(env, k) => env.value[k] = Unset \/ env.kinds[k] = {"quoted"}
  <2> SUFFICES ASSUME NEW k \in Key, ~key_present(env, k), env.kinds[k] # {"quoted"}
               PROVE  env.value[k] = Unset
    OBVIOUS
  <2>1. env.kinds[k] \subseteq Kind
    BY DEF IInv, TypeOK, EnvFile
  <2>2. env.kinds[k] \subseteq {"quoted"}
    BY <2>1 DEF key_present, Matched
  <2>3. env.kinds[k] \cap Live = {}
    BY <2>2
  <2>4. QED
    BY <2>3 DEF IInv, Consistent
<1>3. \A p : File(p)'.there = File(p).there
  BY <1>1 DEF File
<1>4. resolve_env_file(launch)' = place
  BY <1>3 DEF resolve_env_file
<1>5. CASE place # "here"
  <2>1. File(place)' = File(place)
    BY <1>4, <1>5 DEF File
  <2>2. QED
    BY <1>4, <2>1 DEF Starts, Configured
<1>6. CASE place = "here"
  <2>1. File(place) = env /\ File(place)' = env'
    BY <1>4, <1>6 DEF File
  <2>2. Loads(env, environ)
    BY <2>1 DEF Starts
  <2>3. ASSUME NEW k \in Key
        PROVE  (IF environ[k] # Unset THEN environ[k] ELSE env'.value[k])
                 = (IF environ[k] # Unset THEN environ[k] ELSE env.value[k])
    <3>1. CASE k \in REQUIRED
      <4>1. (IF environ[k] # Unset THEN environ[k] ELSE env.value[k]) # Unset
        BY <2>2, <3>1 DEF Loads, Resolved, Key
      <4>2. QED
        BY <1>1, <1>2, <1>6, <3>1, <4>1
    <3>2. CASE k \in {FLAG, LEVEL}
      BY <1>1, <3>2
    <3>3. QED
      BY <3>1, <3>2 DEF Key
  <2>4. Resolved(env', environ) = Resolved(env, environ)
    BY <2>3 DEF Resolved
  <2>5. Flags(env', environ) = Flags(env, environ)
    BY <1>1 DEF Flags
  <2>6. Loads(env', environ)
    BY <1>1, <2>2, <2>4 DEF Loads
  <2>7. Starts(launch, environ)'
    BY <1>4, <2>1, <2>6 DEF Starts
  <2>8. allow_destructive(env', environ) = allow_destructive(env, environ)
    BY <2>5 DEF allow_destructive
  <2>9. Configured(launch, environ)' = Configured(launch, environ)
    BY <1>4, <2>1, <2>4, <2>8 DEF Configured
  <2>10. QED
    BY <2>7, <2>9
<1>7. QED
  BY <1>5, <1>6

\* A step that leaves the file alone keeps every start.
LEMMA LeavingKeepsStarts ==
  ASSUME UNCHANGED env, NEW launch \in Launches, NEW environ \in Environs
  PROVE  /\ Starts(launch, environ)' = Starts(launch, environ)
         /\ Configured(launch, environ)' = Configured(launch, environ)
BY DEF Starts, Configured, resolve_env_file, File, Loads, allow_destructive, Flags, Resolved

\* Creating the file changes no start that does not resolve to it.
LEMMA CreatingKeepsStarts ==
  ASSUME NEW launch \in Launches, NEW environ \in Environs,
         ~env.there, env' = EmptyFile, resolve_env_file(launch)' # "here",
         Starts(launch, environ)
  PROVE  /\ Starts(launch, environ)'
         /\ Configured(launch, environ)' = Configured(launch, environ)
<1> DEFINE place == resolve_env_file(launch)
<1>1. env'.there
  BY DEF EmptyFile, NoFile
<1>2. \A p : p # "here" => File(p)' = File(p)
  BY DEF File
<1>3. resolve_env_file(launch)' = place
  <2>1. CASE Named(launch) # Unset
    BY <2>1 DEF resolve_env_file
  <2>2. CASE Named(launch) = Unset /\ launch.project_dir = "here"
    BY <1>1, <2>2 DEF resolve_env_file, File
  <2>3. CASE Named(launch) = Unset /\ launch.project_dir # "here"
    BY <1>2, <2>3 DEF resolve_env_file
  <2>4. QED
    BY <2>1, <2>2, <2>3
<1>4. File(place)' = File(place)
  BY <1>2, <1>3
<1>5. QED
  BY <1>3, <1>4 DEF Starts, Configured

-----------------------------------------------------------------------------
\* Every state of a project is of its type (init.py, config.py).
THEOREM TypeCorrect == Spec => []TypeOK
BY InvariantHolds, PTL DEF IInv

\* A run that reports success has left the directory whole, whatever was
\* there before (run_init, _attempt).
THEOREM RunsDeliver == Spec => []InitDelivers
<1>1. IInv => InitDelivers
  BY DEF IInv, Done, InitDelivers, ExitCode, AfterEnv, AfterMcp, Whole, Ignored,
         key_present
<1>2. QED
  BY <1>1, InvariantHolds, PTL

\* A server serves from the file it was told to, and the gated tools are
\* there only if no source refuses (resolve_env_file, load_config).
THEOREM ServedAsTold == Spec => []ServesAsTold
BY InvariantHolds, PTL DEF IInv

\* A run after one that succeeded writes nothing (key_present, scaffold_env,
\* scaffold_mcp_json, scaffold_gitignore).
THEOREM NothingIsRedone == Spec => RerunChangesNothing
<1>1. ASSUME IInv, [Next]_vars, InitSteps, settled PROVE UNCHANGED files
  <2>1. /\ Whole /\ Registered /\ Ignored
        /\ pc \notin {"fill .env", "fill .mcp.json", "fill .gitignore"}
    BY <1>1 DEF IInv, Settled
  <2>2. Missing = {}
    BY <2>1 DEF Missing, Whole
  <2>3. CASE scaffold_env
    BY <2>1, <2>2, <2>3 DEF scaffold_env, Fail, files, Whole
  <2>4. CASE scaffold_mcp_json
    BY <2>1, <2>4 DEF scaffold_mcp_json, Fail, files, Registered
  <2>5. CASE scaffold_gitignore
    BY <2>1, <2>5 DEF scaffold_gitignore, Fail, files, Ignored
  <2>6. QED
    BY <1>1, <2>1, <2>3, <2>4, <2>5 DEF InitSteps, fill_env, fill_mcp_json, fill_gitignore
<1>2. IInv /\ [Next]_vars => [InitSteps /\ settled => UNCHANGED files]_vars
  BY <1>1
<1>3. QED
  BY <1>2, InvariantHolds, PTL DEF Spec, RerunChangesNothing

\* No step of init changes what a server could be started with, but for
\* required keys that are quoted in the file (key_present, _append,
\* template_blocks; init.py:24-31).
THEOREM StartsAreKept == Spec => InitKeepsStarts
<1>1. ASSUME IInv, IInv', InitSteps,
             NEW launch \in Launches, NEW environ \in Environs,
             Starts(launch, environ), env.there \/ resolve_env_file(launch)' # "here",
             resolve_env_file(launch) = "here" =>
               \A k \in REQUIRED : environ[k] # Unset \/ env.kinds[k] # {"quoted"}
      PROVE  /\ Starts(launch, environ)'
             /\ Configured(launch, environ)' = Configured(launch, environ)
  <2>1. CASE UNCHANGED env
    BY <1>1, <2>1, LeavingKeepsStarts
  <2>2. CASE scaffold_env /\ ~UNCHANGED env
    <3>1. CASE ~env.there /\ env' = EmptyFile
      BY <1>1, <3>1, CreatingKeepsStarts
    <3>2. CASE env.there /\ append(Missing)
      <4>1. Missing \in SUBSET Key /\ Missing = {k \in Key : ~key_present(env, k)}
        BY DEF Missing
      <4>2. Nothing \in Key \cup {Nothing}
        OBVIOUS
      <4>3. QED
        BY <1>1, <3>2, <4>1, <4>2, AddingKeepsStarts DEF append
    <3>3. QED
      BY <2>2, <3>1, <3>2 DEF scaffold_env, Fail, files
  <2>3. CASE fill_env /\ ~UNCHANGED env
    <3>1. pc = "fill .env" /\ env' = WithBlocks(env, Key)
      BY <2>3 DEF fill_env, Fail, files
    <3>2. /\ env.there /\ Key = {k \in Key : ~key_present(env, k)}
          /\ env' = [WithBlocks(env, Key) EXCEPT !.open = env.open]
          /\ env.open \in Key \cup {Nothing}
      BY <1>1, <3>1, FillAdds
    <3>3. QED
      BY <1>1, <3>2, AddingKeepsStarts
  <2>4. QED
    BY <1>1, <2>1, <2>2, <2>3
       DEF InitSteps, scaffold_mcp_json, fill_mcp_json, scaffold_gitignore,
           fill_gitignore, Fail, files
<1>2. IInv /\ IInv' /\ [Next]_vars =>
        [InitSteps =>
           \A launch \in Launches, environ \in Environs :
             /\ Starts(launch, environ)
             /\ env.there \/ resolve_env_file(launch)' # "here"
             /\ resolve_env_file(launch) = "here" =>
                  \A k \in REQUIRED : environ[k] # Unset \/ env.kinds[k] # {"quoted"}
             => /\ Starts(launch, environ)'
                /\ Configured(launch, environ)' = Configured(launch, environ)]_vars
  BY <1>1
<1>3. QED
  BY <1>2, InvariantHolds, PTL DEF Spec, InitKeepsStarts
=============================================================================
