------------------------------ MODULE Project ------------------------------
(***************************************************************************)
(* init.py, config.py and the startup of __main__.py and server.py: a      *)
(* project directory that the init command scaffolds, its user edits and   *)
(* servers are started from.                                               *)
(*                                                                         *)
(* A .env file is what its two readers make of it: for each key the kinds  *)
(* of lines that assign it, of which key_present matches some, the value   *)
(* of the last live one (dotenv_values), and the key whose line is last    *)
(* and lacks its newline; "additions" counts what init has written to it.  *)
(* init runs in steps that may fail or be the last: a file is created and  *)
(* then written.  Nobody else edits the directory while init runs.         *)
(***************************************************************************)
EXTENDS Integers, FiniteSets

CONSTANTS Launches,   \* how servers are started: [cli, locator, project_dir, cwd]
          Environs,   \* [Key -> a value, or Unset]: their environment
          Elsewhere,  \* the .env of another directory, as env below
          Lines,      \* what the user writes: [key, kind, value, open]
          MaxRuns,    \* bound: runs of init
          MaxEdits    \* bound: edits of the user

REQUIRED == {"SHDOC_API_KEY", "SHDOC_DOC_ID"}
FLAG == "SHDOC_ALLOW_DESTRUCTIVE"
LEVEL == "SHDOC_LOG_LEVEL"
Key == REQUIRED \cup {FLAG, LEVEL}

\* The values keys can have: blank, an affirmative or a level, anything else.
Unset == "unset"
Value == {"", "good", "other"}

\* Lines that assign a key: dotenv_values reads all but the commented ones,
\* 'KEY'=value included; _ASSIGNMENT matches all but those quoted keys.
Kind == {"commented", "plain", "exported", "quoted"}
Live == Kind \ {"commented"}
Matched == Kind \ {"quoted"}

Nothing == "nothing"
EnvFile ==
  [there : BOOLEAN, kinds : [Key -> SUBSET Kind],
   value : [Key -> Value \cup {Unset}], open : Key \cup {Nothing}, additions : Nat]
NoFile ==
  [there |-> FALSE, kinds |-> [k \in Key |-> {}],
   value |-> [k \in Key |-> Unset], open |-> Nothing, additions |-> 0]
EmptyFile == [NoFile EXCEPT !.there = TRUE]

Place == {"here", "elsewhere"}
Artifact == {".env", ".mcp.json", ".gitignore"}

ASSUME ProjectAssumption ==
  /\ Launches \subseteq
       [cli : Place \cup {"nowhere", Unset}, locator : Place \cup {"nowhere", Unset},
        project_dir : Place \cup {Unset}, cwd : Place]
  /\ Environs \subseteq [Key -> Value \cup {Unset}]
  /\ Elsewhere \in EnvFile
  /\ Lines \subseteq [key : Key, kind : Kind, value : Value, open : BOOLEAN]
  /\ MaxRuns \in Nat /\ MaxEdits \in Nat

VARIABLES
  env,        \* the .env of the project
  mcp,        \* its .mcp.json: what it registers
  gitignore,  \* its .gitignore: does it ignore .env
  pc,         \* the step init is at
  failed,     \* the artifacts this run reports as failed
  stanza,     \* has this run shown what to register
  runs, edits,  \* counters, bounded
  settled,    \* history variable: init succeeded and nothing was edited since
  server      \* the server, and what it was started from

files == <<env, mcp, gitignore>>
process == <<pc, failed, stanza, runs>>
vars == <<files, process, edits, settled, server>>

Down == [up |-> FALSE]
Registration == {"absent", "empty", "current", "other"}

Init ==
  /\ env = NoFile
  /\ mcp \in Registration \ {"empty"}
  /\ gitignore \in {"absent", "silent", "ignores"}
  /\ pc = "idle"
  /\ failed = {}
  /\ stanza = FALSE
  /\ runs = 0
  /\ edits = 0
  /\ settled = FALSE
  /\ server = Down

-----------------------------------------------------------------------------
(* The .env file.                                                           *)

\* Mutant of key_present: the prefix `export` is not recognised.
key_present_unexported(file, k) == file.kinds[k] \cap {"commented", "plain"} # {}

\* Mutant of key_present: a commented line is not a decision.
key_present_live(file, k) == file.kinds[k] \cap {"plain", "exported"} # {}

\* key_present: commented out or not, with `export` or without.
key_present(file, k) == file.kinds[k] \cap Matched # {}

\* The blocks of the template: the required keys are there to be filled in,
\* the others are commented out.
TemplateKind(k) == IF k \in REQUIRED THEN "plain" ELSE "commented"

\* Several blocks, each for a key of its own.
WithBlocks(file, keys) ==
  [file EXCEPT
    !.kinds = [k \in Key |->
      IF k \in keys THEN file.kinds[k] \cup {TemplateKind(k)} ELSE file.kinds[k]],
    !.value = [k \in Key |->
      IF k \in keys /\ TemplateKind(k) \in Live THEN "" ELSE file.value[k]],
    !.additions = @ + 1]

\* Mutant of append: a last line without a newline runs into the first line
\* appended, which is a comment: it becomes part of the value.
append_welding(keys) ==
  env' = [WithBlocks(env, keys) EXCEPT
            !.value = [k \in Key |->
              IF k = env.open THEN "other" ELSE WithBlocks(env, keys).value[k]],
            !.open = Nothing]

\* append of the blocks: on a line of their own.
append(keys) == env' = [WithBlocks(env, keys) EXCEPT !.open = Nothing]

-----------------------------------------------------------------------------
(* The init command.                                                        *)

\* `superhumandoc-mcp init`
RunInit ==
  /\ pc = "idle"
  /\ runs < MaxRuns
  /\ runs' = runs + 1
  /\ pc' = ".env"
  /\ UNCHANGED <<files, failed, stanza, edits, settled, server>>

\* What _attempt makes of an error: the next artifact has its turn.
Fail(artifact, next) ==
  /\ failed' = failed \cup {artifact}
  /\ pc' = next
  /\ UNCHANGED <<files, stanza>>

Go(next) == pc' = next /\ UNCHANGED failed

Missing == {k \in Key : ~key_present(env, k)}

\* scaffold_env: create, append what is missing, or leave alone.
scaffold_env ==
  /\ pc = ".env"
  /\ \/ Fail(".env", ".mcp.json")
     \/ ~env.there /\ env' = EmptyFile /\ Go("fill .env")
     \/ env.there /\ Missing = {} /\ UNCHANGED env /\ Go(".mcp.json")
     \/ env.there /\ Missing # {} /\ append(Missing) /\ Go(".mcp.json")
  /\ UNCHANGED <<mcp, gitignore, stanza, runs, edits, settled, server>>

\* The new file gets the template; then its mode may fail to be set.
fill_env ==
  /\ pc = "fill .env"
  /\ \/ Fail(".env", ".mcp.json")
     \/ /\ env' = WithBlocks(env, Key)
        /\ pc' = ".mcp.json"
        /\ failed' \in {failed, failed \cup {".env"}}
  /\ UNCHANGED <<mcp, gitignore, stanza, runs, edits, settled, server>>

\* scaffold_mcp_json: create, or say what to change in the one there is.
scaffold_mcp_json ==
  /\ pc = ".mcp.json"
  /\ \/ Fail(".mcp.json", ".gitignore")
     \/ mcp = "absent" /\ mcp' = "empty" /\ Go("fill .mcp.json") /\ UNCHANGED stanza
     \/ mcp # "absent" /\ stanza' = (mcp # "current") /\ Go(".gitignore") /\ UNCHANGED mcp
  /\ UNCHANGED <<env, gitignore, runs, edits, settled, server>>

fill_mcp_json ==
  /\ pc = "fill .mcp.json"
  /\ \/ Fail(".mcp.json", ".gitignore")
     \/ mcp' = "current" /\ Go(".gitignore")
  /\ UNCHANGED <<env, gitignore, stanza, runs, edits, settled, server>>

\* scaffold_gitignore: create, append, or leave alone.
scaffold_gitignore ==
  /\ pc = ".gitignore"
  /\ \/ Fail(".gitignore", "report")
     \/ gitignore = "absent" /\ gitignore' = "silent" /\ Go("fill .gitignore")
     \/ gitignore = "ignores" /\ UNCHANGED gitignore /\ Go("report")
     \/ gitignore = "silent" /\ gitignore' = "ignores" /\ Go("report")
  /\ UNCHANGED <<env, mcp, stanza, runs, edits, settled, server>>

fill_gitignore ==
  /\ pc = "fill .gitignore"
  /\ \/ Fail(".gitignore", "report")
     \/ gitignore' = "ignores" /\ Go("report")
  /\ UNCHANGED <<env, mcp, stanza, runs, edits, settled, server>>

\* Mutant of ExitCode: the exit code of the last artifact.
ExitCodeOfTheLast == IF ".gitignore" \in failed THEN 2 ELSE 0

\* run_init's exit code.
ExitCode == IF failed = {} THEN 0 ELSE 2

\* The process is gone, with what it knew.
Gone ==
  /\ pc' = "idle"
  /\ failed' = {}
  /\ stanza' = FALSE
  /\ UNCHANGED <<files, runs, edits, server>>

Exit == pc = "report" /\ Gone /\ settled' = (ExitCode = 0)

\* The process is killed between two of its steps.
Kill == pc # "idle" /\ Gone /\ settled' = FALSE

InitSteps ==
  \/ scaffold_env \/ fill_env \/ scaffold_mcp_json \/ fill_mcp_json
  \/ scaffold_gitignore \/ fill_gitignore

-----------------------------------------------------------------------------
(* The user, and the server.                                                *)

\* The user writes a line at the end, with or without its newline.
Edit(line) ==
  /\ pc = "idle"
  /\ edits < MaxEdits
  /\ edits' = edits + 1
  /\ env' =
       [there |-> TRUE,
        kinds |-> [env.kinds EXCEPT ![line.key] = @ \cup {line.kind}],
        value |-> IF line.kind \in Live THEN [env.value EXCEPT ![line.key] = line.value]
                  ELSE env.value,
        open |-> IF line.open THEN line.key ELSE Nothing,
        additions |-> env.additions]
  /\ settled' = FALSE
  /\ UNCHANGED <<mcp, gitignore, process, server>>

\* resolve_env_file: a named file or none; else the first inferred one that
\* is there.  "nowhere" is a path without a file.
File(place) == CASE place = "here" -> env [] place = "elsewhere" -> Elsewhere
                 [] OTHER -> NoFile

Named(launch) == IF launch.cli # Unset THEN launch.cli ELSE launch.locator

\* Mutant of resolve_env_file: a named file that is missing is passed over.
resolve_env_file_lenient(launch) ==
  IF File(Named(launch)).there THEN Named(launch)
  ELSE IF File(launch.project_dir).there THEN launch.project_dir
  ELSE launch.cwd

resolve_env_file(launch) ==
  IF Named(launch) # Unset THEN Named(launch)
  ELSE IF File(launch.project_dir).there THEN launch.project_dir
  ELSE launch.cwd

\* load_config: the environment goes before the file.
Resolved(file, environ) ==
  [k \in Key |-> IF environ[k] # Unset THEN environ[k] ELSE file.value[k]]

\* The flag alone is armed only by every source that has it.
Flags(file, environ) == {file.value[FLAG], environ[FLAG]} \ {Unset}

\* Mutant of allow_destructive: precedence decides, as for every other key.
allow_destructive_by_precedence(file, environ) == Resolved(file, environ)[FLAG] = "good"

allow_destructive(file, environ) ==
  Flags(file, environ) # {} /\ \A v \in Flags(file, environ) : v = "good"

Loads(file, environ) ==
  /\ file.there
  /\ \A k \in REQUIRED : Resolved(file, environ)[k] \notin {"", Unset}
  /\ Resolved(file, environ)[LEVEL] # "other"

\* The configuration a start loads, if it does.
Configured(launch, environ) ==
  LET place == resolve_env_file(launch)
  IN  [place |-> place,
       resolved |-> [Resolved(File(place), environ) EXCEPT ![FLAG] = Unset],
       gated |-> allow_destructive(File(place), environ)]

Starts(launch, environ) == Loads(File(resolve_env_file(launch)), environ)

\* main(): whoami stops the start only by a 401; build_server registers the
\* gated tools or does not.
Start(launch, environ, status) ==
  /\ ~server.up
  /\ Starts(launch, environ)
  /\ status # 401
  /\ LET config == Configured(launch, environ)
     IN  server' = [up |-> TRUE, named |-> Named(launch), place |-> config.place,
                    gated |-> config.gated,
                    refused |-> Flags(File(config.place), environ) \ {"good"} # {}]
  /\ UNCHANGED <<files, process, edits, settled>>

Stop ==
  /\ server.up
  /\ server' = Down
  /\ UNCHANGED <<files, process, edits, settled>>

Next ==
  \/ RunInit \/ InitSteps \/ Exit \/ Kill
  \/ \E line \in Lines : Edit(line)
  \/ \E launch \in Launches, environ \in Environs, status \in {401, 403} :
       Start(launch, environ, status)
  \/ Stop

Spec == Init /\ [][Next]_vars

-----------------------------------------------------------------------------
\* Types of the variables.
TypeOK ==
  /\ env \in EnvFile
  /\ mcp \in Registration
  /\ gitignore \in {"absent", "silent", "ignores"}
  /\ pc \in {"idle", "report"} \cup Artifact \cup {"fill .env", "fill .mcp.json", "fill .gitignore"}
  /\ failed \subseteq Artifact
  /\ stanza \in BOOLEAN
  /\ runs \in 0..MaxRuns /\ edits \in 0..MaxEdits
  /\ settled \in BOOLEAN
  /\ server.up \in BOOLEAN

\* No step of init changes what a server that could be started would be
\* started with: nothing it appends shadows, garbles or restricts a setting
\* that is there (init.py:24-31; "nothing is deleted, so nothing looks
\* wrong").  A .env it creates may come before the one in use until then, and
\* a required key that only lines with a quoted key set in that .env is
\* shadowed: dotenv reads it, and key_present does not.
InitKeepsStarts ==
  [][InitSteps =>
       \A launch \in Launches, environ \in Environs :
         /\ Starts(launch, environ)
         /\ env.there \/ resolve_env_file(launch)' # "here"
         /\ resolve_env_file(launch) = "here" =>
              \A k \in REQUIRED : environ[k] # Unset \/ env.kinds[k] # {"quoted"}
         => /\ Starts(launch, environ)'
            /\ Configured(launch, environ)' = Configured(launch, environ)]_vars

\* A run that ends with exit code 0 has left the directory whole, whatever
\* earlier runs that failed or were killed had left there: every key is
\* present in a form that a rerun sees, .env is ignored, and the server is registered or the run has
\* said how to.
InitDelivers ==
  pc = "report" /\ ExitCode = 0 =>
    /\ env.there /\ \A k \in Key : env.kinds[k] \cap Matched # {}
    /\ gitignore = "ignores"
    /\ mcp = "current" \/ stanza

\* A run after one that succeeded finds nothing to do.
RerunChangesNothing == [][InitSteps /\ settled => UNCHANGED files]_vars

\* A server that was told its file serves from no other one, and has the
\* gated tools only if no source that speaks of them refuses
\* (resolve_env_file's docstring; load_config's comment on the flag).
ServesAsTold ==
  server.up =>
    /\ server.named \in {Unset, server.place}
    /\ ~(server.gated /\ server.refused)
=============================================================================
