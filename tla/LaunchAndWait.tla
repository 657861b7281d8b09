--------------------------- MODULE LaunchAndWait ---------------------------
(***************************************************************************)
(* launch_and_wait of tasks/discovery/orchestrator.py: a stage is started  *)
(* as a detached shell job, and its caller polls for the file in which the *)
(* job leaves its exit code.                                               *)
(*                                                                         *)
(* The calls modelled share one log path, hence one exit-code file: the    *)
(* attempts to train one edge.  One orchestrator process runs at a time,   *)
(* so the calls follow each other; but a call may end before its job, when *)
(* it times out or when its process dies.                                  *)
(***************************************************************************)
EXTENDS Naturals, FiniteSets

CONSTANTS
    Call,       \* the calls of launch_and_wait for the log path
    Code,       \* the exit codes of the stage
    NoCode      \* the code of a job that has not ended

ASSUME LaunchAssumption == {NoCode, "absent", "empty"} \cap Code = {}

VARIABLES
    caller,     \* [Call -> where the call is]
    job,        \* [Call -> where the detached shell is]
    code,       \* [Call -> the exit code of the stage]
    got,        \* [Call -> the return code in the LaunchResult]
    file        \* the exit-code file: "absent", "empty", or a code

launchVars == <<caller, job, code, got, file>>

Active == {c \in Call : caller[c] \in {"launching", "waiting", "reading"}}

-----------------------------------------------------------------------------
\* The caller

\* Mutant: the file of an earlier call is left in place.
BeginKeepsFileMutant(c) ==
    /\ caller[c] = "idle" /\ Active = {}
    /\ caller' = [caller EXCEPT ![c] = "launching"]
    /\ UNCHANGED <<job, code, got, file>>

\* exitcode_path.unlink(missing_ok=True)
Begin(c) ==
    /\ caller[c] = "idle" /\ Active = {}
    /\ caller' = [caller EXCEPT ![c] = "launching"]
    /\ file' = "absent"
    /\ UNCHANGED <<job, code, got>>

\* subprocess.run of the setsid command line, which returns at once.
Spawn(c) ==
    /\ caller[c] = "launching"
    /\ caller' = [caller EXCEPT ![c] = "waiting"]
    /\ job' = [job EXCEPT ![c] = "running"]
    /\ UNCHANGED <<code, got, file>>

\* exitcode_path.exists() is true.
Poll(c) ==
    /\ caller[c] = "waiting"
    /\ file # "absent"
    /\ caller' = [caller EXCEPT ![c] = "reading"]
    /\ UNCHANGED <<job, code, got, file>>

\* int(exitcode_path.read_text().strip()): an empty file raises ValueError.
Read(c) ==
    /\ caller[c] = "reading"
    /\ IF file \in Code
       THEN /\ caller' = [caller EXCEPT ![c] = "returned"]
            /\ got' = [got EXCEPT ![c] = file]
       ELSE /\ caller' = [caller EXCEPT ![c] = "raised"]
            /\ UNCHANGED got
    /\ UNCHANGED <<job, code, file>>

\* The deadline has passed: TimeoutError.
TimeOut(c) ==
    /\ caller[c] = "waiting"
    /\ file = "absent"
    /\ caller' = [caller EXCEPT ![c] = "timed_out"]
    /\ UNCHANGED <<job, code, got, file>>

\* The orchestrator process dies; the job, in its own session, does not.
Die(c) ==
    /\ c \in Active
    /\ caller' = [caller EXCEPT ![c] = "died"]
    /\ UNCHANGED <<job, code, got, file>>

-----------------------------------------------------------------------------
\* The detached shell: "(cmd) ...; echo $? > file"

Exit(c) ==
    /\ job[c] = "running"
    /\ job' = [job EXCEPT ![c] = "exited"]
    /\ \E x \in Code : code' = [code EXCEPT ![c] = x]
    /\ UNCHANGED <<caller, got, file>>

\* The redirection opens and truncates the file before echo runs.
Create(c) ==
    /\ job[c] = "exited"
    /\ job' = [job EXCEPT ![c] = "created"]
    /\ file' = "empty"
    /\ UNCHANGED <<caller, code, got>>

Write(c) ==
    /\ job[c] = "created"
    /\ job' = [job EXCEPT ![c] = "finished"]
    /\ file' = code[c]
    /\ UNCHANGED <<caller, code, got>>

-----------------------------------------------------------------------------
LaunchInit ==
    /\ caller = [c \in Call |-> "idle"]
    /\ job = [c \in Call |-> "none"]
    /\ code = [c \in Call |-> NoCode]
    /\ got = [c \in Call |-> NoCode]
    /\ file = "absent"

CallerStep(c) == Begin(c) \/ Spawn(c) \/ Poll(c) \/ Read(c) \/ TimeOut(c) \/ Die(c)
JobStep(c) == Exit(c) \/ Create(c) \/ Write(c)

LaunchNext == \E c \in Call : CallerStep(c) \/ JobStep(c)

LaunchSpec == LaunchInit /\ [][LaunchNext]_launchVars

-----------------------------------------------------------------------------
\* Properties

\* A call returns the exit code of the job that it launched, after that job has
\* ended ("then poll for its exit code"), as long as no other call for the log
\* path has ended before its job: an orphaned job would answer in its place.
ReturnsOwnCode ==
    \A c \in Call :
        /\ caller[c] = "returned"
        /\ \A d \in Call \ {c} : caller[d] \notin {"raised", "timed_out", "died"}
        => job[c] = "finished" /\ got[c] = code[c]
=============================================================================
