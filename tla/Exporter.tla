------------------------------ MODULE Exporter ------------------------------
(***************************************************************************)
(* ejudge-exporter/ejudge_parser.py: it logs in to a judging system, looks *)
(* at the page of each problem, and saves the last accepted solution.      *)
(* The solutions have numbers that are unique in the contest, with the     *)
(* problem, the status and the language that `site' gives for them.  Every *)
(* request may fail and every page may be other than what the script       *)
(* expects, which raises an exception that nobody catches; `outcome' tells *)
(* where this was.                                                         *)
(***************************************************************************)
EXTENDS Naturals, FiniteSets, FiniteSetsExt

CONSTANTS NumProblems,   \* problems of the contest: the ids are 1 .. NumProblems
          NumSolutions   \* what was submitted for them

ASSUME ExporterBounds == NumProblems \in Nat \ {0} /\ NumSolutions \in Nat \ {0}

Problems == 1 .. NumProblems
Solutions == 1 .. NumSolutions
CutOff == NumSolutions + 1          \* what a file has when its writing broke off
Languages == {"known", "unknown"}   \* to lang_formats.yml

VARIABLES site,          \* the solutions, as the pages show them
          sameName,      \* whether all problems have one name, or each its own
          count, problem_id,   \* the options
          stage,         \* "start", "login", "parse", "download" or "ended"
          formats,       \* self.formats: "none", the "table" of the file, or "null"
          sid,           \* whether self.sid exists
          i,             \* the problem it is at
          solution,      \* the one to be downloaded, or 0
          skipped,       \* the problems that had no table of solutions
          folders,       \* the problems whose folder exists
          files,         \* the solution in each file, CutOff, or 0 for no file
          outcome        \* "none", "done", or where an exception was raised

exporterVars == <<site, sameName, count, problem_id, stage, formats, sid, i, solution, skipped,
                  folders, files, outcome>>
setting == <<site, sameName, count, problem_id>>
saved == <<folders, files>>

Name(p) == IF sameName THEN 1 ELSE p
Paths == {Name(p) : p \in Problems} \X {"known", "txt"}   \* a folder and a format
Failures == {"formats", "login", "session", "page", "solution", "write"}

ExporterTypeOK ==
    /\ site \in [Solutions -> [problem : Problems, ok : BOOLEAN, lang : Languages]]
    /\ count \in 0 .. NumProblems /\ problem_id \in 0 .. NumProblems
    /\ stage \in {"start", "login", "parse", "download", "ended"}
    /\ formats \in {"none", "table", "null"} /\ sid \in BOOLEAN
    /\ i \in Problems /\ solution \in Solutions \cup {0}
    /\ skipped \subseteq Problems /\ folders \subseteq {Name(p) : p \in Problems}
    /\ files \in [Paths -> Solutions \cup {0, CutOff}]
    /\ \A path \in Paths : files[path] # 0 => path[1] \in folders
    /\ outcome \in {"none", "done"} \cup Failures
    /\ stage = "ended" <=> outcome # "none"

\* --problem_id is 0 if it is not given.
ExporterInit ==
    /\ site \in [Solutions -> [problem : Problems, ok : BOOLEAN, lang : Languages]]
    /\ sameName \in BOOLEAN
    /\ count \in 0 .. NumProblems /\ problem_id \in 0 .. NumProblems
    /\ stage = "start" /\ formats = "none" /\ sid = FALSE /\ i = 1 /\ solution = 0
    /\ skipped = {} /\ folders = {} /\ files = [path \in Paths |-> 0]
    /\ outcome = "none"

Stop(o) == stage' = "ended" /\ outcome' = o
Goto(l) == stage' = l /\ UNCHANGED outcome

\* The range of run() goes to `count'.  (Mutation: it goes one further.)
PastTheLast == i = count + 1
TheLast == i = count

\* The next problem, or the end.
Proceed ==
    IF problem_id # 0 \/ TheLast
    THEN Stop("done") /\ i' = i
    ELSE Goto("parse") /\ i' = i + 1

-----------------------------------------------------------------------------

\* __init__(): an empty file gives None; one that cannot be read or parsed gives an
\* AttributeError instead of {}, because self.logger does not exist yet.
Construct ==
    /\ stage = "start"
    /\ \/ formats' \in {"table", "null"} /\ Goto(IF problem_id = 0 THEN "login" ELSE "parse")
       \/ formats' = "none" /\ Stop("formats")
    /\ i' = IF problem_id = 0 THEN 1 ELSE problem_id
    /\ UNCHANGED <<setting, sid, solution, skipped, saved>>

\* login(): any of its assertions, or its request, may fail.
Login ==
    /\ stage = "login"
    /\ sid' = TRUE
    /\ IF count = 0 THEN Stop("done") ELSE Goto("parse")
    /\ UNCHANGED <<setting, formats, i, solution, skipped, saved>>

LoginFails ==
    /\ stage = "login"
    /\ Stop("login")
    /\ UNCHANGED <<setting, formats, sid, i, solution, skipped, saved>>

-----------------------------------------------------------------------------
(* parse_problem() *)

\* self.sid in l.144
NoSession ==
    /\ stage = "parse" /\ ~sid
    /\ Stop("session")
    /\ UNCHANGED <<setting, formats, sid, i, solution, skipped, saved>>

\* The request fails, there is no `probNav', or a row is not as find_td_source() expects.
BadPage ==
    /\ stage = "parse" /\ sid
    /\ Stop("page")
    /\ UNCHANGED <<setting, formats, sid, i, solution, skipped, saved>>

NoTable ==
    /\ stage = "parse" /\ sid
    /\ skipped' = skipped \cup {i}
    /\ Proceed
    /\ UNCHANGED <<setting, formats, sid, solution, saved>>

\* sort_by_status()
Accepted(p) == {s \in Solutions : site[s].problem = p /\ site[s].ok}

\* What convert_table_to_list() makes the first.  (Mutation: without reverse=True.)
Earliest(S) == Min(S)
Latest(S) == Max(S)

NoneAccepted ==
    /\ stage = "parse" /\ sid /\ Accepted(i) = {}
    /\ Proceed
    /\ UNCHANGED <<setting, formats, sid, solution, skipped, saved>>

Choose ==
    /\ stage = "parse" /\ sid /\ Accepted(i) # {}
    /\ solution' = Latest(Accepted(i))
    /\ Goto("download")
    /\ UNCHANGED <<setting, formats, sid, i, skipped, saved>>

-----------------------------------------------------------------------------
(* download_solution() *)

Format(s) == IF site[s].lang = "known" THEN "known" ELSE "txt"
Path(s) == <<Name(site[s].problem), Format(s)>>

\* A folder that cannot be made is only logged.
MakeFolder == folders' \in {folders, folders \cup {Name(i)}}

\* The request fails, the page has no code, or self.formats is None.
BadSolution ==
    /\ stage = "download"
    /\ MakeFolder
    /\ Stop("solution")
    /\ UNCHANGED <<setting, formats, sid, i, solution, skipped, files>>

\* open() fails, among other causes for want of the folder.
OpenFails ==
    /\ stage = "download" /\ formats # "null"
    /\ MakeFolder
    /\ Stop("write")
    /\ UNCHANGED <<setting, formats, sid, i, solution, skipped, files>>

\* open() makes the file, or empties the one that is there, and it has `content' then.
OpenAndWrite(content) ==
    /\ stage = "download" /\ formats # "null"
    /\ MakeFolder /\ Name(i) \in folders'
    /\ files' = [files EXCEPT ![Path(solution)] = content]

\* f.write() fails, or close() does: the disk is full, or the code cannot be encoded.
WriteFails ==
    /\ OpenAndWrite(CutOff)
    /\ Stop("write")
    /\ UNCHANGED <<setting, formats, sid, i, solution, skipped>>

Save ==
    /\ OpenAndWrite(solution)
    /\ solution' = 0
    /\ Proceed
    /\ UNCHANGED <<setting, formats, sid, skipped>>

-----------------------------------------------------------------------------

Ended == stage = "ended" /\ UNCHANGED exporterVars

ExporterNext ==
    \/ Construct \/ Login \/ LoginFails \/ NoSession \/ BadPage \/ NoTable \/ NoneAccepted
    \/ Choose \/ BadSolution \/ OpenFails \/ WriteFails \/ Save \/ Ended

ExporterSpec == ExporterInit /\ [][ExporterNext]_exporterVars

-----------------------------------------------------------------------------
(* Properties. *)

\* Wherever the script stops, each problem it has done with, and could read the table
\* of, has its file: with its last accepted solution, or with the one of a later problem
\* that has the same name and format (l.138), which may be cut off.  Cut off is at most
\* the one file the script was writing when it stopped, be it an earlier problem's; all
\* others have the last accepted solution of a problem, never a rejected solution or
\* one that another of the same problem replaced.
Saved ==
    LET IsLast(s) == \A t \in Solutions : site[t].problem = site[s].problem /\ site[t].ok => t <= s
        Past == 1 .. i - 1 \cup (IF outcome = "done" /\ count > 0 THEN {i} ELSE {})
        IsCutOff(path) == outcome = "write" /\ path = Path(solution) /\ files[path] = CutOff
    IN  /\ \A s \in Solutions :
              site[s].ok /\ IsLast(s) /\ problem_id = 0 /\ site[s].problem \in Past \ skipped
              => \/ /\ files[Path(s)] \in Solutions
                    /\ site[files[Path(s)]].problem \in site[s].problem .. i
                 \/ IsCutOff(Path(s))
        /\ \A path \in Paths :
              \/ files[path] = 0 \/ IsCutOff(path)
              \/ LET s == files[path]
                 IN  s \in Solutions /\ site[s].ok /\ IsLast(s) /\ Path(s) = path

\* `--problem_id INTEGER  Problem id to download' (README.md:22): the problem's page is
\* asked for in a session, as those of --count are.
DownloadsProblemId == outcome # "session"
=============================================================================
