------------------------------- MODULE Config -------------------------------
(***************************************************************************)
(* AgentConfig::parseOptions.  An argument is abstracted to what stoul and *)
(* the checks make of it; the command line is any sequence of options.     *)
(***************************************************************************)
EXTENDS Integers

CONSTANTS MaxOptions, Numbers, None

\* A directory is what holds of it, out of what checkDir asks for.
DirChecks == {"absolute", "exists", "directory", "owned", "rwx"}
Dirs == {DirChecks} \cup {DirChecks \ {c} : c \in DirChecks}
CheckDir(dir) == dir = DirChecks

\* An argument for a number.  stoul accepts a minus sign and wraps around; the
\* assignment to an int then gives the negative number.
Texts == [kind : {"plain", "negative", "word", "huge"}, n : Numbers]
Invalid(text) == text.kind = "word"     \* std::invalid_argument
OutOfRange(text) == text.kind = "huge"  \* std::out_of_range
IntOf(text) == IF text.kind = "negative" THEN 0 - text.n ELSE text.n

VARIABLES
  cfg,      \* the members of AgentConfig; None is an uninitialized int
  given,    \* the members for which use_defaults is cleared
  outcome,  \* "parsing", what parseOptions returned, or "threw"
  left      \* options that may still come

configVars == <<cfg, given, outcome, left>>

NumericOptions == {"maxAge", "interval", "port", "node", "shim"}
Defaulted == {"maxAge", "interval", "port", "shim"}
Default == [maxAge |-> 86400, interval |-> 3600, port |-> 2005, shim |-> 50, minPct |-> 20]

Ints == Int \cup {None}

\* The type of every variable; accepted options leave no value without a default.
ConfigTypeOK ==
  /\ cfg \in [workdir : Dirs \cup {None}, maxAge : Ints, interval : Ints, port : Ints,
              node : Int, shim : Ints, minMb : Int, minPct : Int, can : BOOLEAN]
  /\ given \subseteq NumericOptions \cup {"minfree"}
  /\ outcome \in {"parsing", "true", "false", "threw"}
  /\ left \in 0..MaxOptions
  /\ outcome = "true" => \A f \in Defaulted : cfg[f] # None

ConfigInit ==
  /\ cfg = [workdir |-> None, maxAge |-> None, interval |-> None, port |-> None,
            node |-> 0, shim |-> None, minMb |-> -1, minPct |-> -1, can |-> FALSE]
  /\ given = {}
  /\ outcome = "parsing"
  /\ left = MaxOptions

-----------------------------------------------------------------------------
Option == outcome = "parsing" /\ left > 0 /\ left' = left - 1
Fail == outcome' = "false" /\ UNCHANGED <<cfg, given>>

Workdir(dir) ==
  /\ Option
  /\ cfg' = [cfg EXCEPT !.workdir = dir]
  /\ outcome' = IF CheckDir(dir) THEN outcome ELSE "false"
  /\ UNCHANGED given

\* -t, -i, -p, -n and -N.  Only invalid_argument is caught.
Number(o, text) ==
  /\ Option
  /\ \/ Invalid(text) /\ Fail
     \/ OutOfRange(text) /\ outcome' = "threw" /\ UNCHANGED <<cfg, given>>
     \/ /\ ~Invalid(text) /\ ~OutOfRange(text)
        /\ cfg' = [cfg EXCEPT ![o] = IntOf(text)]
        /\ given' = given \cup {o}
        /\ UNCHANGED outcome

MinFree(text, unit) ==
  /\ Option
  /\ \/ (Invalid(text) \/ (~OutOfRange(text) /\ unit = "none")) /\ Fail
     \/ OutOfRange(text) /\ outcome' = "threw" /\ UNCHANGED <<cfg, given>>
     \/ /\ ~Invalid(text) /\ ~OutOfRange(text) /\ unit # "none"
        /\ cfg' = IF unit = "M" THEN [cfg EXCEPT !.minMb = IntOf(text)]
                  ELSE [cfg EXCEPT !.minPct = IntOf(text)]
        /\ given' = given \cup {"minfree"}
        /\ UNCHANGED outcome

Can ==
  /\ Option
  /\ cfg' = [cfg EXCEPT !.can = TRUE]
  /\ UNCHANGED <<given, outcome>>

\* -s and a good -l change only the log; a bad -l, -f and an unknown option fail.
LogOption == Option /\ UNCHANGED <<cfg, given, outcome>>
BadOption == Option /\ Fail

FinishNoNode ==
  /\ outcome = "parsing"
  /\ outcome' = IF cfg.workdir = None THEN "false" ELSE "true"
  /\ cfg' = [f \in DOMAIN cfg |-> IF f \in Defaulted \ given THEN Default[f] ELSE cfg[f]]
  /\ UNCHANGED <<given, left>>

\* The end of the command line: what is missing fails or has a default.
Finish ==
  /\ outcome = "parsing"
  /\ IF cfg.workdir = None \/ (cfg.can /\ cfg.node = 0) THEN Fail
     ELSE /\ cfg' = [f \in DOMAIN cfg |->
                       IF f \in Defaulted \ given THEN Default[f]
                       ELSE IF f = "minPct" /\ "minfree" \notin given THEN Default[f]
                       ELSE cfg[f]]
          /\ outcome' = "true"
          /\ UNCHANGED given
  /\ UNCHANGED left

ConfigNext ==
  \/ \E dir \in Dirs : Workdir(dir)
  \/ \E text \in Texts :
       \/ \E o \in NumericOptions : Number(o, text)
       \/ \E unit \in {"M", "%", "none"} : MinFree(text, unit)
  \/ Can \/ LogOption \/ BadOption \/ Finish

ConfigSpec == ConfigInit /\ [][ConfigNext]_configVars

-----------------------------------------------------------------------------
\* A configuration that parseOptions accepts can be started from: the working
\* directory has passed checkDir even if -w came twice, and a CAN interface has
\* a node id whatever the order of the options.
AcceptedIsUsable ==
  outcome = "true" =>
    /\ cfg.workdir # None /\ CheckDir(cfg.workdir)
    /\ cfg.can => cfg.node # 0
=============================================================================
