------------------------------ MODULE ConfigLog ------------------------------
(***************************************************************************)
(* The configuration variable "logs" (config.h, config.cpp) and the        *)
(* loggers it configures (log.h, log.cpp).                                 *)
(*                                                                         *)
(* A thread loads a YAML document: the text becomes a set of LogDefines,   *)
(* ConfigVar::setValue compares it with m_val and runs LogIniter's         *)
(* listener under a read lock, and assigns m_val under a write lock of its *)
(* own.  Meanwhile other threads write messages, which holds the spin lock *)
(* of a logger for as long as its appenders write, and change loggers      *)
(* directly.  A listener that finds a definition it takes for unchanged    *)
(* dereferences a null logger, and the process ends (crashed).             *)
(***************************************************************************)
EXTENDS LogFormatter, FiniteSets, SequencesExt

CONSTANTS
    Threads, NoThread,
    Names,          \* configurable loggers, numbered in the order of their names
    Documents,      \* the YAML documents: sequences of nodes
    MessageLevels,  \* levels that messages are written at
    ProgramLevels,  \* levels the program itself sets,
    Formats,        \* and patterns
    MaxCalls        \* bound on the calls of all threads

Root == 0       \* m_root of every named logger
Unnamed == -1   \* a node without a name
Loggers == Names \cup {Root}

UNKNOW == 0
DEBUG == 1
Levels == UNKNOW .. 5

DefaultPattern == <<"%", "m">>

OFF == 100      \* the level of a logger that was removed from the configuration

AppenderTypes == {"StdoutLogAppender", "FileLogAppender"}

Absent == "absent"  \* the file of an appender node that has none
NoFile == "none"    \* the file of an appender that writes to none: the empty string
FileName == STRING \cup {NoFile}

\* A node of a document; file: whether it has a file itself.
AppenderNode == [type : STRING, formatter : Seq(Alphabet), file : STRING]
Node == [name : Names \cup {Unnamed}, level : STRING, formatter : Seq(Alphabet), file : BOOLEAN,
         appenders : Seq(AppenderNode)]

\* The level of a LogAppenderDefine is never read from a document: UNKNOW.
LogAppenderDefine == [type : AppenderTypes, formatter : Seq(Alphabet), file : FileName]
LogDefine == [name : Names, level : Levels, formatter : Seq(Alphabet),
              appenders : Seq(LogAppenderDefine)]
NoDefine == [name |-> Unnamed]

VARIABLES
    m_val,          \* the variable's value: at most one LogDefine for a name
    m_mutex,        \* its lock: the threads that hold it for reading
    loggers,        \* the loggers that exist
    spin,           \* the holder of each logger's lock
    pc,
    new_value,      \* setValue's argument
    todo,           \* the listener's loops: definitions of new_value left
    gone,           \* definitions of old_value left that new_value does not have
    now,            \* the one at hand
    adding,         \* its appenders left to add
    msg,            \* the message a thread writes
    calls,          \* calls left
    crashed,
    overlap,        \* two setValues were under way at once
    touched,        \* loggers the program has changed itself
    configured      \* names that were ever in m_val

configVars == <<m_val, m_mutex, new_value, overlap, configured>>
listenerVars == <<todo, gone, now, adding>>
logVars == <<loggers, spin>>
vars == <<configVars, listenerVars, logVars, pc, msg, calls, crashed, touched>>

-----------------------------------------------------------------------------
(* LexicalCast<std::string, std::set<LogDefine>>.                              *)

\* LogLevel::FromString: lower or upper case, not a mixture.
FromString(s) ==
    CASE s \in {"debug", "DEBUG"} -> DEBUG
      [] s \in {"info", "INFO"} -> 2
      [] s \in {"warn", "WARN"} -> 3
      [] s \in {"error", "ERROR"} -> 4
      [] s \in {"fatal", "FATAL"} -> 5
      [] OTHER -> UNKNOW

\* The appenders that are kept: those of a known type; a file appender if the node of
\* its logger has a file.
Keeps(node, a) ==
    \/ a.type = "StdoutLogAppender"
    \/ a.type = "FileLogAppender" /\ node.file

KeptOf(node) ==
    LET kept[k \in 0 .. Len(node.appenders)] ==
            IF k = 0 THEN <<>>
            ELSE IF Keeps(node, node.appenders[k]) THEN Append(kept[k - 1], node.appenders[k])
            ELSE kept[k - 1]
    IN kept

KeptAppenders(node) == KeptOf(node)[Len(node.appenders)]

ASSUME ConfigLogAssumption ==
    /\ NoThread \notin Threads /\ IsFiniteSet(Names) /\ Names \subseteq Nat \ {Root}
    /\ \A doc \in Documents : doc \in Seq(Node)
    /\ \A p \in Formats \cup {DefaultPattern} : p \in Seq(Alphabet) \ {<<>>}
    /\ FormatterError(DefaultPattern) = "no"
    /\ MessageLevels \subseteq DEBUG .. 5 /\ ProgramLevels \subseteq Levels
    /\ MaxCalls \in Nat

\* The file name of an appender is converted without a test that there is one.
CastThrows(doc) ==
    \E k \in DOMAIN doc :
        /\ doc[k].name # Unnamed
        /\ \E j \in DOMAIN KeptAppenders(doc[k]) :
              LET a == KeptAppenders(doc[k])[j] IN a.type = "FileLogAppender" /\ a.file = Absent

AppenderDefine(a) == [a EXCEPT !.file = IF a.type = "FileLogAppender" THEN @ ELSE NoFile]

\* A node without a name is dropped, and one whose name is in the set already.
LexicalCast(doc) ==
    LET named == {k \in DOMAIN doc : doc[k].name # Unnamed}
        first == {k \in named : \A j \in named : doc[j].name = doc[k].name => k <= j}
        define(node) == [name |-> node.name, level |-> FromString(node.level),
                         formatter |-> node.formatter,
                         appenders |-> [j \in DOMAIN KeptAppenders(node) |-> AppenderDefine(KeptAppenders(node)[j])]]
    IN {define(doc[k]) : k \in first}

\* LogDefine::operator==, in which any two levels that are set are equal; appenders are
\* compared by type, formatter and file.
SameDefine(d, e) ==
    /\ d.name = e.name /\ d.formatter = e.formatter /\ d.appenders = e.appenders
    /\ d.level # UNKNOW /\ e.level # UNKNOW

SameValue(v, w) ==
    /\ Cardinality(v) = Cardinality(w)
    /\ \A d \in v : \E e \in w : SameDefine(d, e)

-----------------------------------------------------------------------------
(* Loggers.                                                                    *)

NewLogger(appenders) == [m_level |-> DEBUG, m_formatter |-> DefaultPattern, m_appenders |-> appenders]

NewAppender(type, file, level) ==
    [type |-> type, m_filename |-> file, m_level |-> level,
     m_formatter |-> <<>>, m_hasFormatter |-> FALSE]

\* LoggerManager::getLogger: a logger that is not found is made, without appenders.
GetLogger(n) ==
    [m \in DOMAIN loggers \cup {n} |-> IF m \in DOMAIN loggers THEN loggers[m] ELSE NewLogger(<<>>)]

\* addAppender gives an appender without a formatter the logger's, as its own.
WithFormatter(a, logger) ==
    IF a.m_formatter # <<>> THEN a
    ELSE [a EXCEPT !.m_formatter = logger.m_formatter, !.m_hasFormatter = TRUE]

AddAppender(n, a) ==
    [loggers EXCEPT ![n].m_appenders = Append(@, WithFormatter(a, loggers[n]))]

\* setFormatter of a formatter: appenders without one of their own take it too.
SetFormatterPtr(n, p) ==
    [loggers EXCEPT ![n].m_formatter = p,
                    ![n].m_appenders = [k \in DOMAIN @ |->
                        IF @[k].m_hasFormatter THEN @[k] ELSE [@[k] EXCEPT !.m_formatter = p]]]

\* setFormatter of a pattern: a pattern in error is refused.  The result depends on
\* other memory for a pattern that ends in %d.
SetFormatterText(n, p) ==
    LET set == [loggers EXCEPT ![n].m_formatter = p]
    IN CASE FormatterError(p) = "yes" -> {loggers}
         [] FormatterError(p) = "no" -> {set}
         [] OTHER -> {loggers, set}

Free(n) == spin[n] = NoThread

\* A message on its way: the appenders when the lock was taken (seen), the next one to be
\* called, those that wrote it and those whose level was changed meanwhile (positions).
NoMsg == [logger |-> Root, level |-> DEBUG, accepted |-> FALSE, seen |-> <<>>, next |-> 1,
          wrote |-> {}, changed |-> {}]

Init ==
    /\ m_val = {} /\ m_mutex = {} /\ overlap = FALSE /\ configured = {}
    /\ new_value = [t \in Threads |-> {}]
    /\ todo = [t \in Threads |-> {}] /\ gone = [t \in Threads |-> {}]
    /\ now = [t \in Threads |-> NoDefine] /\ adding = [t \in Threads |-> <<>>]
    /\ LET stdout == NewAppender("StdoutLogAppender", NoFile, DEBUG)
       IN loggers = [n \in {Root} |-> NewLogger(<<WithFormatter(stdout, NewLogger(<<>>))>>)]
    /\ spin = [n \in Loggers |-> NoThread]
    /\ pc = [t \in Threads |-> "idle"] /\ msg = [t \in Threads |-> NoMsg]
    /\ calls = MaxCalls /\ crashed = FALSE /\ touched = {}

-----------------------------------------------------------------------------
(* Config::LoadFromYaml -> fromString -> setValue -> LogIniter's listener.     *)

Call(t) == pc[t] = "idle" /\ calls > 0 /\ calls' = calls - 1
Goto(t, l) == pc' = [pc EXCEPT ![t] = l]

SetValuePC == {"rdlock", "define", "level", "formatter", "clear", "add", "gone", "off", "unlock", "wrlock"}
Setting == {t \in Threads : pc[t] \in SetValuePC}

\* A cast that throws is caught by fromString, and the value is left alone.
LoadFromYaml(t, doc) ==
    /\ Call(t)
    /\ IF CastThrows(doc)
       THEN UNCHANGED <<pc, new_value, overlap>>
       ELSE /\ Goto(t, "rdlock")
            /\ new_value' = [new_value EXCEPT ![t] = LexicalCast(doc)]
            /\ overlap' = (overlap \/ Setting # {})
    /\ UNCHANGED <<m_val, m_mutex, configured, listenerVars, logVars, msg, crashed, touched>>

\* The first of a std::set of definitions: LogDefine::operator<.
First(S) == {d \in S : \A e \in S : d.name <= e.name}

ReadLock(t) ==
    /\ pc[t] = "rdlock"
    /\ IF SameValue(new_value[t], m_val)
       THEN Goto(t, "idle") /\ UNCHANGED <<m_mutex, listenerVars>>
       ELSE /\ Goto(t, "define")
            /\ m_mutex' = m_mutex \cup {t}
            /\ todo' = [todo EXCEPT ![t] = new_value[t]]
            /\ gone' = [gone EXCEPT ![t] = {d \in m_val : \A e \in new_value[t] : e.name # d.name}]
            /\ UNCHANGED <<now, adding>>
    /\ UNCHANGED <<m_val, new_value, overlap, configured, logVars, msg, calls, crashed, touched>>

\* The next definition.  The logger is looked up only if the definition is not in the
\* old value or differs from it; it is used in any case.
Define(t) ==
    /\ pc[t] = "define"
    /\ \/ /\ todo[t] = {} /\ Goto(t, "gone")
          /\ UNCHANGED <<todo, now, loggers, crashed>>
       \/ \E d \in First(todo[t]) :
             IF \E e \in m_val : SameDefine(e, d)
             THEN crashed' = TRUE /\ UNCHANGED <<pc, todo, now, loggers>>
             ELSE /\ todo' = [todo EXCEPT ![t] = @ \ {d}]
                  /\ now' = [now EXCEPT ![t] = d]
                  /\ Goto(t, "level")
                  /\ loggers' = GetLogger(d.name)
                  /\ UNCHANGED crashed
    /\ UNCHANGED <<configVars, gone, adding, spin, msg, calls, touched>>

SetLevel(t) ==
    /\ pc[t] = "level" /\ Goto(t, "formatter")
    /\ loggers' = [loggers EXCEPT ![now[t].name].m_level = now[t].level]
    /\ UNCHANGED <<configVars, listenerVars, spin, msg, calls, crashed, touched>>

SetFormatter(t) ==
    /\ pc[t] = "formatter" /\ Goto(t, "clear")
    /\ LET d == now[t]
       IN loggers' \in IF d.formatter = <<>> THEN {loggers} ELSE SetFormatterText(d.name, d.formatter)
    /\ UNCHANGED <<configVars, listenerVars, spin, msg, calls, crashed, touched>>

\* Mutant: the appenders of the old configuration stay.
ClearForDefine_Kept(t) ==
    /\ pc[t] = "clear" /\ Goto(t, "add")
    /\ adding' = [adding EXCEPT ![t] = now[t].appenders]
    /\ UNCHANGED <<configVars, loggers, spin, todo, gone, now, msg, calls, crashed, touched>>

ClearForDefine(t) ==
    LET d == now[t]
    IN /\ pc[t] = "clear" /\ Free(d.name) /\ Goto(t, "add")
       /\ loggers' = [loggers EXCEPT ![d.name].m_appenders = <<>>]
       /\ adding' = [adding EXCEPT ![t] = d.appenders]
       /\ UNCHANGED <<configVars, spin, todo, gone, now, msg, calls, crashed, touched>>

AddForDefine(t) ==
    LET n == now[t].name
    IN /\ pc[t] = "add" /\ adding[t] # <<>> /\ Free(n)
       /\ LET a == Head(adding[t])   \* its formatter is not looked at
          IN loggers' = AddAppender(n, NewAppender(a.type, a.file, UNKNOW))
       /\ adding' = [adding EXCEPT ![t] = Tail(@)]
       /\ UNCHANGED <<configVars, spin, pc, todo, gone, now, msg, calls, crashed, touched>>

EndDefine(t) ==
    /\ pc[t] = "add" /\ adding[t] = <<>> /\ Goto(t, "define")
    /\ now' = [now EXCEPT ![t] = NoDefine]
    /\ UNCHANGED <<configVars, logVars, todo, gone, adding, msg, calls, crashed, touched>>

\* A logger that is not in the new value any more.
Gone(t) ==
    /\ pc[t] = "gone"
    /\ \/ /\ gone[t] = {} /\ Goto(t, "unlock")
          /\ UNCHANGED <<gone, now, loggers>>
       \/ \E d \in First(gone[t]) :
             /\ gone' = [gone EXCEPT ![t] = @ \ {d}]
             /\ now' = [now EXCEPT ![t] = d]
             /\ Goto(t, "off")
             /\ loggers' = [GetLogger(d.name) EXCEPT ![d.name].m_level = OFF]
    /\ UNCHANGED <<configVars, todo, adding, spin, msg, calls, crashed, touched>>

ClearGone(t) ==
    LET n == now[t].name
    IN /\ pc[t] = "off" /\ Free(n) /\ Goto(t, "gone")
       /\ loggers' = [loggers EXCEPT ![n].m_appenders = <<>>]
       /\ now' = [now EXCEPT ![t] = NoDefine]
       /\ UNCHANGED <<configVars, spin, todo, gone, adding, msg, calls, crashed, touched>>

\* Mutant: the read lock is kept until the end of setValue.
ReadUnlock_AtEnd(t) ==
    /\ pc[t] = "unlock" /\ Goto(t, "wrlock")
    /\ UNCHANGED <<configVars, listenerVars, logVars, msg, calls, crashed, touched>>

ReadUnlock(t) ==
    /\ pc[t] = "unlock" /\ Goto(t, "wrlock")
    /\ m_mutex' = m_mutex \ {t}
    /\ UNCHANGED <<m_val, new_value, overlap, configured, listenerVars, logVars, msg, calls,
                   crashed, touched>>

\* The write lock is taken and released around the assignment.
Assign(t) ==
    /\ pc[t] = "wrlock" /\ m_mutex = {} /\ Goto(t, "idle")
    /\ m_val' = new_value[t]
    /\ configured' = configured \cup {d.name : d \in new_value[t]}
    /\ new_value' = [new_value EXCEPT ![t] = {}]
    /\ UNCHANGED <<m_mutex, overlap, listenerVars, logVars, msg, calls, crashed, touched>>

-----------------------------------------------------------------------------
(* Writing a message.                                                          *)

\* The macro: get the logger, and compare its level a first time.
LogMacro(t, n, level) ==
    /\ Call(t)
    /\ loggers' = GetLogger(n)
    /\ IF loggers'[n].m_level <= level
       THEN Goto(t, "log") /\ msg' = [msg EXCEPT ![t] = [NoMsg EXCEPT !.logger = n, !.level = level]]
       ELSE UNCHANGED <<pc, msg>>
    /\ UNCHANGED <<configVars, listenerVars, spin, crashed, touched>>

\* Logger::log, of the named logger and then, perhaps, of its root.
LogLevelTest(t) ==
    /\ pc[t] = "log"
    /\ IF msg[t].level >= loggers[msg[t].logger].m_level
       THEN Goto(t, "loglock") /\ msg' = [msg EXCEPT ![t].accepted = TRUE]
       ELSE Goto(t, "logged") /\ UNCHANGED msg
    /\ UNCHANGED <<configVars, listenerVars, logVars, calls, crashed, touched>>

\* Mutant: the appenders are looked at without the lock.
LogLock_Without(t) ==
    LET n == msg[t].logger
        list == loggers[n].m_appenders
    IN /\ pc[t] = "loglock" /\ UNCHANGED spin
       /\ IF list = <<>> /\ n # Root
          THEN Goto(t, "log") /\ msg' = [msg EXCEPT ![t].logger = Root]
          ELSE Goto(t, "write") /\ msg' = [msg EXCEPT ![t].seen = list]
       /\ UNCHANGED <<configVars, listenerVars, loggers, calls, crashed, touched>>

LogLock(t) ==
    LET n == msg[t].logger
        list == loggers[n].m_appenders
    IN /\ pc[t] = "loglock" /\ Free(n)
       /\ spin' = [spin EXCEPT ![n] = t]
       /\ IF list = <<>> /\ n # Root
          THEN Goto(t, "log") /\ msg' = [msg EXCEPT ![t].logger = Root]
          ELSE Goto(t, "write") /\ msg' = [msg EXCEPT ![t].seen = list]
       /\ UNCHANGED <<configVars, listenerVars, loggers, calls, crashed, touched>>

\* One appender of the list, in turn: LogAppender::log compares its own level.
LogWrite(t) ==
    LET list == loggers[msg[t].logger].m_appenders
        k == msg[t].next
    IN /\ pc[t] = "write"
       /\ IF k > Len(list)
          THEN Goto(t, "logged") /\ UNCHANGED msg
          ELSE /\ UNCHANGED pc
               /\ msg' = [msg EXCEPT ![t].next = k + 1,
                                     ![t].wrote = IF msg[t].level >= list[k].m_level
                                                  THEN @ \cup {k} ELSE @]
       /\ UNCHANGED <<configVars, listenerVars, logVars, calls, crashed, touched>>

\* The scoped locks of both loggers end.
LogReturn(t) ==
    /\ pc[t] = "logged" /\ Goto(t, "idle")
    /\ spin' = [n \in Loggers |-> IF spin[n] = t THEN NoThread ELSE spin[n]]
    /\ msg' = [msg EXCEPT ![t] = NoMsg]
    /\ UNCHANGED <<configVars, listenerVars, loggers, calls, crashed, touched>>

-----------------------------------------------------------------------------
(* The program changes a logger itself, or an appender.                        *)

Touch(t, n) ==
    /\ Call(t) /\ n \in DOMAIN loggers
    /\ touched' = touched \cup {n}
    /\ UNCHANGED <<configVars, listenerVars, spin, pc, crashed>>

Change(t, n) == Touch(t, n) /\ UNCHANGED msg

ProgramSetLevel(t, n, level) ==
    Change(t, n) /\ loggers' = [loggers EXCEPT ![n].m_level = level]

ProgramAdd(t, n) ==
    Change(t, n) /\ Free(n) /\ loggers' = AddAppender(n, NewAppender("StdoutLogAppender", NoFile, DEBUG))

ProgramDel(t, n) ==
    /\ Change(t, n) /\ Free(n) /\ loggers[n].m_appenders # <<>>
    /\ \E k \in DOMAIN loggers[n].m_appenders :
          loggers' = [loggers EXCEPT ![n].m_appenders = RemoveAt(@, k)]

ProgramClear(t, n) ==
    Change(t, n) /\ Free(n) /\ loggers' = [loggers EXCEPT ![n].m_appenders = <<>>]

\* LogAppender::setLevel takes no lock.
ProgramSetAppenderLevel(t, n, k, level) ==
    /\ Touch(t, n) /\ k \in DOMAIN loggers[n].m_appenders
    /\ loggers' = [loggers EXCEPT ![n].m_appenders[k].m_level = level]
    /\ msg' = [u \in Threads |->
                 IF pc[u] = "write" /\ msg[u].logger = n
                 THEN [msg[u] EXCEPT !.changed = @ \cup {k}] ELSE msg[u]]

\* A formatter is taken as it is, in error or not.
ProgramSetFormatter(t, n, p) == Change(t, n) /\ Free(n) /\ loggers' = SetFormatterPtr(n, p)

-----------------------------------------------------------------------------

Step(t) ==
    /\ ~crashed
    /\ \/ ReadLock(t) \/ Define(t) \/ SetLevel(t) \/ SetFormatter(t) \/ ClearForDefine(t)
       \/ AddForDefine(t) \/ EndDefine(t) \/ Gone(t) \/ ClearGone(t) \/ ReadUnlock(t) \/ Assign(t)
       \/ LogLevelTest(t) \/ LogLock(t) \/ LogWrite(t) \/ LogReturn(t)

Begin(t) ==
    /\ ~crashed
    /\ \/ \E doc \in Documents : LoadFromYaml(t, doc)
       \/ \E n \in Loggers :
             \/ \E l \in MessageLevels : LogMacro(t, n, l)
             \/ ProgramAdd(t, n) \/ ProgramDel(t, n) \/ ProgramClear(t, n)
             \/ \E p \in Formats : ProgramSetFormatter(t, n, p)
       \/ \E n \in DOMAIN loggers, l \in ProgramLevels :
             \/ ProgramSetLevel(t, n, l)
             \/ \E k \in DOMAIN loggers[n].m_appenders : ProgramSetAppenderLevel(t, n, k, l)

Next == \E t \in Threads : Step(t) \/ Begin(t)

Spec == Init /\ [][Next]_vars

\* Every thread runs on; a lock is held for a bounded number of steps.
FairSpec == Spec /\ \A t \in Threads : WF_vars(Step(t))

-----------------------------------------------------------------------------

Appender == [type : AppenderTypes, m_filename : FileName, m_level : Levels,
             m_formatter : Seq(Alphabet) \ {<<>>}, m_hasFormatter : BOOLEAN]
Logger == [m_level : Levels \cup {OFF}, m_formatter : Seq(Alphabet) \ {<<>>},
           m_appenders : Seq(Appender)]
Message == [logger : Loggers, level : DEBUG .. 5, accepted : BOOLEAN,
            seen : Seq(Appender), next : Nat \ {0}, wrote : SUBSET Nat, changed : SUBSET Nat]

\* Every logger is complete; an appender in the list of one has a formatter, which
\* its log() dereferences (log.cpp:306-313, 437-477).
TypeOK ==
    /\ m_val \in SUBSET LogDefine
    /\ m_mutex \subseteq Threads
    /\ DOMAIN loggers \subseteq Loggers
    /\ loggers \in [DOMAIN loggers -> Logger]
    /\ spin \in [Loggers -> Threads \cup {NoThread}]
    /\ pc \in [Threads -> SetValuePC \cup {"idle", "log", "loglock", "write", "logged"}]
    /\ new_value \in [Threads -> SUBSET LogDefine]
    /\ todo \in [Threads -> SUBSET LogDefine]
    /\ gone \in [Threads -> SUBSET LogDefine]
    /\ now \in [Threads -> LogDefine \cup {NoDefine}]
    /\ adding \in [Threads -> Seq(LogAppenderDefine)]
    /\ msg \in [Threads -> Message]
    /\ calls \in 0 .. MaxCalls /\ crashed \in BOOLEAN /\ overlap \in BOOLEAN
    /\ touched \subseteq Loggers /\ configured \subseteq Names

\* A message that passed the level test of its logger is written, while other threads
\* reconfigure the logger: by those appenders that the logger had at one moment, or the
\* root when it had none, whose own level lets it pass.  Nothing is said of an appender
\* whose level the program changes during the walk; and a message is offered to no
\* appender only if it was the root's, whose level refused it or which had none
\* (Logger::log, log.cpp:335-348, and the tests of log.cpp:441, 474).
AcceptedWritten ==
    \A t \in Threads :
        pc[t] = "logged" /\ msg[t].accepted =>
            /\ \A k \in DOMAIN msg[t].seen \ msg[t].changed :
                  k \in msg[t].wrote <=> msg[t].level >= msg[t].seen[k].m_level
            /\ msg[t].seen = <<>> => msg[t].logger = Root

\* Once setValue is over, and unless two of them overlapped or the program changed the
\* logger too, the loggers are what m_val says: level, formatter and appenders of those
\* defined, with their types and files, and no output from those no longer defined
\* (config.h:306-321, log.cpp:796-837).  An appender formats like its logger unless its
\* definition gives a formatter, of which nothing is said: the listener does not apply it.
ConfigApplied ==
    (Setting = {} /\ ~overlap) =>
        /\ \A d \in {d \in m_val : d.name \notin touched} :
              /\ d.name \in DOMAIN loggers
              /\ LET logger == loggers[d.name]
                 IN /\ logger.m_level = d.level
                    /\ Len(logger.m_appenders) = Len(d.appenders)
                    /\ \A k \in DOMAIN d.appenders :
                          /\ logger.m_appenders[k].type = d.appenders[k].type
                          /\ logger.m_appenders[k].m_filename = d.appenders[k].file
                          /\ d.appenders[k].formatter = <<>>
                                => logger.m_appenders[k].m_formatter = logger.m_formatter
                    /\ d.formatter # <<>> /\ FormatterError(d.formatter) = "no"
                          => logger.m_formatter = d.formatter
        /\ \A n \in configured \ ({d.name : d \in m_val} \cup touched) :
              loggers[n].m_level = OFF /\ loggers[n].m_appenders = <<>>

\* LogFormatter::init accepts exactly the patterns of the documented grammar
\* (log.cpp:515-623, log.h:299-319), with three exceptions: the escape %% that the code
\* declares (log.cpp:541-542) is refused; a % at the end is dropped without an error; and
\* the verdict on a %d at the end depends on memory behind the pattern.  Compared once,
\* before the first call; and whatever is loaded, the formatter of a logger the program
\* has not changed itself is a pattern that init accepts.
FormatterGrammar ==
    /\ calls = MaxCalls => \A p \in BoundedPatterns : VerdictOf(p)
    /\ \A n \in DOMAIN loggers \ touched :
          LET p == loggers[n].m_formatter IN Plain(p) \/ LonePercent(p)

\* Every load of a configuration and every message returns, unless the process has
\* ended: no cycle of the variable's lock, the loggers' and the root's.
CallsReturn == \A t \in Threads : pc[t] # "idle" ~> (pc[t] = "idle" \/ crashed)
-----------------------------------------------------------------------------
(* The inductive invariants from which ConfigLogProofs derives the properties.  *)

Logging == {"log", "loglock", "write", "logged"}
Applying == {"level", "formatter", "clear", "add"}

\* Whom a thread works on.
PlaceOf(t) ==
    /\ pc[t] \in Applying \cup {"off"} => now[t] \in LogDefine /\ now[t].name \in DOMAIN loggers
    /\ pc[t] \notin Applying \cup {"off"} => now[t] = NoDefine
    /\ pc[t] \in Logging => msg[t].logger \in DOMAIN loggers
PlaceInv == \A t \in Threads : PlaceOf(t)

\* The root logger exists.
RootInv == Root \in DOMAIN loggers

\* The appenders before n have written the message if their level lets it pass.
WrittenUpTo(m, n) ==
    \A k \in 1 .. n - 1 : k \notin m.changed => (k \in m.wrote <=> m.level >= m.seen[k].m_level)

\* The appenders of a logger are as many as a message saw, and of the levels it saw.
SeenIn(m, list) ==
    /\ Len(list) = Len(m.seen)
    /\ \A k \in 1 .. Len(list) : k \notin m.changed => list[k].m_level = m.seen[k].m_level

\* A message that was accepted by a logger without appenders is the root's next; while
\* it is written, the logger is locked and has the appenders it had.
MessageOf(t) ==
    LET m == msg[t]
    IN /\ pc[t] \in {"log", "loglock"} => m.seen = <<>> /\ m.next = 1 /\ m.wrote = {}
       /\ pc[t] = "log" /\ m.accepted => m.logger = Root
       /\ pc[t] = "write" =>
             /\ spin[m.logger] = t /\ SeenIn(m, loggers[m.logger].m_appenders)
             /\ m.next <= Len(m.seen) + 1 /\ WrittenUpTo(m, m.next)
             /\ m.wrote \subseteq 1 .. m.next - 1
       /\ pc[t] = "logged" /\ m.accepted => WrittenUpTo(m, Len(m.seen) + 1)
       /\ pc[t] \in {"write", "logged"} /\ m.accepted /\ m.seen = <<>> => m.logger = Root
MessageInv == \A t \in Threads : MessageOf(t)

NamesOf(S) == {d.name : d \in S}
OneEach(S) == \A d, e \in S : d.name = e.name => d = e

\* The logger of a definition is as far as the listener has come with it.
Level(d) == loggers[d.name].m_level = d.level
Formatter(d) ==
    d.formatter # <<>> /\ FormatterError(d.formatter) = "no"
        => loggers[d.name].m_formatter = d.formatter
Matches(d, k) ==
    LET a == loggers[d.name].m_appenders[k]
    IN /\ a.type = d.appenders[k].type /\ a.m_filename = d.appenders[k].file
       /\ a.m_formatter = loggers[d.name].m_formatter
Added(d, n) ==
    /\ n = Len(loggers[d.name].m_appenders) /\ n <= Len(d.appenders)
    /\ \A k \in 1 .. n : Matches(d, k)

\* The logger of a definition is as the definition says; a logger is silent.
Fits(d) ==
    d.name \in DOMAIN loggers /\ Level(d) /\ Formatter(d) /\ Added(d, Len(d.appenders))
Silent(n) == n \in DOMAIN loggers /\ loggers[n].m_level = OFF /\ loggers[n].m_appenders = <<>>

\* The loggers are what m_val says.
Settled ==
    /\ \A d \in m_val : d.name \notin touched => Fits(d)
    /\ \A n \in configured \ (NamesOf(m_val) \cup touched) : Silent(n)

\* How far the listener has come: with the definitions of the new value, ...
Defined(t) ==
    /\ todo[t] \subseteq new_value[t]
    /\ \A d \in new_value[t] \ todo[t] : d # now[t] /\ d.name \notin touched => Fits(d)
    /\ pc[t] \in Applying => now[t] \in new_value[t] \ todo[t]
    /\ pc[t] \in {"gone", "off", "unlock", "wrlock"} => todo[t] = {}

\* ... with the one at hand, ...
AtHand(t) ==
    pc[t] \in Applying \cup {"off"} /\ now[t].name \notin touched =>
        /\ pc[t] \in {"formatter", "clear", "add"} => Level(now[t])
        /\ pc[t] \in {"clear", "add"} => Formatter(now[t])
        /\ pc[t] = "add" =>
              /\ Len(adding[t]) <= Len(now[t].appenders)
              /\ Added(now[t], Len(now[t].appenders) - Len(adding[t]))
              /\ \A k \in 1 .. Len(adding[t]) :
                    adding[t][k] = now[t].appenders[Len(now[t].appenders) - Len(adding[t]) + k]
        /\ pc[t] = "off" => loggers[now[t].name].m_level = OFF

\* ... and with those that are gone.
Removed(t) ==
    /\ gone[t] \subseteq m_val
    /\ \A d \in gone[t] : d.name \notin NamesOf(new_value[t])
    /\ \A d \in m_val \ gone[t] : d # now[t] /\ d.name \notin NamesOf(new_value[t]) \cup touched
          => Silent(d.name)
    /\ pc[t] = "off" => now[t] \in m_val /\ now[t].name \notin NamesOf(new_value[t])
    /\ pc[t] \in {"unlock", "wrlock"} => gone[t] = {}

\* The loggers that neither value defines stay silent.
Undefined(t) ==
    \A n \in configured \ (NamesOf(m_val) \cup NamesOf(new_value[t]) \cup touched) : Silent(n)

Progress(t) == Defined(t) /\ AtHand(t) /\ Removed(t) /\ Undefined(t)

\* m_val and the values to be set have one definition for a name, and the names of
\* m_val are among those that were ever configured.
ValuesInv ==
    /\ OneEach(m_val) /\ NamesOf(m_val) \subseteq configured
    /\ \A t \in Threads : OneEach(new_value[t])

\* As long as setValues did not overlap, the loggers are what m_val says between two of
\* them, and on the way from the old value to the new one during one.
ConfigInv ==
    /\ ValuesInv
    /\ ~overlap =>
          /\ \A t, u \in Setting : t = u
          /\ (\A t \in Setting : pc[t] = "rdlock") => Settled
          /\ \A t \in Setting : pc[t] # "rdlock" => Progress(t)

LogInv == TypeOK /\ PlaceInv /\ RootInv /\ MessageInv /\ ConfigInv
=============================================================================
