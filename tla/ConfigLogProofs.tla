--------------------------- MODULE ConfigLogProofs ---------------------------
(***************************************************************************)
(* Theorems about ConfigLog, for every number of threads, loggers, calls   *)
(* and documents.                                                          *)
(***************************************************************************)
EXTENDS ConfigLog, SequenceTheorems, WellFoundedInduction, TLAPS

-----------------------------------------------------------------------------
(* Induction                                                                  *)

\* Induction, for a property given as the set of the numbers that have it.
LEMMA SetInduction ==
    ASSUME NEW S, 0 \in S, \A n \in Nat : n \in S => n + 1 \in S
    PROVE  Nat \subseteq S
<1>1. SUFFICES ASSUME Nat \ S # {} PROVE FALSE
  OBVIOUS
<1>2. PICK x \in Nat \ S : \A y \in Nat \ S : x <= y
  <2> DEFINE R == OpToRel(<, Nat)
  <2>1. IsWellFoundedOn(R, Nat)
    BY NatLessThanWellFounded, Zenon
  <2>2. PICK x \in Nat \ S : \A y \in Nat \ S : ~ (<<y, x>> \in R)
    <3> HIDE DEF R
    <3> QED BY <1>1, <2>1, WFMin
  <2>3. ASSUME NEW y \in Nat \ S PROVE x <= y
    <3>1. <<y, x>> \notin {ss \in Nat \X Nat : ss[1] < ss[2]}
      BY <2>2, Zenon DEF OpToRel
    <3> HIDE DEF R
    <3> QED BY <3>1
  <2> HIDE DEF R
  <2> QED BY <2>3
<1>3. x - 1 \in Nat /\ x - 1 < x /\ x - 1 + 1 = x
  BY <1>1
<1>4. x - 1 \in S
  BY <1>2, <1>3
<1> QED BY <1>2, <1>3, <1>4

-----------------------------------------------------------------------------
(* Documents                                                                  *)

\* KeptOf does what its definition says at each step.
LEMMA KeptUnfolds ==
    ASSUME NEW node, Len(node.appenders) \in Nat
    PROVE  \A k \in 0 .. Len(node.appenders) :
              KeptOf(node)[k] =
                  IF k = 0 THEN <<>>
                  ELSE IF Keeps(node, node.appenders[k])
                       THEN Append(KeptOf(node)[k - 1], node.appenders[k])
                  ELSE KeptOf(node)[k - 1]
<1> DEFINE Next1(x, k) == IF Keeps(node, node.appenders[k])
                          THEN Append(x, node.appenders[k]) ELSE x
           D(f, n) == [k \in 0 .. n |-> IF k = 0 THEN <<>> ELSE Next1(f[k - 1], k)]
           S == {n \in Nat : \E f : f = D(f, n)}
<1> HIDE DEF Next1
<1>1. 0 \in S
  <2> DEFINE f == [k \in 0 .. 0 |-> <<>>]
  <2>1. f = D(f, 0)
    OBVIOUS
  <2> QED BY <2>1
<1>2. ASSUME NEW n \in Nat, n \in S PROVE n + 1 \in S
  <2>1. PICK f : f = D(f, n)
    BY <1>2
  <2> DEFINE g == [k \in 0 .. n + 1 |-> IF k = n + 1 THEN Next1(f[n], n + 1) ELSE f[k]]
  <2>2. \A k \in 0 .. n : f[k] = IF k = 0 THEN <<>> ELSE Next1(f[k - 1], k)
    BY <2>1
  <2>3. ASSUME NEW k \in 0 .. n + 1
        PROVE  g[k] = IF k = 0 THEN <<>> ELSE Next1(g[k - 1], k)
    <3>1. CASE k = n + 1
      BY <3>1
    <3>2. CASE k # n + 1
      <4>1. k \in 0 .. n /\ g[k] = f[k] /\ (k # 0 => g[k - 1] = f[k - 1])
        BY <3>2
      <4> QED BY <4>1, <2>2
    <3> QED BY <3>1, <3>2
  <2>4. g = D(g, n + 1)
    BY <2>3
  <2>5. \E h : h = D(h, n + 1)
    <3> HIDE DEF D, g
    <3> QED BY <2>4
  <2> QED BY <2>5
<1>3. Nat \subseteq S
  <2> HIDE DEF S
  <2> QED BY <1>1, <1>2, SetInduction
<1>4. \E f : f = D(f, Len(node.appenders))
  BY <1>3
<1>5. KeptOf(node) = CHOOSE f : f = D(f, Len(node.appenders))
  BY Zenon DEF KeptOf, Next1
<1>6. KeptOf(node) = D(KeptOf(node), Len(node.appenders))
  <2> HIDE DEF D
  <2> QED BY <1>4, <1>5
<1>7. ASSUME NEW k \in 0 .. Len(node.appenders)
      PROVE  KeptOf(node)[k] = IF k = 0 THEN <<>> ELSE Next1(KeptOf(node)[k - 1], k)
  BY <1>6
<1> QED BY <1>7 DEF Next1

\* What is kept of a node's appenders is a sequence of appenders of the known types.
LEMMA KeptType ==
    ASSUME NEW node \in Node
    PROVE  KeptAppenders(node) \in Seq(LogAppenderDefine)
<1> DEFINE A == LogAppenderDefine
           n == Len(node.appenders)
           S == {k \in Nat : k <= n => KeptOf(node)[k] \in Seq(A)}
<1>1. node.appenders \in Seq(AppenderNode) /\ n \in Nat
  BY DEF Node
<1>2. \A k \in 0 .. n :
         KeptOf(node)[k] = IF k = 0 THEN <<>>
                           ELSE IF Keeps(node, node.appenders[k])
                                THEN Append(KeptOf(node)[k - 1], node.appenders[k])
                           ELSE KeptOf(node)[k - 1]
  BY <1>1, KeptUnfolds
<1>3. \A k \in 1 .. n : Keeps(node, node.appenders[k]) => node.appenders[k] \in A
  <2> TAKE k \in 1 .. n
  <2>1. node.appenders[k] \in AppenderNode
    BY <1>1, ElementOfSeq
  <2> QED BY <2>1 DEF Keeps, AppenderTypes, AppenderNode, LogAppenderDefine, FileName
<1> HIDE DEF A, n
<1>4. 0 \in S
  <2>1. KeptOf(node)[0] = <<>>
    BY <1>1, <1>2
  <2>2. <<>> \in Seq(A)
    OBVIOUS
  <2> QED BY <2>1, <2>2
<1>5. ASSUME NEW k \in Nat, k \in S PROVE k + 1 \in S
  <2> SUFFICES ASSUME k + 1 <= n PROVE KeptOf(node)[k + 1] \in Seq(A)
    OBVIOUS
  <2>1. KeptOf(node)[k] \in Seq(A)
    BY <1>1, <1>5
  <2>2. k + 1 \in 1 .. n /\ k + 1 \in 0 .. n /\ (k + 1) - 1 = k /\ k + 1 # 0
    BY <1>1
  <2> DEFINE a == node.appenders[k + 1]
  <2>3. KeptOf(node)[k + 1] = IF Keeps(node, a) THEN Append(KeptOf(node)[k], a)
                              ELSE KeptOf(node)[k]
    BY <1>2, <2>2
  <2>4. Keeps(node, a) => a \in A
    BY <1>3, <2>2
  <2> HIDE DEF a
  <2> QED BY <2>1, <2>3, <2>4
<1>6. Nat \subseteq S
  <2> HIDE DEF S
  <2> QED BY <1>4, <1>5, SetInduction
<1>7. KeptOf(node)[n] \in Seq(A)
  BY <1>1, <1>6
<1> QED BY <1>7 DEF KeptAppenders, A, n

\* A level that FromString knows, or UNKNOW.
LEMMA FromStringType == ASSUME NEW s PROVE FromString(s) \in Levels
BY DEF FromString, Levels, UNKNOW, DEBUG

\* What LexicalCast makes of a document is a set of definitions, one for a name.
LEMMA CastType ==
    ASSUME NEW doc \in Documents
    PROVE  LexicalCast(doc) \subseteq LogDefine /\ OneEach(LexicalCast(doc))
<1> DEFINE named == {k \in DOMAIN doc : doc[k].name # Unnamed}
           first == {k \in named : \A j \in named : doc[j].name = doc[k].name => k <= j}
           types(node) == [j \in DOMAIN KeptAppenders(node) |-> AppenderDefine(KeptAppenders(node)[j])]
           define(node) == [name |-> node.name, level |-> FromString(node.level),
                            formatter |-> node.formatter, appenders |-> types(node)]
<1>1. LexicalCast(doc) = {define(doc[k]) : k \in first}
  BY DEF LexicalCast
<1>2. doc \in Seq(Node)
  BY ConfigLogAssumption
<1>3. ASSUME NEW k \in first PROVE define(doc[k]) \in LogDefine
  <2>1. doc[k] \in Node /\ doc[k].name # Unnamed /\ k \in DOMAIN doc
    BY <1>2
  <2>2. KeptAppenders(doc[k]) \in Seq(LogAppenderDefine)
    BY <2>1, KeptType
  <2>3. types(doc[k]) \in Seq(LogAppenderDefine)
    <3> DEFINE kept == KeptAppenders(doc[k])
    <3>1. kept \in Seq(LogAppenderDefine)
      BY <2>2
    <3> HIDE DEF kept
    <3>2. DOMAIN kept = 1 .. Len(kept) /\ Len(kept) \in Nat
      BY <3>1
    <3>3. \A j \in 1 .. Len(kept) : AppenderDefine(kept[j]) \in LogAppenderDefine
      <4>1. ASSUME NEW j \in 1 .. Len(kept) PROVE kept[j] \in LogAppenderDefine
        BY <3>1, ElementOfSeq
      <4>2. ASSUME NEW a \in LogAppenderDefine PROVE AppenderDefine(a) \in LogAppenderDefine
        <5>1. NoFile \in FileName
          BY DEF FileName
        <5> QED BY <5>1 DEF AppenderDefine, LogAppenderDefine
      <4> QED BY <4>1, <4>2
    <3>4. types(doc[k]) = [j \in 1 .. Len(kept) |-> AppenderDefine(kept[j])]
      BY <3>2 DEF kept
    <3> HIDE DEF types
    <3>5. [j \in 1 .. Len(kept) |-> AppenderDefine(kept[j])] \in [1 .. Len(kept) -> LogAppenderDefine]
      BY <3>3
    <3> QED BY <3>2, <3>4, <3>5, SeqDef
  <2> HIDE DEF types
  <2>4. doc[k].name \in Names /\ doc[k].formatter \in Seq(Alphabet)
    BY <2>1 DEF Node
  <2> QED BY <2>3, <2>4, FromStringType DEF LogDefine
<1>4. ASSUME NEW j \in first, NEW k \in first, doc[j].name = doc[k].name PROVE j = k
  <2>1. j \in Nat /\ k \in Nat
    BY <1>2
  <2> QED BY <1>4, <2>1
<1> HIDE DEF types, first
<1>5. OneEach({define(doc[k]) : k \in first})
  BY <1>4 DEF OneEach
<1> QED BY <1>1, <1>3, <1>5

-----------------------------------------------------------------------------
(* Loggers                                                                    *)

\* From L to M, no logger but n changes, which gets these fields, and all stay complete.
Becomes(L, M, n, level, formatter, appenders) ==
    /\ DOMAIN M = DOMAIN L /\ M \in [DOMAIN L -> Logger]
    /\ \A m \in DOMAIN L : m # n => M[m] = L[m]
    /\ M[n].m_level = level /\ M[n].m_formatter = formatter /\ M[n].m_appenders = appenders

\* One logger is replaced.
LEMMA ReplaceChange ==
    ASSUME NEW L, L \in [DOMAIN L -> Logger], NEW n \in DOMAIN L, NEW r \in Logger,
           NEW M, M = [L EXCEPT ![n] = r]
    PROVE  Becomes(L, M, n, r.m_level, r.m_formatter, r.m_appenders)
BY DEF Becomes

\* setLevel.
LEMMA LevelChange ==
    ASSUME NEW L, L \in [DOMAIN L -> Logger], NEW n \in DOMAIN L, NEW l \in Levels \cup {OFF},
           NEW M, M = [L EXCEPT ![n].m_level = l]
    PROVE  Becomes(L, M, n, l, L[n].m_formatter, L[n].m_appenders)
<1> DEFINE r == [L[n] EXCEPT !.m_level = l]
<1>1. /\ r \in Logger /\ r.m_level = l
      /\ r.m_formatter = L[n].m_formatter /\ r.m_appenders = L[n].m_appenders
  <2>1. L[n] \in Logger
    OBVIOUS
  <2> QED BY <2>1 DEF Logger
<1>2. M = [L EXCEPT ![n] = r]
  OBVIOUS
<1> HIDE DEF r
<1>3. Becomes(L, M, n, r.m_level, r.m_formatter, r.m_appenders)
  BY <1>1, <1>2, ReplaceChange
<1> QED BY <1>1, <1>3

\* setFormatter of a pattern that is not refused.
LEMMA TextChange ==
    ASSUME NEW L, L \in [DOMAIN L -> Logger], NEW n \in DOMAIN L,
           NEW p \in Seq(Alphabet) \ {<<>>}, NEW M, M = [L EXCEPT ![n].m_formatter = p]
    PROVE  Becomes(L, M, n, L[n].m_level, p, L[n].m_appenders)
<1> DEFINE r == [L[n] EXCEPT !.m_formatter = p]
<1>1. /\ r \in Logger /\ r.m_formatter = p
      /\ r.m_level = L[n].m_level /\ r.m_appenders = L[n].m_appenders
  <2>1. L[n] \in Logger
    OBVIOUS
  <2> QED BY <2>1 DEF Logger
<1>2. M = [L EXCEPT ![n] = r]
  OBVIOUS
<1> HIDE DEF r
<1>3. Becomes(L, M, n, r.m_level, r.m_formatter, r.m_appenders)
  BY <1>1, <1>2, ReplaceChange
<1> QED BY <1>1, <1>3

\* The appenders of one logger change.
LEMMA AppendersChange ==
    ASSUME NEW L, L \in [DOMAIN L -> Logger], NEW n \in DOMAIN L, NEW s \in Seq(Appender),
           NEW M, M = [L EXCEPT ![n].m_appenders = s]
    PROVE  Becomes(L, M, n, L[n].m_level, L[n].m_formatter, s)
<1> DEFINE r == [L[n] EXCEPT !.m_appenders = s]
<1>1. /\ r \in Logger /\ r.m_appenders = s
      /\ r.m_level = L[n].m_level /\ r.m_formatter = L[n].m_formatter
  <2>1. L[n] \in Logger
    OBVIOUS
  <2> QED BY <2>1 DEF Logger
<1>2. M = [L EXCEPT ![n] = r]
  OBVIOUS
<1> HIDE DEF r
<1>3. Becomes(L, M, n, r.m_level, r.m_formatter, r.m_appenders)
  BY <1>1, <1>2, ReplaceChange
<1> QED BY <1>1, <1>3

\* getLogger finds a logger or makes one without appenders.
LEMMA GetLoggerChange ==
    ASSUME TypeOK, NEW n \in Loggers, NEW M, M = GetLogger(n)
    PROVE  /\ DOMAIN M = DOMAIN loggers \cup {n} /\ DOMAIN M \subseteq Loggers
           /\ M \in [DOMAIN M -> Logger]
           /\ \A m \in DOMAIN loggers : M[m] = loggers[m]
           /\ n \notin DOMAIN loggers => M[n].m_formatter = DefaultPattern
<1> DEFINE made == NewLogger(<<>>)
<1>1. made \in Logger /\ made.m_formatter = DefaultPattern
  BY ConfigLogAssumption DEF NewLogger, Logger, Levels, Loggers, UNKNOW, DEBUG
<1>2. M = [m \in DOMAIN loggers \cup {n} |-> IF m \in DOMAIN loggers THEN loggers[m] ELSE made]
  BY DEF GetLogger
<1> HIDE DEF made
<1>3. DOMAIN loggers \subseteq Loggers /\ loggers \in [DOMAIN loggers -> Logger]
  BY DEF TypeOK
<1>4. M \in [DOMAIN loggers \cup {n} -> Logger]
  BY <1>1, <1>2, <1>3
<1> QED BY <1>1, <1>2, <1>3, <1>4

\* What addAppender adds.
LEMMA WithFormatterType ==
    ASSUME NEW type \in AppenderTypes, NEW file \in FileName, NEW level \in Levels,
           NEW logger, logger.m_formatter \in Seq(Alphabet) \ {<<>>},
           NEW a, a = WithFormatter(NewAppender(type, file, level), logger)
    PROVE  /\ a \in Appender /\ a.type = type /\ a.m_filename = file
           /\ a.m_formatter = logger.m_formatter
<1> DEFINE b == NewAppender(type, file, level)
           Bare == [type : AppenderTypes, m_filename : FileName, m_level : Levels,
                    m_formatter : {<<>>}, m_hasFormatter : BOOLEAN]
<1>1. b \in Bare /\ b.type = type /\ b.m_filename = file
  BY DEF NewAppender
<1> HIDE DEF b
<1>2. a = [b EXCEPT !.m_formatter = logger.m_formatter, !.m_hasFormatter = TRUE]
  BY <1>1 DEF WithFormatter, b
<1> QED BY <1>1, <1>2 DEF Appender

\* addAppender.
LEMMA AddChange ==
    ASSUME TypeOK, NEW n \in DOMAIN loggers, NEW type \in AppenderTypes,
           NEW file \in FileName, NEW level \in Levels,
           NEW M, M = AddAppender(n, NewAppender(type, file, level))
    PROVE  \E a \in Appender :
              /\ a.type = type /\ a.m_filename = file /\ a.m_formatter = loggers[n].m_formatter
              /\ Becomes(loggers, M, n, loggers[n].m_level, loggers[n].m_formatter,
                         Append(loggers[n].m_appenders, a))
<1> DEFINE a == WithFormatter(NewAppender(type, file, level), loggers[n])
           more == Append(loggers[n].m_appenders, a)
<1>1. loggers \in [DOMAIN loggers -> Logger] /\ loggers[n] \in Logger
  BY DEF TypeOK
<1>2. loggers[n].m_appenders \in Seq(Appender) /\ loggers[n].m_formatter \in Seq(Alphabet) \ {<<>>}
  BY <1>1 DEF Logger
<1>3. M = [loggers EXCEPT ![n].m_appenders = more]
  BY DEF AddAppender
<1>4. /\ a \in Appender /\ a.type = type /\ a.m_filename = file
      /\ a.m_formatter = loggers[n].m_formatter
  <2> HIDE DEF a
  <2>1. a = WithFormatter(NewAppender(type, file, level), loggers[n])
    BY DEF a
  <2> QED BY <1>2, <2>1, WithFormatterType
<1> HIDE DEF a
<1>5. more \in Seq(Appender)
  BY <1>2, <1>4
<1> HIDE DEF more
<1>6. Becomes(loggers, M, n, loggers[n].m_level, loggers[n].m_formatter, more)
  BY <1>1, <1>3, <1>5, AppendersChange
<1> QED BY <1>4, <1>6 DEF more

\* setFormatter of a formatter.
LEMMA SetFormatterPtrChange ==
    ASSUME TypeOK, NEW n \in DOMAIN loggers, NEW p \in Seq(Alphabet) \ {<<>>},
           NEW M, M = SetFormatterPtr(n, p)
    PROVE  \E s \in Seq(Appender) : Becomes(loggers, M, n, loggers[n].m_level, p, s)
<1> DEFINE old == loggers[n].m_appenders
           new == [k \in DOMAIN old |->
                      IF old[k].m_hasFormatter THEN old[k] ELSE [old[k] EXCEPT !.m_formatter = p]]
           r == [[loggers[n] EXCEPT !.m_formatter = p] EXCEPT !.m_appenders = new]
<1>1. loggers \in [DOMAIN loggers -> Logger] /\ loggers[n] \in Logger
  BY DEF TypeOK
<1>2. old \in Seq(Appender)
  BY <1>1 DEF Logger
<1>3. new \in Seq(Appender)
  <2> HIDE DEF old
  <2>1. DOMAIN old = 1 .. Len(old) /\ Len(old) \in Nat
    BY <1>2
  <2>2. ASSUME NEW k \in 1 .. Len(old) PROVE new[k] \in Appender
    <3>1. old[k] \in Appender
      BY <1>2, ElementOfSeq
    <3>2. [old[k] EXCEPT !.m_formatter = p] \in Appender
      BY <3>1 DEF Appender
    <3> QED BY <2>1, <3>1, <3>2
  <2>3. new \in [1 .. Len(old) -> Appender]
    BY <2>1, <2>2
  <2> HIDE DEF new
  <2> QED BY <2>1, <2>3, SeqDef
<1>4. M = [loggers EXCEPT ![n] = r]
  BY <1>1 DEF SetFormatterPtr
<1> HIDE DEF new, old
<1>5. r \in Logger /\ r.m_level = loggers[n].m_level /\ r.m_formatter = p /\ r.m_appenders = new
  BY <1>1, <1>3 DEF Logger
<1> HIDE DEF r
<1>6. Becomes(loggers, M, n, r.m_level, r.m_formatter, r.m_appenders)
  BY <1>1, <1>4, <1>5, ReplaceChange
<1> QED BY <1>3, <1>5, <1>6

\* delAppender: what is left of a list without one of its elements.
LEMMA RemoveAtType ==
    ASSUME NEW S, NEW s \in Seq(S), NEW k \in DOMAIN s
    PROVE  RemoveAt(s, k) \in Seq(S)
BY DEF RemoveAt

\* setLevel of an appender: of position k in the list of logger n.
LEMMA AppenderLevelChange ==
    ASSUME NEW L, L \in [DOMAIN L -> Logger], NEW n \in DOMAIN L,
           NEW k \in DOMAIN L[n].m_appenders, NEW l \in Levels,
           NEW M, M = [L EXCEPT ![n].m_appenders[k].m_level = l]
    PROVE  Becomes(L, M, n, L[n].m_level, L[n].m_formatter,
                   [L[n].m_appenders EXCEPT ![k].m_level = l])
<1> DEFINE old == L[n].m_appenders
           s == [old EXCEPT ![k].m_level = l]
<1>1. old \in Seq(Appender)
  BY DEF Logger
<1>2. M = [L EXCEPT ![n].m_appenders = s]
  OBVIOUS
<1>4. k \in DOMAIN old
  OBVIOUS
<1> HIDE DEF old
<1>3. s \in Seq(Appender)
  <2>1. [old[k] EXCEPT !.m_level = l] \in Appender
    <3>1. old[k] \in Appender
      BY <1>1, <1>4
    <3> QED BY <3>1 DEF Appender
  <2> QED BY <1>1, <1>4, <2>1
<1> HIDE DEF s
<1>5. Becomes(L, M, n, L[n].m_level, L[n].m_formatter, s)
  BY <1>2, <1>3, AppendersChange
<1> QED BY <1>5 DEF s, old
-----------------------------------------------------------------------------
(* What a step does to the loggers                                            *)

\* The loggers that a step of a thread changes: one of the program's own, or that of
\* the definition at hand.
AtWork(t, m) ==
    \/ m \in touched'
    \/ pc[t] \in Applying \cup {"off"} /\ m = now[t].name
    \/ pc[t] = "gone" /\ pc'[t] = "off" /\ m = now'[t].name

\* setFormatter takes a pattern that init has, or may have, no objection to.
Usable(p) == FormatterError(p) # "yes"

\* The program sets the level of one appender, and whoever is at the list notes it.
Relevelled(m) ==
    \E k \in DOMAIN loggers[m].m_appenders, l \in Levels :
        /\ loggers'[m].m_appenders = [loggers[m].m_appenders EXCEPT ![k].m_level = l]
        /\ \A u \in Threads : pc[u] = "write" /\ msg[u].logger = m =>
              msg'[u] = [msg[u] EXCEPT !.changed = @ \cup {k}]

\* No logger is lost, and appenders change only while nobody writes to them, but for
\* their levels.  A formatter is new only if it is usable or the program's.
LoggersStep(t) ==
    /\ DOMAIN loggers \subseteq DOMAIN loggers' /\ DOMAIN loggers' \subseteq Loggers
    /\ loggers' \in [DOMAIN loggers' -> Logger]
    /\ \A m \in DOMAIN loggers : loggers'[m] = loggers[m] \/ AtWork(t, m)
    /\ \A m \in DOMAIN loggers :
          loggers'[m].m_appenders = loggers[m].m_appenders \/ Free(m) \/ Relevelled(m)
    /\ \A m \in DOMAIN loggers' :
          \/ m \in DOMAIN loggers /\ loggers'[m].m_formatter = loggers[m].m_formatter
          \/ Usable(loggers'[m].m_formatter)
          \/ m \in touched'

LEMMA NoChange == ASSUME TypeOK, NEW t, UNCHANGED loggers PROVE LoggersStep(t)
BY DEF LoggersStep, TypeOK

\* getLogger
LEMMA MadeChange == ASSUME TypeOK, NEW t, NEW n \in Loggers, loggers' = GetLogger(n) PROVE LoggersStep(t)
<1>1. /\ DOMAIN loggers' = DOMAIN loggers \cup {n} /\ DOMAIN loggers' \subseteq Loggers
      /\ loggers' \in [DOMAIN loggers' -> Logger]
      /\ \A m \in DOMAIN loggers : loggers'[m] = loggers[m]
      /\ n \notin DOMAIN loggers => loggers'[n].m_formatter = DefaultPattern
  BY GetLoggerChange
<1>2. Usable(DefaultPattern)
  BY ConfigLogAssumption DEF Usable
<1> QED BY <1>1, <1>2 DEF LoggersStep

\* one logger changes
LEMMA OneChange ==
    ASSUME TypeOK, NEW t, NEW n \in DOMAIN loggers, AtWork(t, n),
           NEW l, NEW f, NEW s, Becomes(loggers, loggers', n, l, f, s),
           s = loggers[n].m_appenders \/ Free(n) \/ Relevelled(n),
           f = loggers[n].m_formatter \/ Usable(f) \/ n \in touched'
    PROVE  LoggersStep(t)
BY DEF LoggersStep, Becomes, TypeOK

\* The calls that begin.
LEMMA BeginCases ==
    ASSUME TypeOK, NEW t \in Threads, Begin(t)
    PROVE  \/ \E doc \in Documents : LoadFromYaml(t, doc)
           \/ \E n \in Loggers, l \in MessageLevels : LogMacro(t, n, l)
           \/ \E n \in Loggers : Change(t, n)
           \/ \E n \in Loggers, l \in ProgramLevels :
                 \E k \in DOMAIN loggers[n].m_appenders : ProgramSetAppenderLevel(t, n, k, l)
<1>1. DOMAIN loggers \subseteq Loggers
  BY DEF TypeOK
<1>2. ASSUME NEW n \in Loggers,
             \/ ProgramAdd(t, n) \/ ProgramDel(t, n) \/ ProgramClear(t, n)
             \/ \E p \in Formats : ProgramSetFormatter(t, n, p)
             \/ \E l \in ProgramLevels : ProgramSetLevel(t, n, l)
      PROVE  Change(t, n)
  BY <1>2 DEF ProgramSetLevel, ProgramAdd, ProgramDel, ProgramClear, ProgramSetFormatter
<1> QED BY <1>1, <1>2 DEF Begin

LEMMA StepLoggers ==
    ASSUME TypeOK, PlaceInv, NEW t \in Threads, Step(t) \/ Begin(t)
    PROVE  LoggersStep(t)
<1> USE DEF Applying
<1>a. loggers \in [DOMAIN loggers -> Logger] /\ DOMAIN loggers \subseteq Loggers
  BY DEF TypeOK
<1>b. pc[t] \in Applying \cup {"off"} =>
         /\ now[t] \in LogDefine /\ now[t].name \in DOMAIN loggers
         /\ AtWork(t, now[t].name)
  BY DEF PlaceInv, PlaceOf, AtWork
<1>1. CASE UNCHANGED loggers
  BY <1>1, NoChange
<1>2. CASE Define(t)
  <2>1. CASE UNCHANGED loggers
    BY <2>1, NoChange
  <2>2. ASSUME NEW d \in First(todo[t]), loggers' = GetLogger(d.name) PROVE LoggersStep(t)
    <3>1. d \in LogDefine
      BY DEF First, TypeOK
    <3>2. d.name \in Loggers
      BY <3>1 DEF LogDefine, Loggers
    <3> QED BY <2>2, <3>2, MadeChange
  <2> QED BY <1>2, <2>1, <2>2 DEF Define
<1>3. CASE SetLevel(t)
  <2> DEFINE n == now[t].name
  <2>1. /\ loggers' = [loggers EXCEPT ![n].m_level = now[t].level]
        /\ n \in DOMAIN loggers /\ AtWork(t, n) /\ now[t].level \in Levels
    BY <1>3, <1>b DEF SetLevel, LogDefine
  <2> HIDE DEF n
  <2>2. Becomes(loggers, loggers', n, now[t].level, loggers[n].m_formatter, loggers[n].m_appenders)
    BY <2>1, <1>a, LevelChange
  <2> QED BY <2>1, <2>2, OneChange
<1>4. CASE SetFormatter(t)
  <2> DEFINE n == now[t].name
             p == now[t].formatter
  <2>1. n \in DOMAIN loggers /\ AtWork(t, n) /\ p \in Seq(Alphabet)
    BY <1>4, <1>b DEF SetFormatter, LogDefine
  <2>2. CASE UNCHANGED loggers
    BY <2>2, NoChange
  <2>3. CASE p # <<>> /\ Usable(p) /\ loggers' = [loggers EXCEPT ![n].m_formatter = p]
    <3> HIDE DEF n, p
    <3>1. Becomes(loggers, loggers', n, loggers[n].m_level, p, loggers[n].m_appenders)
      BY <2>1, <2>3, <1>a, TextChange
    <3> QED BY <2>1, <2>3, <3>1, OneChange
  <2> QED BY <1>4, <2>2, <2>3 DEF SetFormatter, SetFormatterText, Usable
<1>5. CASE ClearForDefine(t)
  <2> DEFINE n == now[t].name
  <2>1. /\ loggers' = [loggers EXCEPT ![n].m_appenders = <<>>]
        /\ n \in DOMAIN loggers /\ AtWork(t, n) /\ Free(n)
    BY <1>5, <1>b DEF ClearForDefine
  <2>2. <<>> \in Seq(Appender)
    OBVIOUS
  <2> HIDE DEF n
  <2>3. Becomes(loggers, loggers', n, loggers[n].m_level, loggers[n].m_formatter, <<>>)
    BY <2>1, <2>2, <1>a, AppendersChange
  <2> QED BY <2>1, <2>3, OneChange
<1>6. CASE AddForDefine(t)
  <2> DEFINE n == now[t].name
             type == Head(adding[t]).type
             file == Head(adding[t]).file
  <2>1. /\ loggers' = AddAppender(n, NewAppender(type, file, UNKNOW))
        /\ n \in DOMAIN loggers /\ AtWork(t, n) /\ Free(n)
    BY <1>6, <1>b DEF AddForDefine
  <2>2. type \in AppenderTypes /\ file \in FileName /\ UNKNOW \in Levels
    <3>1. Head(adding[t]) \in LogAppenderDefine
      BY <1>6 DEF AddForDefine, TypeOK
    <3> QED BY <3>1 DEF LogAppenderDefine, Levels, UNKNOW
  <2> HIDE DEF n, type, file
  <2>3. PICK a \in Appender :
           Becomes(loggers, loggers', n, loggers[n].m_level, loggers[n].m_formatter,
                   Append(loggers[n].m_appenders, a))
    BY <2>1, <2>2, AddChange
  <2> QED BY <2>1, <2>3, OneChange
<1>7. CASE Gone(t)
  <2>1. CASE UNCHANGED loggers
    BY <2>1, NoChange
  <2>2. ASSUME NEW d \in First(gone[t]), now' = [now EXCEPT ![t] = d], Goto(t, "off"),
               loggers' = [GetLogger(d.name) EXCEPT ![d.name].m_level = OFF]
        PROVE  LoggersStep(t)
    <3> DEFINE L == GetLogger(d.name)
    <3>1. d \in LogDefine
      BY DEF First, TypeOK
    <3>2. d.name \in Loggers
      BY <3>1 DEF LogDefine, Loggers
    <3>3. /\ DOMAIN L = DOMAIN loggers \cup {d.name} /\ DOMAIN L \subseteq Loggers
          /\ L \in [DOMAIN L -> Logger]
          /\ \A m \in DOMAIN loggers : L[m] = loggers[m]
          /\ d.name \notin DOMAIN loggers => L[d.name].m_formatter = DefaultPattern
      BY <3>2, GetLoggerChange
    <3>4. AtWork(t, d.name)
      BY <1>7, <2>2 DEF AtWork, Gone, Goto, TypeOK
    <3>5. loggers' = [L EXCEPT ![d.name].m_level = OFF]
      BY <2>2
    <3> HIDE DEF L
    <3>6. Becomes(L, loggers', d.name, OFF, L[d.name].m_formatter, L[d.name].m_appenders)
      BY <3>3, <3>5, LevelChange
    <3>7. Usable(DefaultPattern)
      BY ConfigLogAssumption DEF Usable
    <3> QED BY <3>3, <3>4, <3>6, <3>7 DEF LoggersStep, Becomes
  <2> QED BY <1>7, <2>1, <2>2 DEF Gone
<1>8. CASE ClearGone(t)
  <2> DEFINE n == now[t].name
  <2>1. /\ loggers' = [loggers EXCEPT ![n].m_appenders = <<>>]
        /\ n \in DOMAIN loggers /\ AtWork(t, n) /\ Free(n)
    BY <1>8, <1>b DEF ClearGone
  <2>2. <<>> \in Seq(Appender)
    OBVIOUS
  <2> HIDE DEF n
  <2>3. Becomes(loggers, loggers', n, loggers[n].m_level, loggers[n].m_formatter, <<>>)
    BY <2>1, <2>2, <1>a, AppendersChange
  <2> QED BY <2>1, <2>3, OneChange
<1>9. ASSUME NEW n \in Loggers, NEW l \in MessageLevels, LogMacro(t, n, l) PROVE LoggersStep(t)
  BY <1>9, MadeChange DEF LogMacro
<1>10. ASSUME NEW n, Touch(t, n)
       PROVE  n \in DOMAIN loggers /\ AtWork(t, n) /\ n \in touched'
  BY <1>10 DEF Touch, AtWork
<1>11. ASSUME NEW n \in DOMAIN loggers, NEW l \in ProgramLevels, ProgramSetLevel(t, n, l) PROVE LoggersStep(t)
  <2>1. /\ loggers' = [loggers EXCEPT ![n].m_level = l]
        /\ n \in DOMAIN loggers /\ AtWork(t, n) /\ l \in Levels
    BY <1>10, <1>11, ConfigLogAssumption DEF ProgramSetLevel, Change
  <2>2. Becomes(loggers, loggers', n, l, loggers[n].m_formatter, loggers[n].m_appenders)
    BY <2>1, <1>a, LevelChange
  <2> QED BY <2>1, <2>2, OneChange
<1>12. ASSUME NEW n \in Loggers, ProgramAdd(t, n) PROVE LoggersStep(t)
  <2>1. /\ loggers' = AddAppender(n, NewAppender("StdoutLogAppender", NoFile, DEBUG))
        /\ n \in DOMAIN loggers /\ AtWork(t, n) /\ Free(n)
    BY <1>10, <1>12 DEF ProgramAdd, Change
  <2>2. "StdoutLogAppender" \in AppenderTypes /\ NoFile \in FileName /\ DEBUG \in Levels
    BY DEF AppenderTypes, FileName, Levels, DEBUG, UNKNOW
  <2>3. PICK a \in Appender :
           Becomes(loggers, loggers', n, loggers[n].m_level, loggers[n].m_formatter,
                   Append(loggers[n].m_appenders, a))
    BY <2>1, <2>2, AddChange
  <2> QED BY <2>1, <2>3, OneChange
<1>13. ASSUME NEW n \in Loggers, ProgramDel(t, n) PROVE LoggersStep(t)
  <2>1. n \in DOMAIN loggers /\ AtWork(t, n) /\ Free(n)
    BY <1>10, <1>13 DEF ProgramDel, Change
  <2>2. PICK k \in DOMAIN loggers[n].m_appenders :
           loggers' = [loggers EXCEPT ![n].m_appenders = RemoveAt(@, k)]
    BY <1>13 DEF ProgramDel
  <2> DEFINE s == RemoveAt(loggers[n].m_appenders, k)
  <2>3. s \in Seq(Appender)
    <3>1. loggers[n].m_appenders \in Seq(Appender)
      BY <2>1, <1>a DEF Logger
    <3> QED BY <3>1, RemoveAtType
  <2>4. loggers' = [loggers EXCEPT ![n].m_appenders = s]
    BY <2>2
  <2> HIDE DEF s
  <2>5. Becomes(loggers, loggers', n, loggers[n].m_level, loggers[n].m_formatter, s)
    BY <2>1, <2>3, <2>4, <1>a, AppendersChange
  <2> QED BY <2>1, <2>5, OneChange
<1>14. ASSUME NEW n \in Loggers, ProgramClear(t, n) PROVE LoggersStep(t)
  <2>1. /\ loggers' = [loggers EXCEPT ![n].m_appenders = <<>>]
        /\ n \in DOMAIN loggers /\ AtWork(t, n) /\ Free(n)
    BY <1>10, <1>14 DEF ProgramClear, Change
  <2>2. <<>> \in Seq(Appender)
    OBVIOUS
  <2>3. Becomes(loggers, loggers', n, loggers[n].m_level, loggers[n].m_formatter, <<>>)
    BY <2>1, <2>2, <1>a, AppendersChange
  <2> QED BY <2>1, <2>3, OneChange
<1>15. ASSUME NEW n \in Loggers, NEW p \in Formats, ProgramSetFormatter(t, n, p) PROVE LoggersStep(t)
  <2>1. /\ loggers' = SetFormatterPtr(n, p) /\ p \in Seq(Alphabet) \ {<<>>}
        /\ n \in DOMAIN loggers /\ AtWork(t, n) /\ Free(n) /\ n \in touched'
    BY <1>10, <1>15, ConfigLogAssumption DEF ProgramSetFormatter, Change
  <2>2. PICK s \in Seq(Appender) : Becomes(loggers, loggers', n, loggers[n].m_level, p, s)
    BY <2>1, SetFormatterPtrChange
  <2> QED BY <2>1, <2>2, OneChange
<1>17. ASSUME NEW n \in DOMAIN loggers, NEW k, NEW l \in ProgramLevels,
              ProgramSetAppenderLevel(t, n, k, l)
       PROVE  LoggersStep(t)
  <2> DEFINE s == [loggers[n].m_appenders EXCEPT ![k].m_level = l]
  <2>1. /\ k \in DOMAIN loggers[n].m_appenders /\ l \in Levels /\ AtWork(t, n)
        /\ loggers' = [loggers EXCEPT ![n].m_appenders[k].m_level = l]
    BY <1>10, <1>17, ConfigLogAssumption DEF ProgramSetAppenderLevel
  <2>2. Becomes(loggers, loggers', n, loggers[n].m_level, loggers[n].m_formatter, s)
    BY <2>1, <1>a, AppenderLevelChange
  <2> HIDE DEF s
  <2>3. loggers'[n].m_appenders = s
    BY <2>2 DEF Becomes
  <2>4. \A u \in Threads : pc[u] = "write" /\ msg[u].logger = n =>
            msg'[u] = [msg[u] EXCEPT !.changed = @ \cup {k}]
    BY <1>17 DEF ProgramSetAppenderLevel
  <2>5. Relevelled(n)
    BY <2>1, <2>3, <2>4 DEF Relevelled, s
  <2> QED BY <2>1, <2>2, <2>5, OneChange
<1>16. CASE \/ ReadLock(t) \/ EndDefine(t) \/ ReadUnlock(t) \/ Assign(t)
            \/ LogLevelTest(t) \/ LogLock(t) \/ LogWrite(t) \/ LogReturn(t)
            \/ \E doc \in Documents : LoadFromYaml(t, doc)
  BY <1>1, <1>16 DEF ReadLock, EndDefine, ReadUnlock, Assign, LogLevelTest, LogLock, LogWrite,
                     LogReturn, LoadFromYaml, logVars
<1> QED
  BY <1>2, <1>3, <1>4, <1>5, <1>6, <1>7, <1>8, <1>9, <1>11, <1>12, <1>13, <1>14, <1>15, <1>16, <1>17
     DEF Step, Begin
-----------------------------------------------------------------------------
(* Types                                                                      *)

\* First of a set is a part of it.
LEMMA FirstIn == ASSUME NEW S PROVE First(S) \subseteq S
BY DEF First

LEMMA InitType == Init => TypeOK
<1> SUFFICES ASSUME Init PROVE TypeOK
  OBVIOUS
<1> DEFINE a == WithFormatter(NewAppender("StdoutLogAppender", NoFile, DEBUG), NewLogger(<<>>))
           r == NewLogger(<<a>>)
<1>1. a \in Appender
  <2> DEFINE logger == NewLogger(<<>>)
  <2>1. logger.m_formatter \in Seq(Alphabet) \ {<<>>}
    BY ConfigLogAssumption DEF NewLogger
  <2>2. "StdoutLogAppender" \in AppenderTypes /\ a = WithFormatter(NewAppender("StdoutLogAppender", NoFile, DEBUG), logger)
    BY DEF AppenderTypes
  <2>3. NoFile \in FileName /\ DEBUG \in Levels
    BY DEF FileName, Levels, DEBUG, UNKNOW
  <2> HIDE DEF a, logger
  <2> QED BY <2>1, <2>2, <2>3, WithFormatterType
<1>2. loggers = [n \in {Root} |-> r]
  BY DEF Init
<1> HIDE DEF a
<1>3. r \in Logger
  BY <1>1, ConfigLogAssumption DEF NewLogger, Logger, Levels, DEBUG, UNKNOW
<1> HIDE DEF r
<1>4. loggers \in [DOMAIN loggers -> Logger] /\ DOMAIN loggers \subseteq Loggers
  BY <1>2, <1>3 DEF Loggers
<1>5. msg \in [Threads -> Message]
  <2>1. <<>> \in Seq(Appender)
    BY EmptySeq
  <2>2. NoMsg \in Message
    BY <2>1 DEF NoMsg, Message, Loggers, DEBUG
  <2> QED BY <2>2 DEF Init
<1>6. /\ new_value \in [Threads -> SUBSET LogDefine] /\ todo \in [Threads -> SUBSET LogDefine]
      /\ gone \in [Threads -> SUBSET LogDefine]
  BY DEF Init
<1>7. /\ now \in [Threads -> LogDefine \cup {NoDefine}]
      /\ adding \in [Threads -> Seq(LogAppenderDefine)]
  <2>1. <<>> \in Seq(LogAppenderDefine)
    BY EmptySeq
  <2> QED BY <2>1 DEF Init
<1>8. spin \in [Loggers -> Threads \cup {NoThread}]
  BY DEF Init
<1>9. pc \in [Threads -> SetValuePC \cup {"idle", "log", "loglock", "write", "logged"}]
  BY DEF Init
<1>10. calls \in 0 .. MaxCalls /\ crashed \in BOOLEAN /\ overlap \in BOOLEAN
  <2>1. calls = MaxCalls /\ MaxCalls \in Nat
    BY ConfigLogAssumption DEF Init
  <2>2. calls \in 0 .. MaxCalls
    BY <2>1
  <2>3. crashed \in BOOLEAN /\ overlap \in BOOLEAN
    BY DEF Init
  <2> QED BY <2>2, <2>3
<1>11. /\ m_val \in SUBSET LogDefine /\ m_mutex \subseteq Threads
       /\ touched \subseteq Loggers /\ configured \subseteq Names
  BY DEF Init
<1> QED BY <1>4, <1>5, <1>6, <1>7, <1>8, <1>9, <1>10, <1>11 DEF TypeOK

LEMMA StepType ==
    ASSUME TypeOK, PlaceInv, NEW t \in Threads, Step(t) \/ Begin(t)
    PROVE  TypeOK'
<1>a. LoggersStep(t)
  BY StepLoggers
<1>b. loggers' \in [DOMAIN loggers' -> Logger] /\ DOMAIN loggers' \subseteq Loggers
  BY <1>a DEF LoggersStep
<1>c. /\ m_val \in SUBSET LogDefine /\ m_mutex \subseteq Threads
      /\ spin \in [Loggers -> Threads \cup {NoThread}]
      /\ pc \in [Threads -> SetValuePC \cup {"idle", "log", "loglock", "write", "logged"}]
      /\ new_value \in [Threads -> SUBSET LogDefine]
      /\ todo \in [Threads -> SUBSET LogDefine] /\ gone \in [Threads -> SUBSET LogDefine]
      /\ now \in [Threads -> LogDefine \cup {NoDefine}]
      /\ adding \in [Threads -> Seq(LogAppenderDefine)]
      /\ msg \in [Threads -> Message]
      /\ calls \in 0 .. MaxCalls /\ crashed \in BOOLEAN /\ overlap \in BOOLEAN
      /\ touched \subseteq Loggers /\ configured \subseteq Names
      /\ DOMAIN loggers \subseteq Loggers /\ loggers \in [DOMAIN loggers -> Logger]
  BY DEF TypeOK
<1> USE DEF configVars, listenerVars, logVars, Goto, SetValuePC, TypeOK
<1> HIDE DEF TypeOK
<1>1. ASSUME NEW doc \in Documents, LoadFromYaml(t, doc) PROVE TypeOK'
  <2>1. LexicalCast(doc) \in SUBSET LogDefine
    BY CastType
  <2>2. new_value' \in [Threads -> SUBSET LogDefine]
    BY <1>1, <1>c, <2>1 DEF LoadFromYaml
  <2>3. pc' \in [Threads -> SetValuePC \cup {"idle", "log", "loglock", "write", "logged"}]
    BY <1>1, <1>c DEF LoadFromYaml
  <2>4. calls' \in 0 .. MaxCalls
    BY <1>1, <1>c, ConfigLogAssumption DEF LoadFromYaml, Call
  <2>5. overlap' \in BOOLEAN
    BY <1>1, <1>c DEF LoadFromYaml
  <2> QED BY <1>1, <1>b, <1>c, <2>2, <2>3, <2>4, <2>5 DEF LoadFromYaml, TypeOK
<1>2. CASE ReadLock(t)
  <2>1. todo' \in [Threads -> SUBSET LogDefine]
    BY <1>2, <1>c DEF ReadLock
  <2>2. gone' \in [Threads -> SUBSET LogDefine]
    BY <1>2, <1>c DEF ReadLock
  <2>3. pc' \in [Threads -> SetValuePC \cup {"idle", "log", "loglock", "write", "logged"}]
    BY <1>2, <1>c DEF ReadLock
  <2>4. m_mutex' \subseteq Threads /\ now' = now /\ adding' = adding
    BY <1>2, <1>c DEF ReadLock
  <2> QED BY <1>2, <1>b, <1>c, <2>1, <2>2, <2>3, <2>4 DEF ReadLock, TypeOK
<1>3. CASE Define(t)
  <2>1. First(todo[t]) \subseteq LogDefine
    BY <1>c, FirstIn
  <2>a. \/ now' = now /\ todo' = todo
        \/ \E d \in First(todo[t]) :
              now' = [now EXCEPT ![t] = d] /\ todo' = [todo EXCEPT ![t] = @ \ {d}]
    BY <1>3 DEF Define
  <2>2. now' \in [Threads -> LogDefine \cup {NoDefine}]
    BY <1>c, <2>a, <2>1
  <2>3. todo' \in [Threads -> SUBSET LogDefine]
    <3>1. ASSUME NEW d PROVE todo[t] \ {d} \in SUBSET LogDefine
      BY <1>c
    <3>2. ASSUME NEW S \in SUBSET LogDefine, todo' = [todo EXCEPT ![t] = S]
          PROVE  todo' \in [Threads -> SUBSET LogDefine]
      BY <1>c, <3>2
    <3>3. ASSUME NEW d, todo' = [todo EXCEPT ![t] = todo[t] \ {d}]
          PROVE  todo' \in [Threads -> SUBSET LogDefine]
      <4> DEFINE S == todo[t] \ {d}
      <4>1. S \in SUBSET LogDefine /\ todo' = [todo EXCEPT ![t] = S]
        BY <3>1, <3>3
      <4> HIDE DEF S
      <4> QED BY <3>2, <4>1
    <3>4. CASE todo' = todo
      BY <1>c, <3>4
    <3> QED BY <2>a, <3>3, <3>4
  <2>4. crashed' \in BOOLEAN
    BY <1>3, <1>c DEF Define
  <2>5. pc' \in [Threads -> SetValuePC \cup {"idle", "log", "loglock", "write", "logged"}]
    <3>1. pc' = pc \/ pc' = [pc EXCEPT ![t] = "gone"] \/ pc' = [pc EXCEPT ![t] = "level"]
      BY <1>3 DEF Define
    <3> QED BY <1>c, <3>1
  <2> QED BY <1>3, <1>b, <1>c, <2>2, <2>3, <2>4, <2>5 DEF Define, TypeOK
<1>4. CASE SetLevel(t)
  BY <1>4, <1>b, <1>c DEF SetLevel, TypeOK
<1>5. CASE SetFormatter(t)
  BY <1>5, <1>b, <1>c DEF SetFormatter, TypeOK
<1>6. CASE ClearForDefine(t)
  <2>1. now[t] \in LogDefine
    BY <1>6 DEF ClearForDefine, PlaceInv, PlaceOf, Applying
  <2>2. adding' \in [Threads -> Seq(LogAppenderDefine)]
    BY <1>6, <1>c, <2>1 DEF ClearForDefine, LogDefine
  <2> QED BY <1>6, <1>b, <1>c, <2>2 DEF ClearForDefine, TypeOK
<1>7. CASE AddForDefine(t)
  <2>1. Tail(adding[t]) \in Seq(LogAppenderDefine)
    BY <1>7, <1>c DEF AddForDefine
  <2>2. adding' \in [Threads -> Seq(LogAppenderDefine)]
    BY <1>7, <1>c, <2>1 DEF AddForDefine
  <2> QED BY <1>7, <1>b, <1>c, <2>2 DEF AddForDefine, TypeOK
<1>8. CASE EndDefine(t)
  <2>1. now' \in [Threads -> LogDefine \cup {NoDefine}]
    BY <1>8, <1>c DEF EndDefine
  <2> QED BY <1>8, <1>b, <1>c, <2>1 DEF EndDefine, TypeOK
<1>9. CASE Gone(t)
  <2>1. First(gone[t]) \subseteq LogDefine
    BY <1>c, FirstIn
  <2>a. \/ now' = now /\ gone' = gone
        \/ \E d \in First(gone[t]) :
              now' = [now EXCEPT ![t] = d] /\ gone' = [gone EXCEPT ![t] = @ \ {d}]
    BY <1>9 DEF Gone
  <2>2. now' \in [Threads -> LogDefine \cup {NoDefine}]
    BY <1>c, <2>a, <2>1
  <2>3. gone' \in [Threads -> SUBSET LogDefine]
    <3>1. ASSUME NEW d PROVE gone[t] \ {d} \in SUBSET LogDefine
      BY <1>c
    <3>2. ASSUME NEW S \in SUBSET LogDefine, gone' = [gone EXCEPT ![t] = S]
          PROVE  gone' \in [Threads -> SUBSET LogDefine]
      BY <1>c, <3>2
    <3>3. ASSUME NEW d, gone' = [gone EXCEPT ![t] = gone[t] \ {d}]
          PROVE  gone' \in [Threads -> SUBSET LogDefine]
      <4> DEFINE S == gone[t] \ {d}
      <4>1. S \in SUBSET LogDefine /\ gone' = [gone EXCEPT ![t] = S]
        BY <3>1, <3>3
      <4> HIDE DEF S
      <4> QED BY <3>2, <4>1
    <3>4. CASE gone' = gone
      BY <1>c, <3>4
    <3> QED BY <2>a, <3>3, <3>4
  <2>4. pc' \in [Threads -> SetValuePC \cup {"idle", "log", "loglock", "write", "logged"}]
    <3>1. pc' = pc \/ pc' = [pc EXCEPT ![t] = "unlock"] \/ pc' = [pc EXCEPT ![t] = "off"]
      BY <1>9 DEF Gone
    <3> QED BY <1>c, <3>1
  <2> QED BY <1>9, <1>b, <1>c, <2>2, <2>3, <2>4 DEF Gone, TypeOK
<1>10. CASE ClearGone(t)
  <2>1. now' \in [Threads -> LogDefine \cup {NoDefine}]
    BY <1>10, <1>c DEF ClearGone
  <2> QED BY <1>10, <1>b, <1>c, <2>1 DEF ClearGone, TypeOK
<1>11. CASE ReadUnlock(t)
  BY <1>11, <1>b, <1>c DEF ReadUnlock, TypeOK
<1>12. CASE Assign(t)
  <2>1. m_val' \in SUBSET LogDefine /\ new_value' \in [Threads -> SUBSET LogDefine]
    BY <1>12, <1>c DEF Assign
  <2>2. configured' \subseteq Names
    BY <1>12, <1>c DEF Assign, LogDefine
  <2> QED BY <1>12, <1>b, <1>c, <2>1, <2>2 DEF Assign, TypeOK
<1>13. ASSUME NEW n \in Loggers, NEW l \in MessageLevels, LogMacro(t, n, l) PROVE TypeOK'
  <2> DEFINE m == [NoMsg EXCEPT !.logger = n, !.level = l]
  <2>1. m \in Message
    <3>1. NoMsg \in Message
      BY DEF NoMsg, Message, Loggers, DEBUG
    <3> HIDE DEF NoMsg
    <3> QED BY <3>1, ConfigLogAssumption DEF Message, Loggers
  <2>2. msg' = msg \/ msg' = [msg EXCEPT ![t] = m]
    BY <1>13 DEF LogMacro
  <2> HIDE DEF m
  <2>3. msg' \in [Threads -> Message]
    BY <1>c, <2>1, <2>2
  <2>4. calls' \in 0 .. MaxCalls
    BY <1>13, <1>c, ConfigLogAssumption DEF LogMacro, Call
  <2>5. pc' \in [Threads -> SetValuePC \cup {"idle", "log", "loglock", "write", "logged"}]
    BY <1>13, <1>c DEF LogMacro
  <2> QED BY <1>13, <1>b, <1>c, <2>3, <2>4, <2>5 DEF LogMacro, TypeOK
<1>14. CASE LogLevelTest(t)
  <2> DEFINE m == [msg[t] EXCEPT !.accepted = TRUE]
  <2>a. msg' = msg \/ msg' = [msg EXCEPT ![t] = m]
    BY <1>14, <1>c DEF LogLevelTest
  <2>b. m \in Message
    BY <1>c DEF Message
  <2> HIDE DEF m
  <2>1. msg' \in [Threads -> Message]
    BY <1>c, <2>a, <2>b
  <2>2. pc' \in [Threads -> SetValuePC \cup {"idle", "log", "loglock", "write", "logged"}]
    BY <1>14, <1>c DEF LogLevelTest
  <2> QED BY <1>14, <1>b, <1>c, <2>1, <2>2 DEF LogLevelTest, TypeOK
<1>15. CASE LogLock(t)
  <2>1. msg[t].logger \in DOMAIN loggers
    BY <1>15 DEF LogLock, PlaceInv, PlaceOf, Logging
  <2> DEFINE list == loggers[msg[t].logger].m_appenders
  <2>2. list \in Seq(Appender)
    BY <1>c, <2>1 DEF Logger
  <2> DEFINE toRoot == [msg[t] EXCEPT !.logger = Root]
             toHere == [msg[t] EXCEPT !.seen = list]
  <2>3. msg' = [msg EXCEPT ![t] = toRoot] \/ msg' = [msg EXCEPT ![t] = toHere]
    BY <1>15, <1>c DEF LogLock
  <2>a. toRoot \in Message /\ toHere \in Message
    <3> HIDE DEF list
    <3>1. msg[t] \in Message
      BY <1>c
    <3> QED BY <2>2, <3>1 DEF Message, Loggers
  <2> HIDE DEF list, toRoot, toHere
  <2>4. msg' \in [Threads -> Message]
    BY <1>c, <2>3, <2>a
  <2>5. spin' \in [Loggers -> Threads \cup {NoThread}]
    BY <1>15, <1>c DEF LogLock
  <2>6. pc' \in [Threads -> SetValuePC \cup {"idle", "log", "loglock", "write", "logged"}]
    BY <1>15, <1>c DEF LogLock
  <2> QED BY <1>15, <1>b, <1>c, <2>4, <2>5, <2>6 DEF LogLock, TypeOK
<1>16. CASE LogWrite(t)
  <2> DEFINE k == msg[t].next
  <2>1. msg[t] \in Message /\ k \in Nat \ {0} /\ msg[t].wrote \in SUBSET Nat
    BY <1>c DEF Message
  <2>2. ASSUME NEW W \in SUBSET Nat PROVE [[msg[t] EXCEPT !.next = k + 1] EXCEPT !.wrote = W] \in Message
    <3>1. k + 1 \in Nat \ {0}
      BY <2>1
    <3> HIDE DEF k
    <3> QED BY <2>1, <3>1 DEF Message
  <2>3. /\ [[msg[t] EXCEPT !.next = k + 1] EXCEPT !.wrote = msg[t].wrote \cup {k}] \in Message
        /\ [[msg[t] EXCEPT !.next = k + 1] EXCEPT !.wrote = msg[t].wrote] \in Message
    <3>1. msg[t].wrote \cup {k} \in SUBSET Nat
      BY <2>1
    <3> QED BY <2>1, <2>2, <3>1
  <2> DEFINE W == IF msg[t].level >= loggers[msg[t].logger].m_appenders[k].m_level
                  THEN msg[t].wrote \cup {k} ELSE msg[t].wrote
             m == [[msg[t] EXCEPT !.next = k + 1] EXCEPT !.wrote = W]
  <2>4. m \in Message
    BY <2>3
  <2>5. msg' = msg \/ msg' = [msg EXCEPT ![t] = m]
    BY <1>16, <1>c DEF LogWrite
  <2> HIDE DEF m, k
  <2>6. msg' \in [Threads -> Message]
    BY <1>c, <2>4, <2>5
  <2>7. pc' \in [Threads -> SetValuePC \cup {"idle", "log", "loglock", "write", "logged"}]
    BY <1>16, <1>c DEF LogWrite
  <2> QED BY <1>16, <1>b, <1>c, <2>6, <2>7 DEF LogWrite, TypeOK
<1>17. CASE LogReturn(t)
  <2>1. NoMsg \in Message
    BY DEF NoMsg, Message, Loggers, DEBUG
  <2>2. msg' \in [Threads -> Message]
    BY <1>17, <1>c, <2>1 DEF LogReturn
  <2>3. spin' \in [Loggers -> Threads \cup {NoThread}]
    BY <1>17, <1>c DEF LogReturn
  <2> QED BY <1>17, <1>b, <1>c, <2>2, <2>3 DEF LogReturn, TypeOK
<1>18. ASSUME NEW n \in Loggers, Touch(t, n), msg' \in [Threads -> Message] PROVE TypeOK'
  <2>1. calls' \in 0 .. MaxCalls
    BY <1>18, <1>c, ConfigLogAssumption DEF Touch, Call
  <2> QED BY <1>18, <1>b, <1>c, <2>1 DEF Touch, TypeOK
<1>19. ASSUME NEW n \in Loggers, Change(t, n) PROVE TypeOK'
  BY <1>18, <1>19, <1>c DEF Change
<1>20. ASSUME NEW n \in Loggers, NEW k, NEW l, ProgramSetAppenderLevel(t, n, k, l) PROVE TypeOK'
  <2>1. k \in Nat
    <3>1. n \in DOMAIN loggers /\ k \in DOMAIN loggers[n].m_appenders
      BY <1>20 DEF ProgramSetAppenderLevel, Touch
    <3> QED BY <1>c, <3>1 DEF Logger
  <2>2. ASSUME NEW u \in Threads PROVE msg'[u] \in Message
    <3>1. msg[u] \in Message /\ [msg[u] EXCEPT !.changed = @ \cup {k}] \in Message
      BY <1>c, <2>1 DEF Message
    <3> QED BY <1>20, <3>1 DEF ProgramSetAppenderLevel
  <2>3. msg' \in [Threads -> Message]
    BY <1>20, <2>2 DEF ProgramSetAppenderLevel
  <2> QED BY <1>18, <1>20, <2>3 DEF ProgramSetAppenderLevel
<1> QED
  BY <1>1, <1>2, <1>3, <1>4, <1>5, <1>6, <1>7, <1>8, <1>9, <1>10, <1>11, <1>12, <1>13, <1>14,
     <1>15, <1>16, <1>17, <1>19, <1>20, BeginCases
     DEF Step
-----------------------------------------------------------------------------
(* Threads                                                                    *)

\* A message on its way is left alone, or a change of an appender's level is noted in it.
Noted(u) == msg'[u] = msg[u] \/ \E k : msg'[u] = [msg[u] EXCEPT !.changed = @ \cup {k}]

\* A step of one thread leaves the other threads where they are, and their locks to them.
LEMMA OtherThreads ==
    ASSUME TypeOK, NEW t \in Threads, Step(t) \/ Begin(t), NEW u \in Threads, u # t
    PROVE  /\ pc'[u] = pc[u] /\ now'[u] = now[u] /\ todo'[u] = todo[u] /\ gone'[u] = gone[u]
           /\ adding'[u] = adding[u] /\ Noted(u) /\ new_value'[u] = new_value[u]
           /\ \A n \in Loggers : spin[n] = u => spin'[n] = u
<1> USE DEF configVars, listenerVars, logVars, Goto
<1>a. /\ spin \in [Loggers -> Threads \cup {NoThread}] /\ u # NoThread
      /\ pc \in [Threads -> SetValuePC \cup {"idle", "log", "loglock", "write", "logged"}]
      /\ new_value \in [Threads -> SUBSET LogDefine]
      /\ todo \in [Threads -> SUBSET LogDefine] /\ gone \in [Threads -> SUBSET LogDefine]
      /\ now \in [Threads -> LogDefine \cup {NoDefine}]
      /\ adding \in [Threads -> Seq(LogAppenderDefine)] /\ msg \in [Threads -> Message]
  BY ConfigLogAssumption DEF TypeOK
<1> DEFINE P == /\ pc'[u] = pc[u] /\ now'[u] = now[u] /\ todo'[u] = todo[u] /\ gone'[u] = gone[u]
                /\ adding'[u] = adding[u] /\ Noted(u) /\ new_value'[u] = new_value[u]
                /\ \A n \in Loggers : spin[n] = u => spin'[n] = u
<1> SUFFICES P
  OBVIOUS
<1> USE DEF Noted
<1>1. ASSUME NEW doc, LoadFromYaml(t, doc) PROVE P
  BY <1>1, <1>a DEF LoadFromYaml
<1>2. CASE ReadLock(t)
  BY <1>2, <1>a DEF ReadLock
<1>3. CASE Define(t)
  BY <1>3, <1>a DEF Define
<1>4. CASE SetLevel(t) \/ SetFormatter(t) \/ ClearForDefine(t) \/ AddForDefine(t) \/ EndDefine(t)
  BY <1>4, <1>a DEF SetLevel, SetFormatter, ClearForDefine, AddForDefine, EndDefine
<1>5. CASE Gone(t)
  BY <1>5, <1>a DEF Gone
<1>6. CASE ClearGone(t) \/ ReadUnlock(t) \/ Assign(t)
  BY <1>6, <1>a DEF ClearGone, ReadUnlock, Assign
<1>7. ASSUME NEW n, NEW l, LogMacro(t, n, l) PROVE P
  BY <1>7, <1>a DEF LogMacro
<1>8. CASE LogLevelTest(t)
  BY <1>8, <1>a DEF LogLevelTest
<1>9. CASE LogLock(t)
  BY <1>9, <1>a DEF LogLock, Free
<1>10. CASE LogWrite(t)
  BY <1>10, <1>a DEF LogWrite
<1>11. CASE LogReturn(t)
  BY <1>11, <1>a DEF LogReturn
<1>12. ASSUME NEW n, Change(t, n) PROVE P
  BY <1>12, <1>a DEF Change, Touch
<1>13. ASSUME NEW n, NEW k, NEW l, ProgramSetAppenderLevel(t, n, k, l) PROVE P
  BY <1>13, <1>a DEF ProgramSetAppenderLevel, Touch
<1> HIDE DEF P
<1> QED
  BY <1>1, <1>2, <1>3, <1>4, <1>5, <1>6, <1>7, <1>8, <1>9, <1>10, <1>11, <1>12, <1>13, BeginCases
     DEF Step

\* No logger is lost, nor a change that the program has made.
LEMMA RootStep ==
    ASSUME TypeOK, PlaceInv, RootInv, NEW t \in Threads, Step(t) \/ Begin(t)
    PROVE  RootInv'
<1>1. LoggersStep(t)
  BY StepLoggers
<1> QED BY <1>1 DEF LoggersStep, RootInv

LEMMA TouchedGrows ==
    ASSUME TypeOK, NEW t \in Threads, Step(t) \/ Begin(t)
    PROVE  touched \subseteq touched'
<1>1. CASE Step(t)
  BY <1>1 DEF Step, ReadLock, Define, SetLevel, SetFormatter, ClearForDefine, AddForDefine, EndDefine,
              Gone, ClearGone, ReadUnlock, Assign, LogLevelTest, LogLock, LogWrite, LogReturn
<1>2. CASE Begin(t)
  BY <1>2, BeginCases DEF LoadFromYaml, LogMacro, Change, Touch, ProgramSetAppenderLevel
<1> QED BY <1>1, <1>2

LEMMA PlaceStep ==
    ASSUME TypeOK, TypeOK', PlaceInv, RootInv, NEW t \in Threads, Step(t) \/ Begin(t)
    PROVE  PlaceInv'
<1> SUFFICES ASSUME NEW u \in Threads PROVE PlaceOf(u)'
  BY DEF PlaceInv
<1> USE DEF Applying, Logging
<1>a. LoggersStep(t)
  BY StepLoggers
<1>b. DOMAIN loggers \subseteq DOMAIN loggers'
  BY <1>a DEF LoggersStep
<1>1. CASE u # t
  <2>1. pc'[u] = pc[u] /\ now'[u] = now[u] /\ msg'[u].logger = msg[u].logger /\ PlaceOf(u)
    <3>1. pc'[u] = pc[u] /\ now'[u] = now[u] /\ Noted(u) /\ PlaceOf(u)
      BY <1>1, OtherThreads DEF PlaceInv
    <3>2. msg[u] \in Message
      BY DEF TypeOK
    <3> QED BY <3>1, <3>2 DEF Noted, Message
  <2> QED BY <1>b, <2>1 DEF PlaceOf
<1>2. CASE u = t
  <2>a. /\ pc[t] \in Applying \cup {"off"} => now[t] \in LogDefine /\ now[t].name \in DOMAIN loggers
        /\ pc[t] \notin Applying \cup {"off"} => now[t] = NoDefine
        /\ pc[t] \in Logging => msg[t].logger \in DOMAIN loggers
    BY DEF PlaceInv, PlaceOf
  <2>b. /\ pc \in [Threads -> SetValuePC \cup {"idle", "log", "loglock", "write", "logged"}]
        /\ now \in [Threads -> LogDefine \cup {NoDefine}] /\ msg \in [Threads -> Message]
        /\ todo \in [Threads -> SUBSET LogDefine] /\ gone \in [Threads -> SUBSET LogDefine]
    BY DEF TypeOK
  <2> DEFINE P == /\ pc'[t] \in Applying \cup {"off"} =>
                          now'[t] \in LogDefine /\ now'[t].name \in DOMAIN loggers'
                  /\ pc'[t] \notin Applying \cup {"off"} => now'[t] = NoDefine
                  /\ pc'[t] \in Logging => msg'[t].logger \in DOMAIN loggers'
  <2> SUFFICES P
    BY <1>2 DEF PlaceOf
  <2> USE DEF configVars, listenerVars, logVars, Goto
  <2>1. ASSUME NEW doc, LoadFromYaml(t, doc) PROVE P
    BY <2>1, <2>a, <2>b DEF LoadFromYaml, Call
  <2>2. CASE ReadLock(t)
    BY <2>2, <2>a, <2>b DEF ReadLock
  <2>3. CASE Define(t)
    <3>1. CASE pc'[t] \in {"define", "gone"} /\ now' = now
      BY <2>3, <2>a, <3>1 DEF Define
    <3>2. ASSUME NEW d \in First(todo[t]), now' = [now EXCEPT ![t] = d], Goto(t, "level"),
                 loggers' = GetLogger(d.name)
          PROVE  P
      <4>1. d \in LogDefine
        BY <2>b, FirstIn
      <4>2. now'[t] = d /\ pc'[t] = "level" /\ d.name \in DOMAIN loggers'
        BY <2>b, <3>2 DEF GetLogger
      <4> QED BY <4>1, <4>2
    <3> HIDE DEF P
    <3> QED BY <2>3, <2>b, <3>1, <3>2 DEF Define
  <2>4. CASE SetLevel(t) \/ SetFormatter(t) \/ ClearForDefine(t) \/ AddForDefine(t)
    <3>1. /\ pc[t] \in Applying /\ pc'[t] \in Applying /\ now'[t] = now[t]
      BY <2>4, <2>b DEF SetLevel, SetFormatter, ClearForDefine, AddForDefine
    <3> QED BY <3>1, <1>b, <2>a
  <2>5. CASE EndDefine(t) \/ ClearGone(t) \/ ReadUnlock(t) \/ Assign(t)
    <3>1. pc'[t] \in {"define", "gone", "wrlock", "idle"} /\ now'[t] = NoDefine
      BY <2>5, <2>a, <2>b DEF EndDefine, ClearGone, ReadUnlock, Assign
    <3> QED BY <3>1
  <2>6. CASE Gone(t)
    <3>1. CASE pc'[t] = "unlock" /\ now' = now
      BY <2>6, <2>a, <3>1 DEF Gone
    <3>2. ASSUME NEW d \in First(gone[t]), now' = [now EXCEPT ![t] = d], Goto(t, "off"),
                 loggers' = [GetLogger(d.name) EXCEPT ![d.name].m_level = OFF]
          PROVE  P
      <4>1. d \in LogDefine
        BY <2>b, FirstIn
      <4>2. now'[t] = d /\ pc'[t] = "off" /\ d.name \in DOMAIN loggers'
        BY <2>b, <3>2 DEF GetLogger
      <4> QED BY <4>1, <4>2
    <3> HIDE DEF P
    <3> QED BY <2>6, <2>b, <3>1, <3>2 DEF Gone
  <2>7. ASSUME NEW n \in Loggers, NEW l, LogMacro(t, n, l) PROVE P
    <3>1. n \in DOMAIN loggers'
      BY <2>7 DEF LogMacro, GetLogger
    <3>a. now'[t] = NoDefine
      BY <2>7, <2>a DEF LogMacro, Call
    <3>2. CASE pc'[t] = "idle"
      BY <3>a, <3>2
    <3>3. CASE Goto(t, "log") /\ msg' = [msg EXCEPT ![t] = [NoMsg EXCEPT !.logger = n, !.level = l]]
      <4> DEFINE m == [NoMsg EXCEPT !.logger = n, !.level = l]
      <4>1. m.logger = n
        BY DEF NoMsg
      <4>2. msg'[t] = m
        BY <2>b, <3>3
      <4> HIDE DEF m
      <4>3. pc'[t] = "log"
        BY <2>b, <3>3
      <4> QED BY <3>1, <3>a, <4>1, <4>2, <4>3
    <3> HIDE DEF P
    <3> QED BY <2>7, <2>b, <3>2, <3>3 DEF LogMacro, Call
  <2>8. CASE LogLevelTest(t) \/ LogWrite(t)
    <3>1. /\ pc[t] \in Logging /\ pc'[t] \in Logging /\ msg'[t].logger = msg[t].logger
      <4>1. msg[t] \in Message
        BY <2>b
      <4>2. CASE LogLevelTest(t)
        BY <4>1, <4>2, <2>b DEF LogLevelTest, Message
      <4>3. CASE LogWrite(t)
        BY <4>1, <4>3, <2>b DEF LogWrite, Message
      <4> QED BY <2>8, <4>2, <4>3
    <3>2. now'[t] = now[t]
      BY <2>8 DEF LogLevelTest, LogWrite
    <3> QED BY <3>1, <3>2, <1>b, <2>a
  <2>9. CASE LogLock(t)
    <3>1. pc[t] \in Logging /\ pc'[t] \in {"log", "write"}
      BY <2>9, <2>b DEF LogLock
    <3>2. msg'[t].logger \in {msg[t].logger, Root}
      <4>1. msg[t] \in Message
        BY <2>b
      <4> QED BY <4>1, <2>9, <2>b DEF LogLock, Message
    <3>3. now'[t] = now[t]
      BY <2>9 DEF LogLock
    <3> QED BY <3>1, <3>2, <3>3, <1>b, <2>a DEF RootInv
  <2>10. CASE LogReturn(t)
    BY <2>10, <2>a, <2>b DEF LogReturn
  <2>11. ASSUME NEW n, Touch(t, n) PROVE P
    BY <2>11, <2>a, <2>b DEF Touch, Call
  <2> HIDE DEF P
  <2> QED
    BY <2>1, <2>2, <2>3, <2>4, <2>5, <2>6, <2>7, <2>8, <2>9, <2>10, <2>11, BeginCases
     DEF Step, Change, ProgramSetAppenderLevel
<1> QED BY <1>1, <1>2
-----------------------------------------------------------------------------
(* Messages                                                                   *)

\* A position whose level was changed is excepted from then on.
LEMMA NoteKeeps ==
    ASSUME NEW m \in Message, NEW k, NEW w, w = [m EXCEPT !.changed = @ \cup {k}]
    PROVE  /\ w.logger = m.logger /\ w.accepted = m.accepted /\ w.seen = m.seen
           /\ w.next = m.next /\ w.wrote = m.wrote
           /\ \A n : WrittenUpTo(m, n) => WrittenUpTo(w, n)
           /\ \A list : SeenIn(m, list) => SeenIn(w, list)
<1>1. /\ w.logger = m.logger /\ w.accepted = m.accepted /\ w.seen = m.seen /\ w.next = m.next
      /\ w.wrote = m.wrote /\ w.level = m.level /\ w.changed = m.changed \cup {k}
  BY DEF Message
<1> QED BY <1>1 DEF WrittenUpTo, SeenIn

\* The steps of other threads do not disturb a message that is being written: the
\* logger's lock is held, and changes of levels are noted.
LEMMA MessageOthers ==
    ASSUME TypeOK, PlaceInv, NEW t \in Threads, Step(t) \/ Begin(t),
           NEW u \in Threads, u # t, MessageOf(u)
    PROVE  MessageOf(u)'
<1> DEFINE m == msg[u]
           w == msg'[u]
<1>1. /\ pc'[u] = pc[u] /\ Noted(u)
      /\ \A n \in Loggers : spin[n] = u => spin'[n] = u
  BY OtherThreads
<1>2. m \in Message
  BY DEF TypeOK
<1>3. /\ w.logger = m.logger /\ w.accepted = m.accepted /\ w.seen = m.seen
      /\ w.next = m.next /\ w.wrote = m.wrote
      /\ \A n : WrittenUpTo(m, n) => WrittenUpTo(w, n)
      /\ \A list : SeenIn(m, list) => SeenIn(w, list)
  <2>1. CASE w = m
    BY <2>1
  <2>2. ASSUME NEW k, w = [m EXCEPT !.changed = @ \cup {k}]
        PROVE  /\ w.logger = m.logger /\ w.accepted = m.accepted /\ w.seen = m.seen
               /\ w.next = m.next /\ w.wrote = m.wrote
               /\ \A n : WrittenUpTo(m, n) => WrittenUpTo(w, n)
               /\ \A list : SeenIn(m, list) => SeenIn(w, list)
    <3> HIDE DEF m, w
    <3> QED BY <1>2, <2>2, NoteKeeps
  <2> QED BY <1>1, <2>1, <2>2 DEF Noted
<1>4. ASSUME pc[u] = "write"
      PROVE  spin'[m.logger] = u /\ SeenIn(w, loggers'[m.logger].m_appenders)
  <2> DEFINE n == m.logger
  <2>1. n \in DOMAIN loggers /\ n \in Loggers
    BY <1>4 DEF PlaceInv, PlaceOf, Logging, TypeOK
  <2>2. spin[n] = u /\ ~Free(n) /\ SeenIn(m, loggers[n].m_appenders)
    BY <1>4, ConfigLogAssumption DEF MessageOf, Free
  <2>3. LoggersStep(t)
    BY StepLoggers
  <2>4. loggers'[n].m_appenders = loggers[n].m_appenders \/ Relevelled(n)
    BY <2>1, <2>2, <2>3 DEF LoggersStep
  <2>5. CASE loggers'[n].m_appenders = loggers[n].m_appenders
    BY <1>1, <1>3, <2>1, <2>2, <2>5
  <2>6. CASE Relevelled(n)
    <3> DEFINE list == loggers[n].m_appenders
    <3>1. PICK k \in DOMAIN list, l \in Levels :
              /\ loggers'[n].m_appenders = [list EXCEPT ![k].m_level = l]
              /\ w = [m EXCEPT !.changed = @ \cup {k}]
      BY <1>4, <2>6 DEF Relevelled
    <3>2. list \in Seq(Appender)
      BY <2>1 DEF TypeOK, Logger
    <3>3. k \in w.changed /\ m.changed \subseteq w.changed
      <4> HIDE DEF m, w
      <4> QED BY <1>2, <3>1 DEF Message
    <3> HIDE DEF list
    <3>4. /\ Len([list EXCEPT ![k].m_level = l]) = Len(list)
          /\ \A j \in 1 .. Len(list) : j # k => [list EXCEPT ![k].m_level = l][j] = list[j]
      BY <3>2
    <3>5. SeenIn(w, [list EXCEPT ![k].m_level = l])
      <4> HIDE DEF m, w
      <4> QED BY <1>3, <2>2, <3>3, <3>4 DEF SeenIn, list
    <3> QED BY <1>1, <2>1, <2>2, <3>1, <3>5
  <2> QED BY <2>4, <2>5, <2>6
<1>5. /\ pc[u] = "write" => m.next <= Len(m.seen) + 1 /\ WrittenUpTo(m, m.next)
      /\ pc[u] = "logged" /\ m.accepted => WrittenUpTo(m, Len(m.seen) + 1)
      /\ pc[u] \in {"write", "logged"} /\ m.accepted /\ m.seen = <<>> => m.logger = Root
      /\ pc[u] \in {"log", "loglock"} => m.seen = <<>> /\ m.next = 1 /\ m.wrote = {}
      /\ pc[u] = "write" => m.wrote \subseteq 1 .. m.next - 1
      /\ pc[u] = "log" /\ m.accepted => m.logger = Root
  BY DEF MessageOf
<1> HIDE DEF m
<1> QED BY <1>1, <1>3, <1>4, <1>5 DEF MessageOf

LEMMA MessageStep ==
    ASSUME TypeOK, TypeOK', PlaceInv, RootInv, MessageInv, NEW t \in Threads, Step(t) \/ Begin(t)
    PROVE  MessageInv'
<1> SUFFICES ASSUME NEW u \in Threads PROVE MessageOf(u)'
  BY DEF MessageInv
<1>a. MessageOf(u) /\ MessageOf(t)
  BY DEF MessageInv
<1>1. CASE u # t
  BY <1>1, <1>a, MessageOthers
<1>2. CASE u = t
  <2> SUFFICES MessageOf(t)'
    BY <1>2
  <2>b. /\ pc \in [Threads -> SetValuePC \cup {"idle", "log", "loglock", "write", "logged"}]
        /\ msg \in [Threads -> Message] /\ msg[t] \in Message
        /\ spin \in [Loggers -> Threads \cup {NoThread}]
    BY DEF TypeOK
  <2>c. /\ msg[t].next \in Nat \ {0} /\ msg[t].seen \in Seq(Appender)
        /\ msg[t].level \in DEBUG .. 5 /\ msg[t].logger \in Loggers
    BY <2>b DEF Message
  <2> USE DEF configVars, listenerVars, logVars, Goto
  <2>1. ASSUME pc'[t] \in SetValuePC \cup {"idle"} PROVE MessageOf(t)'
    BY <2>1 DEF MessageOf, SetValuePC
  <2>2. ASSUME NEW doc, LoadFromYaml(t, doc) PROVE pc'[t] \in SetValuePC \cup {"idle"}
    BY <2>2, <2>b DEF LoadFromYaml, Call, SetValuePC
  <2>3. CASE ReadLock(t) \/ Define(t) \/ SetLevel(t) \/ SetFormatter(t) \/ ClearForDefine(t)
    <3>1. pc'[t] \in SetValuePC \cup {"idle"}
      BY <2>3, <2>b DEF ReadLock, Define, SetLevel, SetFormatter, ClearForDefine, SetValuePC
    <3> QED BY <2>1, <3>1
  <2>4. CASE \/ AddForDefine(t) \/ EndDefine(t) \/ Gone(t) \/ ClearGone(t) \/ ReadUnlock(t)
             \/ Assign(t) \/ LogReturn(t)
    <3>1. pc'[t] \in SetValuePC \cup {"idle"}
      BY <2>4, <2>b DEF AddForDefine, EndDefine, Gone, ClearGone, ReadUnlock, Assign, LogReturn,
                        SetValuePC
    <3> QED BY <2>1, <3>1
  <2>d. ASSUME NEW m, m.seen = <<>> PROVE Len(m.seen) = 0 /\ WrittenUpTo(m, Len(m.seen) + 1)
    BY <2>d DEF WrittenUpTo
  <2>5. ASSUME NEW n \in Loggers, NEW l, LogMacro(t, n, l) PROVE MessageOf(t)'
    <3>1. CASE pc'[t] = "idle"
      BY <3>1, <2>1
    <3>2. CASE Goto(t, "log") /\ msg' = [msg EXCEPT ![t] = [NoMsg EXCEPT !.logger = n, !.level = l]]
      <4> DEFINE m == [NoMsg EXCEPT !.logger = n, !.level = l]
      <4>1. m.seen = <<>> /\ m.next = 1 /\ m.wrote = {} /\ m.accepted = FALSE
        BY DEF NoMsg
      <4>2. msg'[t] = m /\ pc'[t] = "log"
        BY <2>b, <3>2
      <4> HIDE DEF m
      <4> QED BY <4>1, <4>2 DEF MessageOf
    <3> QED BY <2>5, <2>b, <3>1, <3>2 DEF LogMacro, Call
  <2>6. CASE LogLevelTest(t)
    <3>1. /\ pc[t] = "log" /\ msg[t].seen = <<>> /\ msg[t].next = 1 /\ msg[t].wrote = {}
          /\ msg[t].accepted => msg[t].logger = Root
      BY <2>6, <1>a DEF LogLevelTest, MessageOf
    <3>2. CASE msg[t].level >= loggers[msg[t].logger].m_level
      <4>1. /\ pc'[t] = "loglock" /\ msg'[t].seen = msg[t].seen /\ msg'[t].next = msg[t].next
            /\ msg'[t].wrote = msg[t].wrote
        BY <2>6, <3>2, <2>b DEF LogLevelTest, Message
      <4> QED BY <3>1, <4>1 DEF MessageOf
    <3>3. CASE ~(msg[t].level >= loggers[msg[t].logger].m_level)
      <4>1. pc'[t] = "logged" /\ msg'[t] = msg[t]
        BY <2>6, <3>3, <2>b DEF LogLevelTest
      <4>2. WrittenUpTo(msg'[t], Len(msg'[t].seen) + 1)
        BY <2>d, <3>1, <4>1
      <4> QED BY <3>1, <4>1, <4>2 DEF MessageOf
    <3> QED BY <3>2, <3>3
  <2>7. CASE LogLock(t)
    <3> DEFINE n == msg[t].logger
               list == loggers[n].m_appenders
    <3>1. pc[t] = "loglock" /\ msg[t].seen = <<>> /\ msg[t].next = 1 /\ msg[t].wrote = {}
      BY <2>7, <1>a DEF LogLock, MessageOf
    <3>2. spin' = [spin EXCEPT ![n] = t] /\ loggers' = loggers
      BY <2>7 DEF LogLock
    <3>3. CASE list = <<>> /\ n # Root
      <4>1. /\ pc'[t] = "log" /\ msg'[t].seen = msg[t].seen /\ msg'[t].next = msg[t].next
            /\ msg'[t].wrote = msg[t].wrote /\ msg'[t].logger = Root
        BY <2>7, <3>3, <2>b DEF LogLock, Message
      <4> QED BY <3>1, <4>1 DEF MessageOf
    <3>4. CASE ~(list = <<>> /\ n # Root)
      <4>1. Goto(t, "write") /\ msg' = [msg EXCEPT ![t].seen = list]
        BY <2>7, <3>4 DEF LogLock
      <4>2. list \in Seq(Appender)
        BY <4>1, <2>b DEF TypeOK, Message
      <4> HIDE DEF list
      <4>3. /\ pc'[t] = "write" /\ msg'[t].next = 1 /\ msg'[t].logger = n
            /\ msg'[t].seen = list /\ msg'[t].wrote = {}
        BY <3>1, <4>1, <2>b DEF Message
      <4>4. spin'[n] = t
        BY <3>2, <2>b, <2>c
      <4>5. loggers'[n].m_appenders = list
        BY <3>2 DEF list
      <4>6. Len(list) \in Nat /\ 1 <= Len(list) + 1
        BY <4>2
      <4>7. SeenIn(msg'[t], list) /\ WrittenUpTo(msg'[t], 1)
        BY <4>3 DEF SeenIn, WrittenUpTo
      <4>8. list = <<>> => n = Root
        BY <3>4
      <4> HIDE DEF n
      <4> QED BY <4>3, <4>4, <4>5, <4>6, <4>7, <4>8 DEF MessageOf
    <3> QED BY <3>3, <3>4
  <2>8. CASE LogWrite(t)
    <3> DEFINE m == msg[t]
               n == msg[t].logger
               list == loggers[n].m_appenders
               k == msg[t].next
    <3>1. /\ pc[t] = "write" /\ spin[n] = t /\ SeenIn(m, list)
          /\ k <= Len(m.seen) + 1 /\ WrittenUpTo(m, k) /\ m.wrote \subseteq 1 .. k - 1
          /\ m.accepted /\ m.seen = <<>> => n = Root
      BY <2>8, <1>a DEF LogWrite, MessageOf
    <3>2. spin' = spin /\ loggers' = loggers
      BY <2>8 DEF LogWrite
    <3>3. k \in Nat \ {0} /\ m.seen \in Seq(Appender) /\ Len(m.seen) \in Nat /\ Len(list) = Len(m.seen)
      BY <2>c, <3>1 DEF SeenIn
    <3>4. IF k > Len(list)
          THEN Goto(t, "logged") /\ UNCHANGED msg
          ELSE /\ UNCHANGED pc
               /\ msg' = [msg EXCEPT ![t].next = k + 1,
                                     ![t].wrote = IF msg[t].level >= list[k].m_level
                                                  THEN @ \cup {k} ELSE @]
      BY <2>8 DEF LogWrite
    <3>5. CASE k > Len(list)
      <4>1. k = Len(m.seen) + 1
        BY <3>1, <3>3, <3>5
      <4>2. pc'[t] = "logged" /\ msg'[t] = m
        BY <3>4, <3>5, <2>b
      <4> HIDE DEF list
      <4> QED BY <3>1, <4>1, <4>2 DEF MessageOf
    <3>6. CASE ~(k > Len(list))
      <4> DEFINE w == msg'[t]
      <4>1. k <= Len(m.seen) /\ k \in 1 .. Len(list) /\ k + 1 <= Len(m.seen) + 1
        BY <3>3, <3>6
      <4>2. /\ w.next = k + 1 /\ w.logger = n /\ w.seen = m.seen /\ w.changed = m.changed
            /\ w.level = m.level /\ w.accepted = m.accepted
            /\ w.wrote = IF m.level >= list[k].m_level THEN m.wrote \cup {k} ELSE m.wrote
        BY <2>b, <3>4, <3>6 DEF Message
      <4>3. pc'[t] = "write"
        BY <3>1, <3>4, <3>6
      <4>4. loggers'[n].m_appenders = list
        BY <3>2
      <4> HIDE DEF m, n, list, k, w
      <4>5. SeenIn(w, list)
        BY <3>1, <4>2 DEF SeenIn
      <4>6. WrittenUpTo(w, k + 1)
        <5> SUFFICES ASSUME NEW j \in 1 .. k, j \notin w.changed
                     PROVE  j \in w.wrote <=> w.level >= w.seen[j].m_level
          BY <3>3 DEF WrittenUpTo
        <5>1. CASE j # k
          <6>1. j \in 1 .. k - 1
            BY <3>3, <5>1
          <6>2. j \in m.wrote <=> m.level >= m.seen[j].m_level
            BY <3>1, <4>2, <6>1 DEF WrittenUpTo
          <6> QED BY <4>2, <5>1, <6>2
        <5>2. CASE j = k
          <6>1. list[k].m_level = m.seen[k].m_level
            BY <3>1, <4>1, <4>2, <5>2 DEF SeenIn
          <6>2. k \notin m.wrote
            BY <3>1, <3>3
          <6> QED BY <4>2, <5>2, <6>1, <6>2
        <5> QED BY <5>1, <5>2
      <4>7. w.wrote \subseteq 1 .. w.next - 1
        BY <3>1, <3>3, <4>2
      <4> QED BY <3>1, <3>2, <4>1, <4>2, <4>3, <4>4, <4>5, <4>6, <4>7 DEF MessageOf, w, n
    <3> QED BY <3>5, <3>6
  <2>9. ASSUME NEW n, Touch(t, n) PROVE MessageOf(t)'
    BY <2>1, <2>9, <2>b DEF Touch, Call
  <2> QED
    BY <2>1, <2>2, <2>3, <2>4, <2>5, <2>6, <2>7, <2>8, <2>9, BeginCases
     DEF Step, Change, ProgramSetAppenderLevel
<1> QED BY <1>1, <1>2
-----------------------------------------------------------------------------
(* The configuration                                                          *)

\* A logger that a step does not work on stays as its definition says, or silent.
LEMMA KeepFits ==
    ASSUME NEW t, LoggersStep(t), NEW d, Fits(d), ~AtWork(t, d.name)
    PROVE  Fits(d)'
<1>1. d.name \in DOMAIN loggers /\ d.name \in DOMAIN loggers' /\ loggers'[d.name] = loggers[d.name]
  BY DEF LoggersStep, Fits
<1> QED BY <1>1 DEF Fits, Level, Formatter, Added, Matches

LEMMA KeepSilent ==
    ASSUME NEW t, LoggersStep(t), NEW n, Silent(n), ~AtWork(t, n)
    PROVE  Silent(n)'
BY DEF LoggersStep, Silent

LEMMA ValuesStep ==
    ASSUME TypeOK, ValuesInv, NEW t \in Threads, Step(t) \/ Begin(t)
    PROVE  ValuesInv'
<1>a. new_value \in [Threads -> SUBSET LogDefine]
  BY DEF TypeOK
<1> USE DEF configVars, listenerVars, logVars
<1>1. CASE UNCHANGED <<m_val, new_value, configured>>
  BY <1>1 DEF ValuesInv, OneEach, NamesOf
<1>2. CASE Assign(t)
  <2>1. m_val' = new_value[t] /\ configured' = configured \cup NamesOf(new_value[t])
    BY <1>2 DEF Assign, NamesOf
  <2>2. \A u \in Threads : new_value'[u] = new_value[u] \/ new_value'[u] = {}
    BY <1>2, <1>a DEF Assign
  <2>3. ASSUME NEW S, OneEach(S), NEW T, T = S PROVE OneEach(T)
    BY <2>3
  <2>4. OneEach(m_val') /\ NamesOf(m_val') \subseteq configured'
    BY <2>1 DEF ValuesInv
  <2>5. ASSUME NEW u \in Threads PROVE OneEach(new_value'[u])
    <3>1. OneEach(new_value[u]) /\ OneEach({})
      BY DEF ValuesInv, OneEach
    <3> QED BY <2>2, <3>1
  <2> QED BY <2>4, <2>5 DEF ValuesInv, OneEach, NamesOf
<1>3. ASSUME NEW doc \in Documents, LoadFromYaml(t, doc) PROVE ValuesInv'
  <2>1. UNCHANGED <<m_val, configured>>
    BY <1>3 DEF LoadFromYaml
  <2>2. \A u \in Threads : new_value'[u] = new_value[u] \/ new_value'[u] = LexicalCast(doc)
    BY <1>3, <1>a DEF LoadFromYaml
  <2>3. OneEach(LexicalCast(doc))
    BY CastType
  <2>4. ASSUME NEW u \in Threads PROVE OneEach(new_value'[u])
    <3>1. OneEach(new_value[u])
      BY DEF ValuesInv
    <3> QED BY <2>2, <2>3, <3>1
  <2> QED BY <2>1, <2>4 DEF ValuesInv, OneEach, NamesOf
<1>4. CASE \/ ReadLock(t) \/ Define(t) \/ SetLevel(t) \/ SetFormatter(t) \/ ClearForDefine(t)
           \/ AddForDefine(t) \/ EndDefine(t)
  BY <1>1, <1>4 DEF ReadLock, Define, SetLevel, SetFormatter, ClearForDefine, AddForDefine, EndDefine
<1>5. CASE \/ Gone(t) \/ ClearGone(t) \/ ReadUnlock(t) \/ LogLevelTest(t) \/ LogLock(t)
           \/ LogWrite(t) \/ LogReturn(t)
  BY <1>1, <1>5 DEF Gone, ClearGone, ReadUnlock, LogLevelTest, LogLock, LogWrite, LogReturn
<1>6. ASSUME NEW n, NEW l, LogMacro(t, n, l) PROVE ValuesInv'
  BY <1>1, <1>6 DEF LogMacro
<1>7. ASSUME NEW n, Touch(t, n) PROVE ValuesInv'
  BY <1>1, <1>7 DEF Touch
<1> QED
  BY <1>2, <1>3, <1>4, <1>5, <1>6, <1>7, BeginCases DEF Step, Change, ProgramSetAppenderLevel

\* A step that leaves the configuration and the listener alone changes no logger but
\* those the program takes charge of.
Aside == UNCHANGED configVars /\ UNCHANGED listenerVars /\ touched \subseteq touched'

LEMMA AsideSettled ==
    ASSUME NEW t, LoggersStep(t), pc[t] \notin SetValuePC, Aside, Settled
    PROVE  Settled'
<1>1. touched \subseteq touched' /\ m_val' = m_val /\ configured' = configured
  BY DEF Aside, configVars
<1>2. ASSUME NEW m, m \notin touched' PROVE ~AtWork(t, m)
  BY <1>2 DEF AtWork, Applying, SetValuePC
<1>3. ASSUME NEW d \in m_val, d.name \notin touched' PROVE Fits(d)'
  BY <1>1, <1>2, <1>3, KeepFits DEF Settled
<1>4. ASSUME NEW n \in configured \ (NamesOf(m_val) \cup touched') PROVE Silent(n)'
  BY <1>1, <1>2, <1>4, KeepSilent DEF Settled
<1>5. NamesOf(m_val)' = NamesOf(m_val)
  BY <1>1 DEF NamesOf
<1> QED BY <1>1, <1>3, <1>4, <1>5 DEF Settled

LEMMA AsideProgress ==
    ASSUME PlaceInv, NEW t, LoggersStep(t), pc[t] \notin SetValuePC, Aside,
           NEW u \in Threads, pc'[u] = pc[u], Progress(u)
    PROVE  Progress(u)'
<1>1. /\ touched \subseteq touched' /\ m_val' = m_val /\ configured' = configured
      /\ new_value' = new_value /\ todo' = todo /\ gone' = gone /\ now' = now /\ adding' = adding
  BY DEF Aside, configVars, listenerVars
<1>2. ASSUME NEW m, m \notin touched' PROVE ~AtWork(t, m)
  BY <1>2 DEF AtWork, Applying, SetValuePC
<1>3. NamesOf(m_val)' = NamesOf(m_val) /\ NamesOf(new_value[u])' = NamesOf(new_value[u])
  BY <1>1 DEF NamesOf
<1>4. Defined(u)'
  <2>1. ASSUME NEW d \in new_value[u] \ todo[u], d # now[u], d.name \notin touched' PROVE Fits(d)'
    BY <1>1, <1>2, <2>1, KeepFits DEF Progress, Defined
  <2> QED BY <1>1, <2>1 DEF Progress, Defined
<1>5. AtHand(u)'
  <2> SUFFICES ASSUME pc[u] \in Applying \cup {"off"}, now[u].name \notin touched' PROVE AtHand(u)'
    BY <1>1 DEF AtHand
  <2>1. now[u].name \in DOMAIN loggers
    BY DEF PlaceInv, PlaceOf
  <2>2. loggers'[now[u].name] = loggers[now[u].name]
    BY <1>2, <2>1 DEF LoggersStep
  <2>3. now[u].name \notin touched
    BY <1>1
  <2> QED BY <1>1, <2>2, <2>3 DEF Progress, AtHand, Level, Formatter, Added, Matches
<1>6. Removed(u)'
  <2>1. ASSUME NEW d \in m_val \ gone[u], d # now[u], d.name \notin NamesOf(new_value[u]) \cup touched'
        PROVE  Silent(d.name)'
    BY <1>1, <1>2, <2>1, KeepSilent DEF Progress, Removed
  <2> QED BY <1>1, <1>3, <2>1 DEF Progress, Removed
<1>7. Undefined(u)'
  <2>1. ASSUME NEW n \in configured \ (NamesOf(m_val) \cup NamesOf(new_value[u]) \cup touched')
        PROVE  Silent(n)'
    BY <1>1, <1>2, <2>1, KeepSilent DEF Progress, Undefined
  <2> QED BY <1>1, <1>3, <2>1 DEF Undefined
<1> QED BY <1>4, <1>5, <1>6, <1>7 DEF Progress
\* While a definition is applied, the other loggers stay as they are.
LEMMA ApplyingElsewhere ==
    ASSUME TypeOK, ValuesInv, NEW t \in Threads, LoggersStep(t), Progress(t),
           pc[t] \in Applying, pc'[t] \in Applying, now'[t] = now[t],
           todo'[t] = todo[t], gone'[t] = gone[t], UNCHANGED configVars, touched' = touched
    PROVE  Defined(t)' /\ Removed(t)' /\ Undefined(t)'
<1>1. m_val' = m_val /\ configured' = configured /\ new_value' = new_value
  BY DEF configVars
<1>2. NamesOf(m_val)' = NamesOf(m_val) /\ NamesOf(new_value[t])' = NamesOf(new_value[t])
  BY <1>1 DEF NamesOf
<1>3. now[t] \in new_value[t] /\ now[t].name \in NamesOf(new_value[t])
  BY DEF Progress, Defined, NamesOf
<1>4. ASSUME NEW m, m \notin touched, m # now[t].name PROVE ~AtWork(t, m)
  BY <1>4 DEF AtWork, Applying
<1>5. Defined(t)'
  <2>1. ASSUME NEW d \in new_value[t] \ todo[t], d # now[t], d.name \notin touched PROVE Fits(d)'
    <3>1. d.name # now[t].name
      BY <1>3, <2>1 DEF ValuesInv, OneEach
    <3> QED BY <1>4, <2>1, <3>1, KeepFits DEF Progress, Defined
  <2>2. pc'[t] \notin {"gone", "off", "unlock", "wrlock"}
    BY DEF Applying
  <2> QED BY <1>1, <2>1, <2>2 DEF Progress, Defined
<1>6. Removed(t)'
  <2>1. ASSUME NEW d \in m_val \ gone[t], d # now[t], d.name \notin NamesOf(new_value[t]) \cup touched
        PROVE  Silent(d.name)'
    BY <1>3, <1>4, <2>1, KeepSilent DEF Progress, Removed
  <2>2. pc'[t] \notin {"off", "unlock", "wrlock"}
    BY DEF Applying
  <2> QED BY <1>1, <1>2, <2>1, <2>2 DEF Progress, Removed
<1>7. Undefined(t)'
  <2>1. ASSUME NEW n \in configured \ (NamesOf(m_val) \cup NamesOf(new_value[t]) \cup touched)
        PROVE  Silent(n)'
    BY <1>3, <1>4, <2>1, KeepSilent DEF Progress, Undefined
  <2> QED BY <1>1, <1>2, <2>1 DEF Undefined
<1> QED BY <1>5, <1>6, <1>7

\* The four steps of a definition.
LEMMA ApplyingProgress ==
    ASSUME TypeOK, PlaceInv, ValuesInv, NEW t \in Threads, LoggersStep(t), Progress(t),
           SetLevel(t) \/ SetFormatter(t) \/ ClearForDefine(t) \/ AddForDefine(t)
    PROVE  Progress(t)'
<1> DEFINE d == now[t]
           n == now[t].name
<1>a. /\ pc \in [Threads -> SetValuePC \cup {"idle", "log", "loglock", "write", "logged"}]
      /\ loggers \in [DOMAIN loggers -> Logger]
      /\ adding \in [Threads -> Seq(LogAppenderDefine)]
  BY DEF TypeOK
<1>b. pc[t] \in Applying /\ pc'[t] \in Applying
  BY <1>a DEF SetLevel, SetFormatter, ClearForDefine, AddForDefine, Goto, Applying
<1>c. d \in LogDefine /\ n \in DOMAIN loggers
  BY <1>b DEF PlaceInv, PlaceOf
<1>d. /\ now' = now /\ todo' = todo /\ gone' = gone /\ UNCHANGED configVars /\ touched' = touched
  BY DEF SetLevel, SetFormatter, ClearForDefine, AddForDefine, listenerVars
<1>e. Defined(t)' /\ Removed(t)' /\ Undefined(t)'
  BY <1>b, <1>d, ApplyingElsewhere
<1>f. d.formatter \in Seq(Alphabet) /\ d.appenders \in Seq(LogAppenderDefine) /\ d.level \in Levels
  BY <1>c DEF LogDefine
<1>g. loggers[n] \in Logger /\ loggers[n].m_appenders \in Seq(Appender)
  BY <1>a, <1>c DEF Logger
<1> SUFFICES ASSUME n \notin touched PROVE AtHand(t)'
  BY <1>d, <1>e DEF Progress, AtHand
<1> HIDE DEF n, d
<1>h. /\ pc[t] \in {"formatter", "clear", "add"} => loggers[n].m_level = d.level
      /\ pc[t] \in {"clear", "add"} => Formatter(d)
  BY <1>b DEF Progress, AtHand, Level, n, d
<1>i. now'[t] = d /\ now'[t].name = n /\ d.name = n
  BY <1>d DEF n, d
<1>1. CASE SetLevel(t)
  <2>1. pc'[t] = "formatter" /\ loggers' = [loggers EXCEPT ![n].m_level = d.level]
    BY <1>1, <1>a DEF SetLevel, Goto, n, d
  <2>2. Becomes(loggers, loggers', n, d.level, loggers[n].m_formatter, loggers[n].m_appenders)
    BY <1>a, <1>c, <1>f, <2>1, LevelChange DEF n
  <2>3. loggers'[n].m_level = d.level
    BY <2>2 DEF Becomes
  <2> QED BY <1>i, <2>1, <2>3 DEF AtHand, Level
<1>2. CASE SetFormatter(t)
  <2>1. pc[t] = "formatter" /\ pc'[t] = "clear"
    BY <1>2, <1>a DEF SetFormatter, Goto
  <2>2. CASE loggers' = loggers /\ ~(d.formatter # <<>> /\ FormatterError(d.formatter) = "no")
    BY <1>h, <1>i, <2>1, <2>2 DEF AtHand, Level, Formatter
  <2>3. CASE d.formatter # <<>> /\ loggers' = [loggers EXCEPT ![n].m_formatter = d.formatter]
    <3>1. Becomes(loggers, loggers', n, loggers[n].m_level, d.formatter, loggers[n].m_appenders)
      BY <1>a, <1>c, <1>f, <2>3, TextChange DEF n
    <3>2. loggers'[n].m_level = loggers[n].m_level /\ loggers'[n].m_formatter = d.formatter
      BY <3>1 DEF Becomes
    <3> QED BY <1>h, <1>i, <2>1, <3>2 DEF AtHand, Level, Formatter
  <2>4. \/ loggers' = loggers /\ ~(d.formatter # <<>> /\ FormatterError(d.formatter) = "no")
        \/ d.formatter # <<>> /\ loggers' = [loggers EXCEPT ![n].m_formatter = d.formatter]
    BY <1>2 DEF SetFormatter, SetFormatterText, n, d
  <2> QED BY <2>2, <2>3, <2>4
<1>3. CASE ClearForDefine(t)
  <2>1. /\ pc[t] = "clear" /\ pc'[t] = "add" /\ adding'[t] = d.appenders
        /\ loggers' = [loggers EXCEPT ![n].m_appenders = <<>>]
    BY <1>3, <1>a DEF ClearForDefine, Goto, n, d
  <2>2. Becomes(loggers, loggers', n, loggers[n].m_level, loggers[n].m_formatter, <<>>)
    <3>1. <<>> \in Seq(Appender)
      OBVIOUS
    <3> QED BY <1>a, <1>c, <2>1, <3>1, AppendersChange DEF n
  <2>3. /\ loggers'[n].m_level = loggers[n].m_level /\ loggers'[n].m_formatter = loggers[n].m_formatter
        /\ loggers'[n].m_appenders = <<>>
    BY <2>2 DEF Becomes
  <2>4. Level(now[t])' /\ Formatter(now[t])'
    BY <1>h, <1>i, <2>1, <2>3 DEF Level, Formatter
  <2>5. Len(d.appenders) \in Nat /\ Len(d.appenders) - Len(d.appenders) = 0 /\ Len(<<>>) = 0
    BY <1>f
  <2>6. /\ Len(adding'[t]) <= Len(now'[t].appenders)
        /\ Len(now'[t].appenders) - Len(adding'[t]) = 0
        /\ \A k \in 1 .. Len(adding'[t]) :
              adding'[t][k] = now'[t].appenders[Len(now'[t].appenders) - Len(adding'[t]) + k]
    BY <1>i, <2>1, <2>5
  <2>7. Added(now[t], 0)'
    BY <1>i, <2>3, <2>5 DEF Added
  <2> QED BY <2>1, <2>4, <2>6, <2>7 DEF AtHand
<1>4. CASE AddForDefine(t)
  <2> DEFINE rest == adding[t]
             all == d.appenders
             done == Len(d.appenders) - Len(adding[t])
             list == loggers[n].m_appenders
             f == loggers[n].m_formatter
  <2>1. /\ pc[t] = "add" /\ pc'[t] = "add" /\ rest # <<>> /\ adding'[t] = Tail(rest)
        /\ loggers' = AddAppender(n, NewAppender(Head(rest).type, Head(rest).file, UNKNOW))
    BY <1>4, <1>a DEF AddForDefine, n
  <2>2. rest \in Seq(LogAppenderDefine) /\ all \in Seq(LogAppenderDefine) /\ list \in Seq(Appender)
    BY <1>a, <1>f, <1>g
  <2>3. /\ Len(rest) <= Len(all) /\ done = Len(list)
        /\ \A k \in 1 .. done : /\ list[k].type = all[k].type /\ list[k].m_filename = all[k].file
                                /\ list[k].m_formatter = f
        /\ \A k \in 1 .. Len(rest) : rest[k] = all[done + k]
    BY <1>b, <2>1 DEF Progress, AtHand, Added, Matches, n, d
  <2>a. Head(rest) \in LogAppenderDefine /\ Head(rest) = rest[1] /\ Len(rest) >= 1
    BY <2>1, <2>2
  <2>4. Head(rest).type \in AppenderTypes /\ Head(rest).file \in FileName /\ UNKNOW \in Levels
    BY <2>a DEF LogAppenderDefine, Levels, UNKNOW
  <2>5. PICK a \in Appender :
           /\ a.type = Head(rest).type /\ a.m_filename = Head(rest).file /\ a.m_formatter = f
           /\ Becomes(loggers, loggers', n, loggers[n].m_level, f, Append(list, a))
    <3> DEFINE h == Head(rest)
    <3>1. /\ h.type \in AppenderTypes /\ h.file \in FileName /\ UNKNOW \in Levels
          /\ n \in DOMAIN loggers
          /\ loggers' = AddAppender(n, NewAppender(h.type, h.file, UNKNOW))
      BY <1>c, <2>1, <2>4
    <3> HIDE DEF h, n
    <3>2. \E a \in Appender :
             /\ a.type = h.type /\ a.m_filename = h.file /\ a.m_formatter = loggers[n].m_formatter
             /\ Becomes(loggers, loggers', n, loggers[n].m_level, loggers[n].m_formatter,
                        Append(loggers[n].m_appenders, a))
      BY <3>1, AddChange
    <3> QED BY <3>2 DEF h
  <2>6. /\ loggers'[n].m_level = loggers[n].m_level /\ loggers'[n].m_formatter = f
        /\ loggers'[n].m_appenders = Append(list, a)
    BY <2>5 DEF Becomes
  <2> HIDE DEF rest, all, list, done
  <2>7. done \in Nat /\ done + 1 <= Len(all) /\ Len(rest) = Len(all) - done /\ Len(all) \in Nat
    BY <2>2, <2>3, <2>a DEF done, rest, all
  <2>8. Head(rest) = all[done + 1]
    BY <2>3, <2>a, <2>7
  <2>9. /\ Len(Tail(rest)) = Len(rest) - 1
        /\ \A k \in 1 .. Len(Tail(rest)) : Tail(rest)[k] = rest[k + 1]
    BY <2>1, <2>2
  <2>10. /\ Len(Append(list, a)) = done + 1
         /\ \A k \in 1 .. done : Append(list, a)[k] = list[k]
         /\ Append(list, a)[done + 1] = a
    BY <2>2, <2>3, <2>5
  <2>11. \A k \in 1 .. done + 1 : /\ Append(list, a)[k].type = all[k].type
                                  /\ Append(list, a)[k].m_filename = all[k].file
                                  /\ Append(list, a)[k].m_formatter = f
    BY <2>3, <2>5, <2>7, <2>8, <2>10
  <2>12. Len(all) - Len(Tail(rest)) = done + 1 /\ Len(Tail(rest)) <= Len(all)
    <3>1. ASSUME NEW i \in Nat, NEW j \in Nat, NEW k, NEW l, j = i - done, k = j - 1, l = k
          PROVE  i - l = done + 1 /\ l <= i
      BY <2>7, <3>1
    <3>2. Len(rest) \in Nat
      BY <2>2
    <3> QED BY <2>7, <2>9, <3>1, <3>2
  <2>13. ASSUME NEW k \in 1 .. Len(Tail(rest)) PROVE Tail(rest)[k] = all[done + 1 + k]
    <3>1. k + 1 \in 1 .. Len(rest) /\ done + (k + 1) = done + 1 + k
      <4>1. Len(rest) \in Nat /\ Len(Tail(rest)) = Len(rest) - 1
        BY <2>2, <2>9
      <4>2. k \in Nat /\ k >= 1 /\ k + 1 <= Len(rest)
        BY <4>1
      <4> QED BY <2>7, <4>1, <4>2
    <3> QED BY <2>3, <2>9, <3>1
  <2>14. now'[t].appenders = all
    BY <1>i DEF all
  <2>15. Added(now[t], Len(now[t].appenders) - Len(adding[t]))'
    <3>1. Len(now'[t].appenders) - Len(adding'[t]) = done + 1
      BY <2>1, <2>12, <2>14
    <3> DEFINE more == Append(list, a)
    <3>2. /\ loggers'[n].m_appenders = more /\ Len(more) = done + 1
          /\ \A k \in 1 .. done + 1 : /\ more[k].type = all[k].type /\ more[k].m_filename = all[k].file
                                       /\ more[k].m_formatter = f
      BY <2>6, <2>10, <2>11
    <3> HIDE DEF more
    <3> QED BY <1>i, <2>6, <2>7, <2>14, <3>1, <3>2 DEF Added, Matches
  <2>16. Level(now[t])' /\ Formatter(now[t])'
    BY <1>h, <1>i, <2>1, <2>6 DEF Level, Formatter
  <2>17. \A k \in 1 .. Len(adding'[t]) :
             adding'[t][k] = now'[t].appenders[Len(now'[t].appenders) - Len(adding'[t]) + k]
    BY <2>1, <2>12, <2>13, <2>14
  <2> QED BY <2>1, <2>12, <2>14, <2>15, <2>16, <2>17 DEF AtHand
<1> QED BY <1>1, <1>2, <1>3, <1>4
\* The listener starts from loggers that are what m_val says.
LEMMA ReadLockProgress ==
    ASSUME TypeOK, NEW t \in Threads, Settled, ReadLock(t), pc'[t] = "define"
    PROVE  Progress(t)'
<1>a. /\ pc \in [Threads -> SetValuePC \cup {"idle", "log", "loglock", "write", "logged"}]
      /\ todo \in [Threads -> SUBSET LogDefine] /\ gone \in [Threads -> SUBSET LogDefine]
  BY DEF TypeOK
<1>1. ~SameValue(new_value[t], m_val)
  BY <1>a DEF ReadLock, Goto
<1>2. /\ todo'[t] = new_value[t]
      /\ gone'[t] = {d \in m_val : \A e \in new_value[t] : e.name # d.name}
      /\ m_val' = m_val /\ new_value' = new_value /\ configured' = configured
      /\ loggers' = loggers /\ touched' = touched
  BY <1>1, <1>a DEF ReadLock, logVars
<1>3. NamesOf(m_val)' = NamesOf(m_val) /\ NamesOf(new_value[t])' = NamesOf(new_value[t])
  BY <1>2 DEF NamesOf
<1>4. Defined(t)'
  BY <1>2 DEF Defined, Applying
<1>5. AtHand(t)'
  BY DEF AtHand, Applying
<1>6. Removed(t)'
  <2>1. \A d \in gone'[t] : d \in m_val /\ d.name \notin NamesOf(new_value[t])
    BY <1>2 DEF NamesOf
  <2>2. \A d \in m_val \ gone'[t] : d.name \in NamesOf(new_value[t])
    BY <1>2 DEF NamesOf
  <2> QED BY <1>2, <1>3, <2>1, <2>2 DEF Removed
<1>7. Undefined(t)'
  <2>1. ASSUME NEW n \in configured \ (NamesOf(m_val) \cup touched) PROVE Silent(n)'
    BY <1>2, <2>1 DEF Settled, Silent
  <2> QED BY <1>2, <1>3, <2>1 DEF Undefined
<1> QED BY <1>4, <1>5, <1>6, <1>7 DEF Progress

\* A step from one definition to the next: nothing is at hand before or after, or
\* nothing was and d is now.
LEMMA DefineProgress ==
    ASSUME TypeOK, PlaceInv, ValuesInv, NEW t \in Threads, LoggersStep(t), Progress(t), Define(t)
    PROVE  Progress(t)'
<1>a. /\ pc \in [Threads -> SetValuePC \cup {"idle", "log", "loglock", "write", "logged"}]
      /\ todo \in [Threads -> SUBSET LogDefine] /\ now \in [Threads -> LogDefine \cup {NoDefine}]
      /\ new_value[t] \subseteq LogDefine /\ m_val \subseteq LogDefine
  BY DEF TypeOK
<1>b. pc[t] = "define" /\ now[t] = NoDefine
  BY DEF Define, PlaceInv, PlaceOf, Applying
<1>c. NoDefine \notin LogDefine
  <2>1. NoDefine.name \notin Names
    BY ConfigLogAssumption DEF NoDefine, Unnamed
  <2> QED BY <2>1 DEF LogDefine
<1>d. /\ m_val' = m_val /\ new_value' = new_value /\ configured' = configured
      /\ gone' = gone /\ adding' = adding /\ touched' = touched
  BY DEF Define, configVars
<1>e. NamesOf(m_val)' = NamesOf(m_val) /\ NamesOf(new_value[t])' = NamesOf(new_value[t])
  BY <1>d DEF NamesOf
<1>f. ASSUME NEW m, m \notin touched PROVE ~AtWork(t, m)
  BY <1>b, <1>d, <1>f DEF AtWork, Applying
<1>g. \A d \in new_value[t] \ todo[t] : d.name \notin touched => Fits(d)'
  BY <1>a, <1>b, <1>c, <1>f, KeepFits DEF Progress, Defined
<1>h. \A d \in m_val \ gone[t] : d.name \notin NamesOf(new_value[t]) \cup touched => Silent(d.name)'
  BY <1>a, <1>b, <1>c, <1>f, KeepSilent DEF Progress, Removed
<1>i. \A n \in configured \ (NamesOf(m_val) \cup NamesOf(new_value[t]) \cup touched) : Silent(n)'
  BY <1>f, KeepSilent DEF Progress, Undefined
<1>j. Undefined(t)'
  BY <1>d, <1>e, <1>i DEF Undefined
<1>1. ASSUME pc'[t] \in {"define", "level", "gone"} PROVE Removed(t)'
  BY <1>1, <1>d, <1>e, <1>h DEF Progress, Removed
<1>2. CASE pc'[t] \in {"define", "gone"} /\ todo' = todo /\ now' = now /\ (pc'[t] = "gone" => todo[t] = {})
  <2>1. Defined(t)'
    BY <1>2, <1>d, <1>g DEF Progress, Defined, Applying
  <2>2. AtHand(t)'
    BY <1>2 DEF AtHand, Applying
  <2> QED BY <1>1, <1>2, <1>j, <2>1, <2>2 DEF Progress
<1>3. ASSUME NEW d \in First(todo[t]), todo'[t] = todo[t] \ {d}, now'[t] = d, pc'[t] = "level"
      PROVE  Progress(t)'
  <2>1. d \in new_value[t]
    BY FirstIn DEF Progress, Defined
  <2>2. Defined(t)'
    BY <1>3, <1>d, <1>g, <2>1 DEF Progress, Defined, Applying
  <2>3. AtHand(t)'
    BY <1>3 DEF AtHand
  <2> QED BY <1>1, <1>3, <1>j, <2>2, <2>3 DEF Progress
<1> QED
  <2>1. \/ pc'[t] \in {"define", "gone"} /\ todo' = todo /\ now' = now /\ (pc'[t] = "gone" => todo[t] = {})
        \/ \E d \in First(todo[t]) : todo'[t] = todo[t] \ {d} /\ now'[t] = d /\ pc'[t] = "level"
    BY <1>a, <1>b DEF Define, Goto
  <2> QED BY <1>2, <1>3, <2>1

\* A definition whose last appender is added is applied.
LEMMA EndDefineProgress ==
    ASSUME TypeOK, PlaceInv, NEW t \in Threads, Progress(t), EndDefine(t)
    PROVE  Progress(t)'
<1>a. /\ pc \in [Threads -> SetValuePC \cup {"idle", "log", "loglock", "write", "logged"}]
      /\ now \in [Threads -> LogDefine \cup {NoDefine}]
  BY DEF TypeOK
<1>b. /\ pc[t] = "add" /\ adding[t] = <<>> /\ pc'[t] = "define" /\ now'[t] = NoDefine
  BY <1>a DEF EndDefine, Goto
<1>c. /\ m_val' = m_val /\ new_value' = new_value /\ configured' = configured
      /\ gone' = gone /\ todo' = todo /\ loggers' = loggers /\ touched' = touched
  BY DEF EndDefine, configVars, logVars
<1>d. NamesOf(m_val)' = NamesOf(m_val) /\ NamesOf(new_value[t])' = NamesOf(new_value[t])
  BY <1>c DEF NamesOf
<1>e. ASSUME NEW d, Fits(d) PROVE Fits(d)'
  BY <1>c, <1>e DEF Fits, Level, Formatter, Added, Matches
<1>f. ASSUME NEW n, Silent(n) PROVE Silent(n)'
  BY <1>c, <1>f DEF Silent
<1>g. now[t] \in LogDefine /\ now[t].name \in DOMAIN loggers
  BY <1>b DEF PlaceInv, PlaceOf, Applying
<1>h. now[t].name \notin touched => Fits(now[t])
  <2> SUFFICES ASSUME now[t].name \notin touched PROVE Fits(now[t])
    OBVIOUS
  <2>1. Len(now[t].appenders) \in Nat
    BY <1>g DEF LogDefine
  <2>2. Len(now[t].appenders) - Len(adding[t]) = Len(now[t].appenders)
    BY <1>b, <2>1
  <2>3. Level(now[t]) /\ Formatter(now[t]) /\ Added(now[t], Len(now[t].appenders) - Len(adding[t]))
    BY <1>b DEF Progress, AtHand, Applying
  <2> QED BY <1>g, <2>2, <2>3 DEF Fits
<1>1. Defined(t)'
  <2>1. \A d \in new_value[t] \ todo[t] : d.name \notin touched => Fits(d)'
    BY <1>e, <1>h DEF Progress, Defined
  <2> QED BY <1>b, <1>c, <2>1 DEF Progress, Defined, Applying
<1>2. Removed(t)'
  <2>1. now[t].name \in NamesOf(new_value[t])
    BY <1>b DEF Progress, Defined, NamesOf, Applying
  <2>2. \A d \in m_val \ gone[t] : d.name \notin NamesOf(new_value[t]) \cup touched => Silent(d.name)'
    BY <1>f, <2>1 DEF Progress, Removed
  <2> QED BY <1>b, <1>c, <1>d, <2>2 DEF Progress, Removed
<1>3. Undefined(t)'
  BY <1>c, <1>d, <1>f DEF Progress, Undefined
<1>4. AtHand(t)'
  BY <1>b DEF AtHand, Applying
<1> QED BY <1>1, <1>2, <1>3, <1>4 DEF Progress
\* A logger that is not defined any more is switched off.
LEMMA GoneProgress ==
    ASSUME TypeOK, PlaceInv, ValuesInv, NEW t \in Threads, LoggersStep(t), Progress(t), Gone(t)
    PROVE  Progress(t)'
<1>a. /\ pc \in [Threads -> SetValuePC \cup {"idle", "log", "loglock", "write", "logged"}]
      /\ gone \in [Threads -> SUBSET LogDefine] /\ now \in [Threads -> LogDefine \cup {NoDefine}]
      /\ new_value[t] \subseteq LogDefine /\ m_val \subseteq LogDefine
  BY DEF TypeOK
<1>b. pc[t] = "gone" /\ now[t] = NoDefine
  BY DEF Gone, PlaceInv, PlaceOf, Applying
<1>c. NoDefine \notin LogDefine
  <2>1. NoDefine.name \notin Names
    BY ConfigLogAssumption DEF NoDefine, Unnamed
  <2> QED BY <2>1 DEF LogDefine
<1>d. /\ m_val' = m_val /\ new_value' = new_value /\ configured' = configured
      /\ todo' = todo /\ touched' = touched
  BY DEF Gone, configVars
<1>e. NamesOf(m_val)' = NamesOf(m_val) /\ NamesOf(new_value[t])' = NamesOf(new_value[t])
  BY <1>d DEF NamesOf
<1>f. /\ \A d \in new_value[t] \ todo[t] : d.name \notin touched => Fits(d)
      /\ \A d \in m_val \ gone[t] : d.name \notin NamesOf(new_value[t]) \cup touched => Silent(d.name)
  BY <1>a, <1>b, <1>c DEF Progress, Defined, Removed
<1>1. CASE pc'[t] = "unlock" /\ gone[t] = {} /\ gone' = gone /\ now' = now /\ loggers' = loggers
  <2>1. Defined(t)'
    BY <1>1, <1>b, <1>d, <1>f DEF Progress, Defined, Applying, Fits, Level, Formatter, Added, Matches
  <2>2. AtHand(t)'
    BY <1>1 DEF AtHand, Applying
  <2>3. Removed(t)'
    BY <1>1, <1>d, <1>e, <1>f DEF Progress, Removed, Silent
  <2>4. Undefined(t)'
    BY <1>1, <1>d, <1>e DEF Progress, Undefined, Silent
  <2> QED BY <2>1, <2>2, <2>3, <2>4 DEF Progress
<1>2. ASSUME NEW d \in First(gone[t]), gone'[t] = gone[t] \ {d}, now'[t] = d, pc'[t] = "off",
             loggers' = [GetLogger(d.name) EXCEPT ![d.name].m_level = OFF]
      PROVE  Progress(t)'
  <2>1. d \in m_val /\ d.name \notin NamesOf(new_value[t]) /\ d.name \in NamesOf(m_val)
    BY FirstIn DEF Progress, Removed, NamesOf
  <2>2. ASSUME NEW m, m \notin touched, m # d.name PROVE ~AtWork(t, m)
    BY <1>2, <1>b, <1>d, <2>2 DEF AtWork, Applying
  <2>3. Defined(t)'
    <3>1. ASSUME NEW e \in new_value[t] \ todo[t], e.name \notin touched PROVE Fits(e)'
      <4>1. e.name # d.name
        BY <2>1 DEF NamesOf
      <4> QED BY <1>f, <2>2, <3>1, <4>1, KeepFits
    <3> QED BY <1>2, <1>b, <1>d, <3>1 DEF Progress, Defined, Applying
  <2>4. AtHand(t)'
    <3>1. loggers'[d.name].m_level = OFF
      <4> DEFINE L == GetLogger(d.name)
      <4>1. d.name \in Names
        BY <1>a, <2>1 DEF LogDefine
      <4>2. DOMAIN L = DOMAIN loggers \cup {d.name} /\ L \in [DOMAIN L -> Logger]
        BY <4>1, GetLoggerChange DEF Loggers
      <4>3. loggers' = [L EXCEPT ![d.name].m_level = OFF]
        BY <1>2
      <4> HIDE DEF L
      <4>4. Becomes(L, loggers', d.name, OFF, L[d.name].m_formatter, L[d.name].m_appenders)
        BY <4>2, <4>3, LevelChange
      <4> QED BY <4>4 DEF Becomes
    <3> QED BY <1>2, <3>1 DEF AtHand
  <2>5. Removed(t)'
    <3>1. ASSUME NEW e \in m_val \ gone'[t], e # d, e.name \notin NamesOf(new_value[t]) \cup touched
          PROVE  Silent(e.name)'
      <4>1. e.name # d.name
        BY <2>1, <3>1 DEF ValuesInv, OneEach
      <4>2. Silent(e.name)
        BY <1>2, <1>f, <3>1
      <4> QED BY <2>2, <3>1, <4>1, <4>2, KeepSilent
    <3> QED BY <1>2, <1>d, <1>e, <2>1, <3>1 DEF Progress, Removed
  <2>6. Undefined(t)'
    <3>1. ASSUME NEW n \in configured \ (NamesOf(m_val) \cup NamesOf(new_value[t]) \cup touched)
          PROVE  Silent(n)'
      BY <2>1, <2>2, <3>1, KeepSilent DEF Progress, Undefined
    <3> QED BY <1>d, <1>e, <3>1 DEF Undefined
  <2> QED BY <2>3, <2>4, <2>5, <2>6 DEF Progress
<1> QED
  <2>1. \/ pc'[t] = "unlock" /\ gone[t] = {} /\ gone' = gone /\ now' = now /\ loggers' = loggers
        \/ \E d \in First(gone[t]) :
              /\ gone'[t] = gone[t] \ {d} /\ now'[t] = d /\ pc'[t] = "off"
              /\ loggers' = [GetLogger(d.name) EXCEPT ![d.name].m_level = OFF]
    BY <1>a, <1>b DEF Gone, Goto
  <2> QED BY <1>1, <1>2, <2>1

\* And loses its appenders.
LEMMA ClearGoneProgress ==
    ASSUME TypeOK, PlaceInv, ValuesInv, NEW t \in Threads, LoggersStep(t), Progress(t), ClearGone(t)
    PROVE  Progress(t)'
<1> DEFINE n == now[t].name
<1>a. /\ pc \in [Threads -> SetValuePC \cup {"idle", "log", "loglock", "write", "logged"}]
      /\ now \in [Threads -> LogDefine \cup {NoDefine}] /\ loggers \in [DOMAIN loggers -> Logger]
  BY DEF TypeOK
<1>b. /\ pc[t] = "off" /\ pc'[t] = "gone" /\ now'[t] = NoDefine
      /\ loggers' = [loggers EXCEPT ![n].m_appenders = <<>>]
  BY <1>a DEF ClearGone, Goto
<1>c. /\ m_val' = m_val /\ new_value' = new_value /\ configured' = configured
      /\ gone' = gone /\ todo' = todo /\ touched' = touched
  BY DEF ClearGone, configVars
<1>d. NamesOf(m_val)' = NamesOf(m_val) /\ NamesOf(new_value[t])' = NamesOf(new_value[t])
  BY <1>c DEF NamesOf
<1>e. /\ now[t] \in m_val /\ n \in NamesOf(m_val) /\ n \notin NamesOf(new_value[t])
      /\ n \in DOMAIN loggers
  BY <1>b DEF Progress, Removed, NamesOf, PlaceInv, PlaceOf
<1>f. ASSUME NEW m, m \notin touched, m # n PROVE ~AtWork(t, m)
  BY <1>b, <1>c, <1>f DEF AtWork, Applying
<1>1. Defined(t)'
  <2>1. ASSUME NEW e \in new_value[t] \ todo[t], e.name \notin touched PROVE Fits(e)'
    <3>1. e.name # n
      BY <1>e DEF NamesOf
    <3>2. e # now[t]
      BY <3>1
    <3> QED BY <1>f, <2>1, <3>1, <3>2, KeepFits DEF Progress, Defined
  <2> QED BY <1>b, <1>c, <2>1 DEF Progress, Defined, Applying
<1>2. AtHand(t)'
  BY <1>b DEF AtHand, Applying
<1>3. Removed(t)'
  <2>1. ASSUME NEW m, m = n, m \notin touched PROVE Silent(m)'
    <3> HIDE DEF n
    <3>1. <<>> \in Seq(Appender)
      OBVIOUS
    <3>2. Becomes(loggers, loggers', n, loggers[n].m_level, loggers[n].m_formatter, <<>>)
      BY <1>a, <1>b, <1>e, <3>1, AppendersChange
    <3>3. loggers[n].m_level = OFF
      BY <1>b, <2>1 DEF Progress, AtHand, n
    <3> QED BY <1>e, <2>1, <3>2, <3>3 DEF Becomes, Silent
  <2>2. ASSUME NEW e \in m_val \ gone[t], e.name \notin NamesOf(new_value[t]) \cup touched
        PROVE  Silent(e.name)'
    <3>1. CASE e = now[t]
      BY <2>1, <2>2, <3>1
    <3>2. CASE e # now[t]
      <4>1. e.name # n
        BY <1>e, <3>2 DEF ValuesInv, OneEach
      <4> QED BY <1>f, <2>2, <3>2, <4>1, KeepSilent DEF Progress, Removed
    <3> QED BY <3>1, <3>2
  <2> QED BY <1>b, <1>c, <1>d, <2>2 DEF Progress, Removed
<1>4. Undefined(t)'
  <2>1. ASSUME NEW m \in configured \ (NamesOf(m_val) \cup NamesOf(new_value[t]) \cup touched)
        PROVE  Silent(m)'
    BY <1>e, <1>f, <2>1, KeepSilent DEF Progress, Undefined
  <2> QED BY <1>c, <1>d, <2>1 DEF Undefined
<1> QED BY <1>1, <1>2, <1>3, <1>4 DEF Progress

LEMMA ReadUnlockProgress ==
    ASSUME TypeOK, NEW t \in Threads, Progress(t), ReadUnlock(t)
    PROVE  Progress(t)'
<1>a. pc \in [Threads -> SetValuePC \cup {"idle", "log", "loglock", "write", "logged"}]
  BY DEF TypeOK
<1>1. pc[t] = "unlock" /\ pc'[t] = "wrlock"
  BY <1>a DEF ReadUnlock, Goto
<1>2. /\ m_val' = m_val /\ new_value' = new_value /\ configured' = configured
      /\ gone' = gone /\ todo' = todo /\ now' = now /\ loggers' = loggers /\ touched' = touched
  BY DEF ReadUnlock, listenerVars, logVars
<1>3. Defined(t)'
  BY <1>1, <1>2 DEF Progress, Defined, Applying, Fits, Level, Formatter, Added, Matches
<1>4. AtHand(t)'
  BY <1>1 DEF AtHand, Applying
<1>5. Removed(t)' /\ Undefined(t)'
  BY <1>1, <1>2 DEF Progress, Removed, Undefined, Silent, NamesOf
<1> QED BY <1>3, <1>4, <1>5 DEF Progress

\* When the value is assigned, the loggers are what it says.
LEMMA AssignSettled ==
    ASSUME TypeOK, PlaceInv, NEW t \in Threads, Progress(t), Assign(t)
    PROVE  Settled'
<1>a. now[t] = NoDefine /\ new_value[t] \subseteq LogDefine /\ m_val \subseteq LogDefine
  BY DEF Assign, PlaceInv, PlaceOf, Applying, TypeOK
<1>b. NoDefine \notin LogDefine
  <2>1. NoDefine.name \notin Names
    BY ConfigLogAssumption DEF NoDefine, Unnamed
  <2> QED BY <2>1 DEF LogDefine
<1>c. todo[t] = {} /\ gone[t] = {}
  BY DEF Assign, Progress, Defined, Removed
<1>1. /\ m_val' = new_value[t] /\ configured' = configured \cup NamesOf(new_value[t])
      /\ loggers' = loggers /\ touched' = touched
  BY DEF Assign, NamesOf, logVars
<1>2. ASSUME NEW d \in new_value[t], d.name \notin touched PROVE Fits(d)'
  <2>1. Fits(d)
    BY <1>2, <1>a, <1>b, <1>c DEF Progress, Defined
  <2> QED BY <1>1, <2>1 DEF Fits, Level, Formatter, Added, Matches
<1>3. ASSUME NEW n \in configured \ (NamesOf(new_value[t]) \cup touched) PROVE Silent(n)'
  <2>1. Silent(n)
    <3>1. CASE n \in NamesOf(m_val)
      <4>1. PICK d \in m_val : d.name = n
        BY <3>1 DEF NamesOf
      <4>2. d \in m_val \ gone[t] /\ d # now[t]
        BY <1>a, <1>b, <1>c, <4>1
      <4> QED BY <4>1, <4>2 DEF Progress, Removed
    <3>2. CASE n \notin NamesOf(m_val)
      BY <3>2 DEF Progress, Undefined
    <3> QED BY <3>1, <3>2
  <2> QED BY <1>1, <2>1 DEF Silent
<1>4. NamesOf(m_val)' = NamesOf(new_value[t])
  BY <1>1 DEF NamesOf
<1> QED BY <1>1, <1>2, <1>3, <1>4 DEF Settled
\* Steps of threads that are not in setValue.
LEMMA AsideConfig ==
    ASSUME TypeOK, PlaceInv, ConfigInv, ~overlap, NEW t \in Threads, Step(t) \/ Begin(t),
           Aside, pc[t] \notin SetValuePC, pc'[t] \notin SetValuePC, ValuesInv'
    PROVE  ConfigInv'
<1>1. LoggersStep(t)
  BY StepLoggers
<1>2. overlap' = overlap
  BY DEF Aside, configVars
<1>3. \A u \in Threads : u # t => pc'[u] = pc[u]
  BY OtherThreads
<1>4. Setting' = Setting /\ \A u \in Setting : u \in Threads /\ pc'[u] = pc[u]
  BY <1>3 DEF Setting
<1>5. \A u, v \in Setting' : u = v
  BY <1>2, <1>4 DEF ConfigInv
<1>6. (\A u \in Setting' : pc'[u] = "rdlock") => Settled'
  <2> SUFFICES ASSUME \A u \in Setting' : pc'[u] = "rdlock" PROVE Settled'
    OBVIOUS
  <2>1. Settled
    BY <1>4 DEF ConfigInv
  <2> QED BY <1>1, <2>1, AsideSettled
<1>7. ASSUME NEW u \in Setting', pc'[u] # "rdlock" PROVE Progress(u)'
  <2>1. Progress(u) /\ u \in Threads /\ pc'[u] = pc[u]
    BY <1>4, <1>7 DEF ConfigInv
  <2> QED BY <1>1, <2>1, AsideProgress
<1> QED BY <1>5, <1>6, <1>7 DEF ConfigInv

\* A setValue begins while there is no other.
LEMMA LoadConfig ==
    ASSUME TypeOK, ConfigInv, ~overlap', NEW t \in Threads, NEW doc \in Documents,
           LoadFromYaml(t, doc), pc'[t] \in SetValuePC, ValuesInv'
    PROVE  ConfigInv'
<1>a. pc \in [Threads -> SetValuePC \cup {"idle", "log", "loglock", "write", "logged"}]
  BY DEF TypeOK
<1>1. ~overlap /\ Setting = {} /\ pc' = [pc EXCEPT ![t] = "rdlock"]
  BY <1>a DEF LoadFromYaml, Call, Goto, SetValuePC
<1>2. Setting' = {t} /\ pc'[t] = "rdlock"
  BY <1>1, <1>a DEF Setting
<1>3. Settled
  BY <1>1 DEF ConfigInv
<1>4. Settled'
  BY <1>3 DEF LoadFromYaml, Settled, Silent, Fits, Level, Formatter, Added, Matches, NamesOf, logVars
<1> QED BY <1>2, <1>4 DEF ConfigInv

\* Steps of the one thread in setValue.
LEMMA SettingConfig ==
    ASSUME TypeOK, PlaceInv, ConfigInv, ~overlap, NEW t \in Threads, Step(t),
           pc[t] \in SetValuePC, ValuesInv'
    PROVE  ConfigInv'
<1>a. pc \in [Threads -> SetValuePC \cup {"idle", "log", "loglock", "write", "logged"}]
  BY DEF TypeOK
<1>b. LoggersStep(t) /\ ValuesInv
  BY StepLoggers DEF ConfigInv
<1>c. \A u \in Threads : u # t => pc'[u] = pc[u]
  BY OtherThreads
<1>d. Setting = {t} /\ Setting' \subseteq {t} /\ (pc'[t] \notin SetValuePC => Setting' = {})
  BY <1>c DEF Setting, ConfigInv
<1>e. ASSUME Progress(t)', pc'[t] \in SetValuePC, pc'[t] # "rdlock" PROVE ConfigInv'
  <2>1. Setting' = {t}
    BY <1>d, <1>e DEF Setting
  <2> QED BY <1>e, <2>1 DEF ConfigInv
<1>f. ASSUME Settled', pc'[t] = "idle" PROVE ConfigInv'
  <2>1. Setting' = {}
    BY <1>d, <1>f DEF SetValuePC
  <2> QED BY <1>f, <2>1 DEF ConfigInv
<1>g. pc[t] # "rdlock" => Progress(t)
  BY <1>d DEF ConfigInv
<1> USE DEF Goto
<1>1. CASE ReadLock(t)
  <2>1. Settled
    BY <1>1, <1>d DEF ReadLock, ConfigInv
  <2>2. CASE SameValue(new_value[t], m_val)
    <3>1. pc'[t] = "idle"
      BY <1>1, <1>a, <2>2 DEF ReadLock
    <3>2. Settled'
      BY <1>1, <2>1 DEF ReadLock, Settled, Silent, Fits, Level, Formatter, Added, Matches, NamesOf,
                        logVars
    <3> QED BY <1>f, <3>1, <3>2
  <2>3. CASE ~SameValue(new_value[t], m_val)
    <3>1. pc'[t] = "define"
      BY <1>1, <1>a, <2>3 DEF ReadLock
    <3> QED BY <1>1, <1>e, <2>1, <3>1, ReadLockProgress DEF SetValuePC
  <2> QED BY <2>2, <2>3
<1>2. CASE Define(t)
  <2>1. pc[t] = "define" /\ pc'[t] \in {"define", "gone", "level"}
    BY <1>2, <1>a DEF Define
  <2> QED BY <1>2, <1>b, <1>e, <1>g, <2>1, DefineProgress DEF SetValuePC
<1>3. CASE SetLevel(t) \/ SetFormatter(t) \/ ClearForDefine(t) \/ AddForDefine(t)
  <2>1. pc[t] \in Applying /\ pc'[t] \in Applying
    BY <1>3, <1>a DEF SetLevel, SetFormatter, ClearForDefine, AddForDefine, Applying
  <2>2. Progress(t)'
    BY <1>3, <1>b, <1>g, <2>1, ApplyingProgress DEF Applying
  <2> QED BY <1>e, <2>1, <2>2 DEF SetValuePC, Applying
<1>4. CASE EndDefine(t)
  <2>1. pc[t] = "add" /\ pc'[t] = "define"
    BY <1>4, <1>a DEF EndDefine
  <2> QED BY <1>4, <1>e, <1>g, <2>1, EndDefineProgress DEF SetValuePC
<1>5. CASE Gone(t)
  <2>1. pc[t] = "gone" /\ pc'[t] \in {"off", "unlock"}
    BY <1>5, <1>a DEF Gone
  <2> QED BY <1>5, <1>b, <1>e, <1>g, <2>1, GoneProgress DEF SetValuePC
<1>6. CASE ClearGone(t)
  <2>1. pc[t] = "off" /\ pc'[t] = "gone"
    BY <1>6, <1>a DEF ClearGone
  <2> QED BY <1>6, <1>b, <1>e, <1>g, <2>1, ClearGoneProgress DEF SetValuePC
<1>7. CASE ReadUnlock(t)
  <2>1. pc[t] = "unlock" /\ pc'[t] = "wrlock"
    BY <1>7, <1>a DEF ReadUnlock
  <2> QED BY <1>7, <1>e, <1>g, <2>1, ReadUnlockProgress DEF SetValuePC
<1>8. CASE Assign(t)
  <2>1. pc[t] = "wrlock" /\ pc'[t] = "idle"
    BY <1>8, <1>a DEF Assign
  <2> QED BY <1>8, <1>f, <1>g, <2>1, AssignSettled
<1>9. CASE LogLevelTest(t) \/ LogLock(t) \/ LogWrite(t) \/ LogReturn(t)
  BY <1>9 DEF LogLevelTest, LogLock, LogWrite, LogReturn, SetValuePC
<1> QED BY <1>1, <1>2, <1>3, <1>4, <1>5, <1>6, <1>7, <1>8, <1>9 DEF Step

LEMMA ConfigStep ==
    ASSUME TypeOK, PlaceInv, ConfigInv, NEW t \in Threads, Step(t) \/ Begin(t)
    PROVE  ConfigInv'
<1>a. pc \in [Threads -> SetValuePC \cup {"idle", "log", "loglock", "write", "logged"}]
  BY DEF TypeOK
<1>b. ValuesInv'
  BY ValuesStep DEF ConfigInv
<1> SUFFICES ASSUME ~overlap' PROVE ConfigInv'
  BY <1>b DEF ConfigInv
<1> USE DEF Goto, Call
<1>1. CASE Step(t) /\ pc[t] \in SetValuePC
  <2>1. ~overlap
    BY <1>1 DEF Step, ReadLock, Define, SetLevel, SetFormatter, ClearForDefine, AddForDefine, EndDefine,
                Gone, ClearGone, ReadUnlock, Assign, LogLevelTest, LogLock, LogWrite, LogReturn, configVars
  <2> QED BY <1>1, <1>b, <2>1, SettingConfig
<1>2. ASSUME Aside, pc[t] \notin SetValuePC, pc'[t] \notin SetValuePC PROVE ConfigInv'
  <2>1. ~overlap
    BY <1>2 DEF Aside, configVars
  <2> QED BY <1>2, <1>b, <2>1, AsideConfig
<1>3. CASE LogLevelTest(t) \/ LogLock(t) \/ LogWrite(t) \/ LogReturn(t)
  <2>1. Aside
    BY <1>3 DEF LogLevelTest, LogLock, LogWrite, LogReturn, Aside
  <2>2. pc[t] \notin SetValuePC /\ pc'[t] \notin SetValuePC
    BY <1>3, <1>a DEF LogLevelTest, LogLock, LogWrite, LogReturn, SetValuePC
  <2> QED BY <1>2, <2>1, <2>2
<1>4. ASSUME NEW n, NEW l, LogMacro(t, n, l) PROVE ConfigInv'
  <2>1. Aside
    BY <1>4 DEF LogMacro, Aside
  <2>2. pc[t] \notin SetValuePC /\ pc'[t] \notin SetValuePC
    BY <1>4, <1>a DEF LogMacro, SetValuePC
  <2> QED BY <1>2, <2>1, <2>2
<1>5. ASSUME NEW n, Touch(t, n) PROVE ConfigInv'
  <2>1. Aside
    BY <1>5 DEF Touch, Aside
  <2>2. pc[t] \notin SetValuePC /\ pc'[t] \notin SetValuePC
    BY <1>5, <1>a DEF Touch, SetValuePC
  <2> QED BY <1>2, <2>1, <2>2
<1>6. ASSUME NEW doc \in Documents, LoadFromYaml(t, doc) PROVE ConfigInv'
  <2>1. CASE CastThrows(doc)
    <3>1. Aside
      BY <1>6, <2>1 DEF LoadFromYaml, Aside, configVars
    <3>2. pc[t] \notin SetValuePC /\ pc'[t] \notin SetValuePC
      BY <1>6, <1>a, <2>1 DEF LoadFromYaml, SetValuePC
    <3> QED BY <1>2, <3>1, <3>2
  <2>2. CASE ~CastThrows(doc)
    <3>1. pc'[t] \in SetValuePC
      BY <1>6, <1>a, <2>2 DEF LoadFromYaml, SetValuePC
    <3> QED BY <1>6, <1>b, <3>1, LoadConfig
  <2> QED BY <2>1, <2>2
<1>7. CASE Step(t) /\ pc[t] \notin SetValuePC
  <2>1. LogLevelTest(t) \/ LogLock(t) \/ LogWrite(t) \/ LogReturn(t)
    BY <1>7 DEF Step, ReadLock, Define, SetLevel, SetFormatter, ClearForDefine, AddForDefine, EndDefine,
                Gone, ClearGone, ReadUnlock, Assign, SetValuePC
  <2> QED BY <1>3, <2>1
<1> QED
  BY <1>1, <1>4, <1>5, <1>6, <1>7, BeginCases DEF Change, ProgramSetAppenderLevel

-----------------------------------------------------------------------------
(* The theorems                                                               *)

LEMMA InitLog == Init => LogInv
<1> SUFFICES ASSUME Init PROVE LogInv
  OBVIOUS
<1>1. TypeOK
  BY InitType
<1>2. PlaceInv
  BY DEF Init, PlaceInv, PlaceOf, Applying, Logging
<1>3. RootInv
  BY DEF Init, RootInv
<1>4. MessageInv
  BY DEF Init, MessageInv, MessageOf, NoMsg
<1>5. ConfigInv
  <2>1. Setting = {}
    BY DEF Init, Setting, SetValuePC
  <2>2. ValuesInv
    BY DEF Init, ValuesInv, OneEach, NamesOf
  <2>3. Settled
    BY DEF Init, Settled
  <2> QED BY <2>1, <2>2, <2>3 DEF ConfigInv
<1> QED BY <1>1, <1>2, <1>3, <1>4, <1>5 DEF LogInv

\* The invariant of the loggers, the messages on their way and the configuration holds
\* in every reachable state.
THEOREM LogInvariant == Spec => []LogInv
<1>1. Init => LogInv
  BY InitLog
<1>2. LogInv /\ [Next]_vars => LogInv'
  <2> SUFFICES ASSUME LogInv, [Next]_vars PROVE LogInv'
    OBVIOUS
  <2>1. TypeOK /\ PlaceInv /\ RootInv /\ MessageInv /\ ConfigInv
    BY DEF LogInv
  <2>2. ASSUME NEW t \in Threads, Step(t) \/ Begin(t) PROVE LogInv'
    <3>1. TypeOK'
      BY <2>1, <2>2, StepType
    <3>2. RootInv' /\ PlaceInv'
      BY <2>1, <2>2, <3>1, RootStep, PlaceStep
    <3>3. MessageInv'
      BY <2>1, <2>2, <3>1, MessageStep
    <3>4. ConfigInv'
      BY <2>1, <2>2, ConfigStep
    <3> QED BY <3>1, <3>2, <3>3, <3>4 DEF LogInv
  <2>3. CASE UNCHANGED vars
    <3> USE <2>3 DEF vars, configVars, listenerVars, logVars
    <3>1. TypeOK'
      BY <2>1 DEF TypeOK
    <3>2. PlaceInv' /\ RootInv' /\ MessageInv'
      BY <2>1 DEF PlaceInv, PlaceOf, RootInv, MessageInv, MessageOf, SeenIn, WrittenUpTo
    <3>3. ValuesInv' /\ Setting' = Setting
      BY <2>1 DEF ConfigInv, ValuesInv, OneEach, NamesOf, Setting
    <3>4. Settled => Settled'
      BY DEF Settled, Silent, Fits, Level, Formatter, Added, Matches, NamesOf
    <3>5. ASSUME NEW t, Progress(t) PROVE Progress(t)'
      <4>1. Defined(t)'
        BY <3>5 DEF Progress, Defined, Fits, Level, Formatter, Added, Matches
      <4>2. AtHand(t)'
        BY <3>5 DEF Progress, AtHand, Level, Formatter, Added, Matches
      <4>3. Removed(t)' /\ Undefined(t)'
        BY <3>5 DEF Progress, Removed, Undefined, Silent, NamesOf
      <4> QED BY <4>1, <4>2, <4>3 DEF Progress
    <3>6. ConfigInv'
      BY <2>1, <3>3, <3>4, <3>5 DEF ConfigInv
    <3> QED BY <3>1, <3>2, <3>6 DEF LogInv
  <2> QED BY <2>2, <2>3 DEF Next
<1> QED BY <1>1, <1>2, PTL DEF Spec

\* Every logger stays complete, and every appender in the list of one has the formatter
\* that its log() dereferences.
THEOREM TypeCorrect == Spec => []TypeOK
<1>1. LogInv => TypeOK
  BY DEF LogInv
<1> QED BY <1>1, LogInvariant, PTL

\* A message that passed the level test of its logger reaches every appender the logger
\* had at one moment, or the root's, that lets its level pass, whatever other threads do
\* to the logger meanwhile, but for appenders whose level they change (Logger::log).
THEOREM AcceptedIsWritten == Spec => []AcceptedWritten
<1>1. LogInv => AcceptedWritten
  <2> SUFFICES ASSUME LogInv, NEW t \in Threads, pc[t] = "logged", msg[t].accepted
               PROVE  /\ \A k \in DOMAIN msg[t].seen \ msg[t].changed :
                            k \in msg[t].wrote <=> msg[t].level >= msg[t].seen[k].m_level
                      /\ msg[t].seen = <<>> => msg[t].logger = Root
    BY DEF AcceptedWritten
  <2> DEFINE m == msg[t]
  <2>1. WrittenUpTo(m, Len(m.seen) + 1) /\ (m.seen = <<>> => m.logger = Root)
    BY DEF LogInv, MessageInv, MessageOf
  <2>2. m.seen \in Seq(Appender)
    BY DEF LogInv, TypeOK, Message
  <2> HIDE DEF m
  <2>3. DOMAIN m.seen = 1 .. (Len(m.seen) + 1) - 1
    BY <2>2
  <2> QED BY <2>1, <2>3 DEF WrittenUpTo, m
<1> QED BY <1>1, LogInvariant, PTL

\* Once setValue is over the loggers are what m_val says: those it defines, and those it
\* no longer defines (ConfigVar::setValue, LogIniter's listener).
THEOREM ConfigIsApplied == Spec => []ConfigApplied
<1>1. LogInv => ConfigApplied
  <2> SUFFICES ASSUME LogInv, Setting = {}, ~overlap PROVE ConfigApplied
    BY DEF ConfigApplied
  <2>1. Settled /\ m_val \subseteq LogDefine
    BY DEF LogInv, ConfigInv, TypeOK
  <2>2. ASSUME NEW d \in {e \in m_val : e.name \notin touched}
        PROVE  /\ d.name \in DOMAIN loggers
               /\ loggers[d.name].m_level = d.level
               /\ Len(loggers[d.name].m_appenders) = Len(d.appenders)
               /\ \A k \in DOMAIN d.appenders :
                     /\ loggers[d.name].m_appenders[k].type = d.appenders[k].type
                     /\ loggers[d.name].m_appenders[k].m_filename = d.appenders[k].file
                     /\ loggers[d.name].m_appenders[k].m_formatter = loggers[d.name].m_formatter
               /\ d.formatter # <<>> /\ FormatterError(d.formatter) = "no"
                     => loggers[d.name].m_formatter = d.formatter
    <3>1. Fits(d)
      BY <2>1 DEF Settled
    <3>2. DOMAIN d.appenders = 1 .. Len(d.appenders)
      BY <2>1 DEF LogDefine
    <3> QED BY <3>1, <3>2 DEF Fits, Level, Formatter, Added, Matches
  <2>3. ASSUME NEW n \in configured \ ({d.name : d \in m_val} \cup touched)
        PROVE  loggers[n].m_level = OFF /\ loggers[n].m_appenders = <<>>
    BY <2>1 DEF Settled, Silent, NamesOf
  <2> QED BY <2>2, <2>3 DEF ConfigApplied
<1> QED BY <1>1, LogInvariant, PTL

-----------------------------------------------------------------------------
(* Patterns: LogFormatter::init accepts the documented grammar, and a % at the end. *)

LEMMA Least ==
    ASSUME NEW S, S \subseteq Nat, S # {}
    PROVE  \E x \in S : \A y \in S : x <= y
<1> DEFINE R == OpToRel(<, Nat)
<1>1. IsWellFoundedOn(R, Nat)
  BY NatLessThanWellFounded, Zenon
<1>2. PICK x \in S : \A y \in S : ~ (<<y, x>> \in R)
  <2> HIDE DEF R
  <2> QED BY <1>1, WFMin
<1>3. ASSUME NEW y \in S PROVE x <= y
  <2>1. <<y, x>> \notin {ss \in Nat \X Nat : ss[1] < ss[2]}
    BY <1>2, Zenon DEF OpToRel
  <2> HIDE DEF R
  <2> QED BY <2>1
<1> HIDE DEF R
<1> QED BY <1>3

\* What the comparison with the grammar is about: characters at their places.
Percent(p, k) == p[k] = "%"
Dee(p, k) == p[k] = "d"
Opens(p, k) == p[k] = "{"
Closes(p, k) == p[k] = "}"
Symbol(p, k) == p[k] \in FormatItems \cup {"d"}

\* A %d{ behind the first b characters.
DateAt(p, b) == Percent(p, b + 1) /\ Dee(p, b + 2) /\ Opens(p, b + 3)

\* The productions in these words, for a pattern of L characters, and with the shorter
\* prefix that they lengthen.
Rule(p, L, G, n) ==
    \/ n = 0
    \/ n >= 1 /\ G[n - 1] /\ ~Percent(p, n)
    \/ n >= 2 /\ G[n - 2] /\ Percent(p, n - 1) /\ Symbol(p, n) /\ ~(n < L /\ DateAt(p, n - 2))
    \/ \E a \in 0 .. n - 4 :
          G[a] /\ DateAt(p, a) /\ Closes(p, n) /\ \A k \in a + 4 .. n - 1 : ~Closes(p, k)

Grammar(p, L, G) == \A n \in 0 .. L : G[n] <=> Rule(p, L, G, n)

LEMMA ProductionRule ==
    ASSUME NEW p, NEW L \in Nat, Len(p) = L, NEW G, NEW n \in 0 .. L
    PROVE  Production(p, G, n) <=> Rule(p, L, G, n)
<1> DEFINE Date(m) == /\ G[m - 3] /\ p[m - 2] = "%" /\ p[m - 1] = "d" /\ p[m] = "{"
                      /\ p[n] = "}" /\ \A k \in m .. n - 1 : p[k] # "}"
           Dated(a) == /\ G[a] /\ DateAt(p, a) /\ Closes(p, n)
                       /\ \A k \in a + 4 .. n - 1 : ~Closes(p, k)
<1>1. ASSUME NEW a \in 0 .. n - 4 PROVE a + 3 \in 3 .. n - 1 /\ (Dated(a) <=> Date(a + 3))
  <2>1. /\ a + 3 \in 3 .. n - 1 /\ (a + 3) - 3 = a /\ (a + 3) - 2 = a + 1 /\ (a + 3) - 1 = a + 2
        /\ \A k \in a + 3 .. n - 1 : k = a + 3 \/ k \in a + 4 .. n - 1
        /\ \A k \in a + 4 .. n - 1 : k \in a + 3 .. n - 1
    OBVIOUS
  <2> QED BY <2>1, Zenon DEF DateAt, Percent, Dee, Opens, Closes
<1>2. ASSUME NEW m \in 3 .. n - 1 PROVE m - 3 \in 0 .. n - 4 /\ (m - 3) + 3 = m
  OBVIOUS
<1>3. (\E m \in 3 .. n - 1 : Date(m)) <=> (\E a \in 0 .. n - 4 : Dated(a))
  <2> HIDE DEF Date, Dated
  <2>1. ASSUME NEW m \in 3 .. n - 1, Date(m) PROVE \E a \in 0 .. n - 4 : Dated(a)
    BY <1>1, <1>2, <2>1, Zenon
  <2>2. ASSUME NEW a \in 0 .. n - 4, Dated(a) PROVE \E m \in 3 .. n - 1 : Date(m)
    BY <1>1, <2>2, Zenon
  <2> QED BY <2>1, <2>2
<1>4. n >= 2 => (n - 2) + 1 = n - 1 /\ (n - 2) + 2 = n /\ (n - 2) + 3 = n + 1
                /\ (n < L <=> n # Len(p))
  OBVIOUS
<1>5. n >= 2 /\ p[n - 1] = "%" =>
        ((p[n] \in FormatItems \/ (p[n] = "d" /\ (n = Len(p) \/ p[n + 1] # "{")))
            <=> Symbol(p, n) /\ ~(n < L /\ DateAt(p, n - 2)))
  <2>1. "d" \notin FormatItems
    BY LogFormatterAssumption
  <2> QED BY <1>4, <2>1, Zenon DEF Symbol, DateAt, Percent, Dee, Opens
<1>6. (n >= 2 /\ G[n - 2] /\ p[n - 1] = "%" /\ p[n] \in FormatItems)
      \/ (n >= 2 /\ G[n - 2] /\ p[n - 1] = "%" /\ p[n] = "d" /\ (n = Len(p) \/ p[n + 1] # "{"))
      <=> n >= 2 /\ G[n - 2] /\ Percent(p, n - 1) /\ Symbol(p, n)
          /\ ~(n < L /\ DateAt(p, n - 2))
  <2> HIDE <1>4
  <2> QED BY <1>5, Zenon DEF Percent
<1> HIDE DEF Dated
<1> QED BY <1>3, <1>6, Zenon DEF Production, Rule, Percent, Dated

LEMMA OneCharacter ==
    ASSUME NEW p, NEW k
    PROVE  /\ Percent(p, k) => ~Closes(p, k) /\ ~Opens(p, k) /\ ~Dee(p, k)
           /\ Dee(p, k) => ~Closes(p, k) /\ Symbol(p, k)
BY Zenon DEF Percent, Dee, Opens, Closes, Symbol

\* A production looks at shorter prefixes only.
LEMMA ProductionLocal ==
    ASSUME NEW p, NEW f, NEW g, NEW n \in Nat, \A k \in 0 .. n - 1 : f[k] = g[k]
    PROVE  Production(p, f, n) = Production(p, g, n)
<1>1. \A m \in 3 .. n - 1 : f[m - 3] = g[m - 3]
  OBVIOUS
<1>2. n >= 1 => f[n - 1] = g[n - 1]
  OBVIOUS
<1>3. n >= 2 => f[n - 2] = g[n - 2]
  OBVIOUS
<1> QED BY <1>1, <1>2, <1>3 DEF Production

LEMMA ProductionAt ==
    ASSUME NEW p, NEW L \in Nat, Len(p) = L
    PROVE  \A n \in 0 .. L : PlainUpTo(p)[n] = Production(p, PlainUpTo(p), n)
<1> DEFINE D(f, n) == [k \in 0 .. n |-> Production(p, f, k)]
           S == {n \in Nat : \E f : f = D(f, n)}
<1>1. 0 \in S
  <2> DEFINE f == [k \in 0 .. 0 |-> TRUE]
  <2>1. \A k \in 0 .. 0 : Production(p, f, k) = TRUE
    BY DEF Production
  <2>2. f = D(f, 0)
    BY <2>1
  <2> HIDE DEF f
  <2>3. \E h : h = D(h, 0)
    BY <2>2
  <2> QED BY <2>3
<1>2. ASSUME NEW n \in Nat, n \in S PROVE n + 1 \in S
  <2>1. PICK f : f = D(f, n)
    BY <1>2
  <2> DEFINE g == [k \in 0 .. n + 1 |-> IF k = n + 1 THEN Production(p, f, n + 1) ELSE f[k]]
  <2>2. \A k \in 0 .. n : f[k] = Production(p, f, k)
    BY <2>1
  <2>3. \A k \in 0 .. n : g[k] = f[k]
    OBVIOUS
  <2>4. g[n + 1] = Production(p, f, n + 1)
    OBVIOUS
  <2>5. g = [k \in 0 .. n + 1 |-> g[k]]
    OBVIOUS
  <2> HIDE DEF g
  <2>6. ASSUME NEW k \in 0 .. n + 1 PROVE g[k] = Production(p, g, k)
    <3>1. \A j \in 0 .. k - 1 : g[j] = f[j]
      BY <2>3
    <3>2. Production(p, g, k) = Production(p, f, k)
      BY <3>1, ProductionLocal
    <3> QED BY <2>2, <2>3, <2>4, <3>2
  <2>7. g = D(g, n + 1)
    BY <2>5, <2>6
  <2>8. \E h : h = D(h, n + 1)
    <3> HIDE DEF D
    <3> QED BY <2>7
  <2> QED BY <2>8
<1>3. Nat \subseteq S
  <2> HIDE DEF S
  <2> QED BY <1>1, <1>2, SetInduction
<1>4. \E f : f = D(f, Len(p))
  BY <1>3
<1>5. PlainUpTo(p) = CHOOSE f : f = D(f, Len(p))
  BY Zenon DEF PlainUpTo
<1>6. PlainUpTo(p) = D(PlainUpTo(p), Len(p))
  <2> HIDE DEF D
  <2> QED BY <1>4, <1>5
<1> QED BY <1>6

LEMMA PlainUnfolds ==
    ASSUME NEW p, NEW L \in Nat, Len(p) = L
    PROVE  Grammar(p, L, PlainUpTo(p))
BY ProductionAt, ProductionRule DEF Grammar

LEMMA ScanUnfolds ==
    ASSUME NEW p, Len(p) \in Nat
    PROVE  \A k \in 0 .. Len(p) :
              ScanAfter(p)[k] =
                  IF k = 0 THEN Scanner
                  ELSE IF Over(p, ScanAfter(p)[k - 1]) THEN ScanAfter(p)[k - 1]
                  ELSE Turn(p, ScanAfter(p)[k - 1])
<1> DEFINE Next1(s) == IF Over(p, s) THEN s ELSE Turn(p, s)
           D(f, n) == [k \in 0 .. n |-> IF k = 0 THEN Scanner ELSE Next1(f[k - 1])]
           S == {n \in Nat : \E f : f = D(f, n)}
<1> HIDE DEF Next1
<1>1. 0 \in S
  <2> DEFINE f == [k \in 0 .. 0 |-> Scanner]
  <2>1. f = D(f, 0)
    OBVIOUS
  <2> QED BY <2>1
<1>2. ASSUME NEW n \in Nat, n \in S PROVE n + 1 \in S
  <2>1. PICK f : f = D(f, n)
    BY <1>2
  <2> DEFINE g == [k \in 0 .. n + 1 |-> IF k = n + 1 THEN Next1(f[n]) ELSE f[k]]
  <2>2. \A k \in 0 .. n : f[k] = IF k = 0 THEN Scanner ELSE Next1(f[k - 1])
    BY <2>1
  <2>3. ASSUME NEW k \in 0 .. n + 1
        PROVE  g[k] = IF k = 0 THEN Scanner ELSE Next1(g[k - 1])
    <3>1. CASE k = n + 1
      BY <3>1
    <3>2. CASE k # n + 1
      <4>1. k \in 0 .. n /\ g[k] = f[k] /\ (k # 0 => g[k - 1] = f[k - 1])
        BY <3>2
      <4> QED BY <4>1, <2>2
    <3> QED BY <3>1, <3>2
  <2>4. g = D(g, n + 1)
    BY <2>3
  <2>5. \E h : h = D(h, n + 1)
    <3> HIDE DEF D, g
    <3> QED BY <2>4
  <2> QED BY <2>5
<1>3. Nat \subseteq S
  <2> HIDE DEF S
  <2> QED BY <1>1, <1>2, SetInduction
<1>4. \E f : f = D(f, Len(p))
  BY <1>3
<1>5. ScanAfter(p) = CHOOSE f : f = D(f, Len(p))
  BY Zenon DEF ScanAfter, Next1
<1>6. ScanAfter(p) = D(ScanAfter(p), Len(p))
  <2> HIDE DEF D
  <2> QED BY <1>4, <1>5
<1>7. ASSUME NEW k \in 0 .. Len(p)
      PROVE  ScanAfter(p)[k] = IF k = 0 THEN Scanner ELSE Next1(ScanAfter(p)[k - 1])
  BY <1>6
<1> QED BY <1>7 DEF Next1

\* What the documented prefixes shorter than b go on with is over at b.
Closed(p, L, G, b) ==
    \A m \in 0 .. b - 1 : G[m] /\ Percent(p, m + 1) =>
        /\ m + 2 <= b
        /\ m + 3 <= L /\ DateAt(p, m) => \E j \in m + 4 .. b : Closes(p, j)

\* Behind such a place no item is under way, and no date format either.
LEMMA NothingUnderWay ==
    ASSUME NEW p, NEW L \in Nat, NEW G, NEW b \in 0 .. L, Closed(p, L, G, b)
    PROVE  /\ b >= 1 => ~(G[b - 1] /\ Percent(p, b))
           /\ \A n \in b + 1 .. L : \A a \in 0 .. n - 4 :
                 G[a] /\ DateAt(p, a) /\ (\A k \in a + 4 .. n - 1 : ~Closes(p, k)) => a >= b
<1>1. ASSUME b >= 1, G[b - 1], Percent(p, b) PROVE FALSE
  <2>1. b - 1 \in 0 .. b - 1 /\ (b - 1) + 1 = b /\ ~((b - 1) + 2 <= b)
    BY <1>1
  <2> QED BY <1>1, <2>1 DEF Closed
<1>2. ASSUME NEW n \in b + 1 .. L, NEW a \in 0 .. n - 4, G[a], DateAt(p, a),
             \A k \in a + 4 .. n - 1 : ~Closes(p, k), ~(a >= b)
      PROVE  FALSE
  <2>1. a \in 0 .. b - 1 /\ a + 3 <= L
    BY <1>2
  <2>2. Percent(p, a + 1)
    BY <1>2 DEF DateAt
  <2>3. PICK j \in a + 4 .. b : Closes(p, j)
    BY <1>2, <2>1, <2>2 DEF Closed
  <2>4. j \in a + 4 .. n - 1
    OBVIOUS
  <2> QED BY <1>2, <2>3, <2>4
<1> QED BY <1>1, <1>2

\* A regular character.
LEMMA RegularStep ==
    ASSUME NEW p, NEW L \in Nat, NEW G, Grammar(p, L, G), NEW b \in 0 .. L - 1,
           Closed(p, L, G, b), ~Percent(p, b + 1)
    PROVE  (G[b + 1] <=> G[b]) /\ Closed(p, L, G, b + 1)
<1>1. b \in Nat /\ b + 1 \in 0 .. L /\ b \in 0 .. L /\ b + 1 \in b + 1 .. L
      /\ (b + 1) - 1 = b /\ (b + 1) - 2 = b - 1 /\ b + 1 # 0 /\ b + 1 >= 1
      /\ (b + 1 >= 2 => b >= 1)
  OBVIOUS
<1>2. G[b + 1] <=> Rule(p, L, G, b + 1)
  BY <1>1 DEF Grammar
<1>3. b >= 1 => ~(G[b - 1] /\ Percent(p, b))
  BY <1>1, NothingUnderWay
<1>4. ASSUME NEW a \in 0 .. (b + 1) - 4, G[a], DateAt(p, a),
             \A k \in a + 4 .. (b + 1) - 1 : ~Closes(p, k)
      PROVE  FALSE
  <2>1. a >= b
    BY <1>1, <1>4, NothingUnderWay
  <2> QED BY <1>1, <2>1
<1>5. G[b + 1] <=> G[b]
  BY <1>1, <1>2, <1>3, <1>4 DEF Rule
<1>6. Closed(p, L, G, b + 1)
  <2> SUFFICES ASSUME NEW m \in 0 .. (b + 1) - 1, G[m], Percent(p, m + 1)
               PROVE  /\ m + 2 <= b + 1
                      /\ m + 3 <= L /\ DateAt(p, m) => \E j \in m + 4 .. b + 1 : Closes(p, j)
    BY DEF Closed
  <2>1. m # b /\ m \in 0 .. b - 1
    BY <1>1
  <2>2. m + 4 .. b \subseteq m + 4 .. b + 1 /\ (m + 2 <= b => m + 2 <= b + 1)
    BY <1>1
  <2> QED BY <2>1, <2>2 DEF Closed
<1> QED BY <1>5, <1>6

\* Inside an item no prefix is documented: behind its %, ...
LEMMA NotBehindPercent ==
    ASSUME NEW p, NEW L \in Nat, NEW G, Grammar(p, L, G), NEW b \in 0 .. L - 1,
           Closed(p, L, G, b), Percent(p, b + 1)
    PROVE  ~G[b + 1]
<1>1. b \in Nat /\ b + 1 \in 0 .. L /\ b \in 0 .. L /\ b + 1 \in b + 1 .. L
      /\ (b + 1) - 1 = b /\ (b + 1) - 2 = b - 1 /\ b + 1 # 0 /\ (b + 1 >= 2 => b >= 1)
  OBVIOUS
<1>2. G[b + 1] <=> Rule(p, L, G, b + 1)
  BY <1>1 DEF Grammar
<1>3. b >= 1 => ~(G[b - 1] /\ Percent(p, b))
  BY <1>1, NothingUnderWay
<1>4. ~Closes(p, b + 1)
  BY OneCharacter
<1> QED BY <1>1, <1>2, <1>3, <1>4 DEF Rule

\* A percent sign and a character, which is not the start of %d{.
LEMMA ItemStep ==
    ASSUME NEW p, NEW L \in Nat, NEW G, Grammar(p, L, G), NEW b \in 0 .. L - 2,
           Closed(p, L, G, b), Percent(p, b + 1), ~(b + 3 <= L /\ DateAt(p, b))
    PROVE  (G[b + 2] <=> G[b] /\ Symbol(p, b + 2)) /\ Closed(p, L, G, b + 2)
<1>1. b \in Nat /\ b + 2 \in 0 .. L /\ b \in 0 .. L /\ b + 2 \in b + 1 .. L
      /\ b \in 0 .. L - 1 /\ (b + 2) - 1 = b + 1 /\ (b + 2) - 2 = b /\ b + 2 # 0
      /\ b + 2 >= 2 /\ (b + 2 < L <=> b + 3 <= L)
  OBVIOUS
<1>2. G[b + 2] <=> Rule(p, L, G, b + 2)
  BY <1>1 DEF Grammar
<1>3. ~G[b + 1]
  BY <1>1, NotBehindPercent
<1>4. ASSUME NEW a \in 0 .. (b + 2) - 4, G[a], DateAt(p, a),
             \A k \in a + 4 .. (b + 2) - 1 : ~Closes(p, k)
      PROVE  FALSE
  <2>1. a >= b
    BY <1>1, <1>4, NothingUnderWay
  <2> QED BY <1>1, <2>1
<1>5. G[b + 2] <=> G[b] /\ Symbol(p, b + 2)
  BY <1>1, <1>2, <1>3, <1>4 DEF Rule
<1>6. Closed(p, L, G, b + 2)
  <2> SUFFICES ASSUME NEW m \in 0 .. (b + 2) - 1, G[m], Percent(p, m + 1)
               PROVE  /\ m + 2 <= b + 2
                      /\ m + 3 <= L /\ DateAt(p, m) => \E j \in m + 4 .. b + 2 : Closes(p, j)
    BY DEF Closed
  <2>1. CASE m \in 0 .. b - 1
    <3>1. m + 4 .. b \subseteq m + 4 .. b + 2 /\ (m + 2 <= b => m + 2 <= b + 2)
      BY <1>1, <2>1
    <3> QED BY <2>1, <3>1 DEF Closed
  <2>2. CASE m = b
    BY <1>1, <2>2
  <2>3. CASE m = b + 1
    BY <1>3, <2>3
  <2> QED BY <1>1, <2>1, <2>2, <2>3
<1> QED BY <1>5, <1>6

\* ... and in a date format up to its closing brace.
LEMMA NotInDate ==
    ASSUME NEW p, NEW L \in Nat, NEW G, Grammar(p, L, G), NEW b \in 0 .. L - 3,
           DateAt(p, b), Closed(p, L, G, b), NEW e \in b + 4 .. L + 1,
           \A j \in b + 4 .. e - 1 : ~Closes(p, j)
    PROVE  \A n \in b + 1 .. e - 1 : ~G[n]
<1>0. b \in Nat /\ b \in 0 .. L - 1 /\ b \in 0 .. L /\ e \in Nat /\ b + 3 <= L
      /\ e >= b + 4 /\ e <= L + 1
  OBVIOUS
<1> DEFINE S == {k \in Nat : \A n \in b + 1 .. b + k : n <= e - 1 => ~G[n]}
<1>1. 0 \in S
  OBVIOUS
<1>2. ASSUME NEW k \in Nat, k \in S PROVE k + 1 \in S
  <2>1. \A n \in b + 1 .. b + k : n <= e - 1 => ~G[n]
    BY <1>2
  <2> DEFINE n == b + k + 1
  <2>2. n \in Nat /\ n >= b + 1 /\ n - 1 = b + k
    BY <1>0
  <2>3. ASSUME n <= e - 1 PROVE ~G[n]
    <3>1. n \in 0 .. L /\ n \in b + 1 .. L /\ n # 0
      BY <1>0, <2>2, <2>3
    <3>2. G[n] <=> Rule(p, L, G, n)
      BY <3>1 DEF Grammar
    <3>3. ASSUME NEW a \in 0 .. n - 4, G[a], DateAt(p, a), Closes(p, n),
                 \A i \in a + 4 .. n - 1 : ~Closes(p, i)
          PROVE  FALSE
      <4>1. a >= b
        BY <1>0, <3>1, <3>3, NothingUnderWay
      <4>2. a \in Nat /\ a <= n - 4
        BY <2>2
      <4>3. CASE a = b
        <5>1. n \in b + 4 .. e - 1
          BY <1>0, <2>2, <2>3, <4>2, <4>3
        <5> QED BY <3>3, <5>1
      <4>4. CASE a > b
        <5>1. a \in b + 1 .. b + k /\ a <= e - 1
          BY <1>0, <2>2, <2>3, <4>2, <4>4
        <5> QED BY <2>1, <3>3, <5>1
      <4> QED BY <1>0, <4>1, <4>2, <4>3, <4>4
    <3>4. CASE k = 0
      <4>1. n = b + 1
        BY <1>0, <3>4
      <4>2. Percent(p, b + 1)
        BY DEF DateAt
      <4>3. ~G[b + 1]
        BY <1>0, <4>2, NotBehindPercent
      <4> QED BY <4>1, <4>3
    <3>5. CASE k = 1
      <4>1. n = b + 2 /\ n - 1 = b + 1 /\ n - 2 = b /\ n < L
        BY <1>0, <3>5
      <4>2. Percent(p, b + 1)
        BY DEF DateAt
      <4>3. ~G[b + 1]
        BY <1>0, <4>2, NotBehindPercent
      <4> HIDE DEF n
      <4> QED BY <3>1, <3>2, <3>3, <4>1, <4>3 DEF Rule
    <3>6. CASE k \notin {0, 1}
      <4>1. n - 1 \in b + 1 .. b + k /\ n - 1 <= e - 1 /\ n - 2 \in b + 1 .. b + k
            /\ n - 2 <= e - 1
        BY <1>0, <2>3, <3>6
      <4>2. ~G[n - 1] /\ ~G[n - 2]
        BY <2>1, <4>1
      <4> HIDE DEF n
      <4> QED BY <3>1, <3>2, <3>3, <4>2 DEF Rule
    <3> QED BY <3>4, <3>5, <3>6
  <2>4. b + (k + 1) = n /\ \A i \in b + 1 .. n : i \in b + 1 .. b + k \/ i = n
    BY <1>0
  <2> HIDE DEF n
  <2> QED BY <2>1, <2>3, <2>4
<1>3. Nat \subseteq S
  <2> HIDE DEF S
  <2> QED BY <1>1, <1>2, SetInduction
<1>4. (e - 1) - b \in Nat /\ b + ((e - 1) - b) = e - 1
  BY <1>0
<1>5. (e - 1) - b \in S
  BY <1>3, <1>4
<1> QED BY <1>0, <1>4, <1>5

\* A %d with a format in braces.
LEMMA DateStep ==
    ASSUME NEW p, NEW L \in Nat, NEW G, Grammar(p, L, G), NEW b \in 0 .. L - 3,
           DateAt(p, b), Closed(p, L, G, b), NEW e \in b + 4 .. L, Closes(p, e),
           \A j \in b + 4 .. e - 1 : ~Closes(p, j)
    PROVE  (G[e] <=> G[b]) /\ Closed(p, L, G, e)
<1>0. b \in Nat /\ b \in 0 .. L /\ e \in Nat /\ e >= b + 4 /\ e <= L
      /\ e \in 0 .. L /\ e \in b + 1 .. L /\ e \in b + 4 .. L + 1
  OBVIOUS
<1>1. \A n \in b + 1 .. e - 1 : ~G[n]
  BY <1>0, NotInDate
<1>2. G[e] <=> Rule(p, L, G, e)
  BY <1>0 DEF Grammar
<1>3. e - 1 \in b + 1 .. e - 1 /\ e - 2 \in b + 1 .. e - 1 /\ e # 0 /\ b \in 0 .. e - 4
  BY <1>0
<1>4. ASSUME NEW a \in 0 .. e - 4, G[a], DateAt(p, a),
             \A k \in a + 4 .. e - 1 : ~Closes(p, k)
      PROVE  G[b]
  <2>1. a >= b
    BY <1>0, <1>4, NothingUnderWay
  <2>2. a = b \/ a \in b + 1 .. e - 1
    BY <1>0, <2>1
  <2> QED BY <1>1, <1>4, <2>2
<1>5. G[e] <=> G[b]
  BY <1>1, <1>2, <1>3, <1>4 DEF Rule
<1>6. Closed(p, L, G, e)
  <2> SUFFICES ASSUME NEW m \in 0 .. e - 1, G[m], Percent(p, m + 1)
               PROVE  /\ m + 2 <= e
                      /\ m + 3 <= L /\ DateAt(p, m) => \E j \in m + 4 .. e : Closes(p, j)
    BY DEF Closed
  <2>1. CASE m \in 0 .. b - 1
    <3>1. m + 4 .. b \subseteq m + 4 .. e /\ (m + 2 <= b => m + 2 <= e)
      BY <1>0, <2>1
    <3> QED BY <2>1, <3>1 DEF Closed
  <2>2. CASE m = b
    <3>1. m + 2 <= e /\ e \in m + 4 .. e
      BY <1>0, <2>2
    <3> QED BY <3>1
  <2>3. CASE m \in b + 1 .. e - 1
    BY <1>1, <2>3
  <2> QED BY <1>0, <2>1, <2>2, <2>3
<1> QED BY <1>5, <1>6

\* The loop's states, for a pattern over A.
Items(A) == ({"REGULAR_SYMBOL"} \X Seq(A)) \cup ({"INNER_SYMBOL"} \X A)

Scans(A) ==
    [i : Nat, parsingString : BOOLEAN, tmp : Seq(A), patterns : Seq(Items(A)),
     dateFormat : Seq(A), error : {"no", "undefined", "yes"}]

LEMMA KnownAppend ==
    ASSUME NEW T, NEW q \in Seq(T), NEW kind, NEW x
    PROVE  Known(Append(q, <<kind, x>>))
             <=> Known(q) /\ (kind = "INNER_SYMBOL" => x \in FormatItems \cup {"d"})
<1> DEFINE r == Append(q, <<kind, x>>)
           Good(y) == y[1] = "INNER_SYMBOL" => y[2] \in FormatItems \cup {"d"}
<1>1. /\ Len(q) \in Nat /\ Len(r) = Len(q) + 1 /\ r[Len(r)] = <<kind, x>>
      /\ \A k \in 1 .. Len(q) : r[k] = q[k]
  <2>1. q \in Seq(T \cup {<<kind, x>>})
    OBVIOUS
  <2> QED BY <2>1, AppendProperties
<1>2. <<kind, x>>[1] = kind /\ <<kind, x>>[2] = x
  OBVIOUS
<1> HIDE DEF r
<1>3. (\A k \in 1 .. Len(r) : Good(r[k])) <=> (\A k \in 1 .. Len(q) : Good(q[k])) /\ Good(<<kind, x>>)
  <2> HIDE DEF Good
  <2>1. \A k \in 1 .. Len(r) : k = Len(r) \/ k \in 1 .. Len(q)
    BY <1>1
  <2>2. Len(r) \in 1 .. Len(r) /\ 1 .. Len(q) \subseteq 1 .. Len(r)
    BY <1>1
  <2> QED BY <1>1, <2>1, <2>2
<1>4. Known(r) <=> (\A k \in 1 .. Len(r) : Good(r[k]))
  BY Zenon DEF Known
<1>5. Known(q) <=> (\A k \in 1 .. Len(q) : Good(q[k]))
  BY Zenon DEF Known
<1>6. Good(<<kind, x>>) <=> (kind = "INNER_SYMBOL" => x \in FormatItems \cup {"d"})
  BY <1>2
<1> HIDE DEF Good
<1>7. Known(r) <=> Known(q) /\ (kind = "INNER_SYMBOL" => x \in FormatItems \cup {"d"})
  BY <1>3, <1>4, <1>5, <1>6
<1> QED BY <1>7 DEF r

\* What was collected is pushed, and changes nothing else.
LEMMA FlushKeeps ==
    ASSUME NEW A, NEW s \in Scans(A)
    PROVE  /\ Flush(s) \in Scans(A) /\ Flush(s).i = s.i /\ Flush(s).error = s.error
           /\ Flush(s).parsingString = s.parsingString
           /\ Known(Flush(s).patterns) <=> Known(s.patterns)
<1>1. CASE s.tmp = <<>>
  BY <1>1 DEF Flush
<1>2. CASE s.tmp # <<>>
  <2> DEFINE item == <<"REGULAR_SYMBOL", s.tmp>>
             t == [s EXCEPT !.patterns = Append(@, item), !.tmp = <<>>]
  <2>1. Flush(s) = t
    BY <1>2 DEF Flush
  <2>2. s.patterns \in Seq(Items(A)) /\ item \in Items(A) /\ <<>> \in Seq(A)
    BY DEF Scans, Items
  <2>3. Append(s.patterns, item) \in Seq(Items(A))
    BY <2>2, AppendProperties
  <2>4. t \in Scans(A) /\ t.i = s.i /\ t.error = s.error
        /\ t.parsingString = s.parsingString /\ t.patterns = Append(s.patterns, item)
    <3> HIDE DEF item
    <3> QED BY <2>2, <2>3 DEF Scans
  <2>5. Known(Append(s.patterns, item)) <=> Known(s.patterns)
    BY <2>2, KnownAppend
  <2> HIDE DEF t
  <2> QED BY <2>1, <2>4, <2>5
<1> QED BY <1>1, <1>2

\* The format that begins with the brace at i is read up to its first closing brace.
FormatEnds(p, L, i, t) ==
    \/ \E e \in i + 1 .. L :
          /\ Closes(p, e) /\ \A j \in i + 1 .. e - 1 : ~Closes(p, j)
          /\ t.i = e + 1 /\ t.error = "no"
    \/ /\ \A j \in i + 1 .. L : ~Closes(p, j)
       /\ t.i > L /\ t.error = "yes"

FormatIsRead(A, p, L, s, t) ==
    /\ t \in Scans(A) /\ t.parsingString = s.parsingString /\ t.patterns = s.patterns
    /\ s.i = L + 1 => t.i = L + 2 /\ t.error = "undefined"
    /\ s.i <= L => FormatEnds(p, L, s.i, t)

\* Behind %d: the end of the pattern, a format up to its first closing brace, or one
\* without.
LEMMA FormatRead ==
    ASSUME NEW A, NEW p \in Seq(A), NEW L \in Nat, Len(p) = L, NEW s \in Scans(A),
           s.i >= 1, s.i <= L + 1
    PROVE  FormatIsRead(A, p, L, s, DateFormat(p, s))
<1> DEFINE close == {j \in s.i + 1 .. Len(p) : Closes(p, j)}
           least == CHOOSE j \in close : \A k \in close : j <= k
           end == IF close = {} THEN Len(p) + 1 ELSE least
           verdict == IF s.i > Len(p) THEN "undefined" ELSE IF close = {} THEN "yes" ELSE "no"
           format == s.dateFormat \o SubSeq(p, s.i + 1, end - 1)
           t == DateFormat(p, s)
<1>1. t = [s EXCEPT !.dateFormat = format, !.i = end + 1, !.error = verdict]
  BY Zenon DEF DateFormat, Closes
<1>2. s.i \in Nat /\ s.dateFormat \in Seq(A)
  BY DEF Scans
<1>3. close # {} => /\ least \in close
                    /\ \A k \in close : least <= k
  <2> SUFFICES ASSUME close # {} PROVE \E j \in close : \A k \in close : j <= k
    <3> HIDE DEF close
    <3> QED BY Zenon
  <2>1. close \subseteq Nat
    BY <1>2
  <2> HIDE DEF close
  <2> QED BY <2>1, Least
<1>4. close \subseteq s.i + 1 .. L
  OBVIOUS
<1>5. end \in Nat /\ end <= L + 1 /\ verdict \in {"no", "undefined", "yes"}
  <2>1. verdict \in {"no", "undefined", "yes"}
    OBVIOUS
  <2>2. CASE close = {}
    BY <2>1, <2>2
  <2>3. CASE close # {}
    <3>1. least \in s.i + 1 .. L
      <4> HIDE DEF close, least
      <4> QED BY <1>3, <1>4, <2>3
    <3>2. end = least
      BY <2>3
    <3> HIDE DEF least, end, verdict
    <3> QED BY <1>2, <2>1, <3>1, <3>2
  <2> QED BY <2>2, <2>3
<1>6. format \in Seq(A)
  <2>1. \A i \in s.i + 1 .. end - 1 : p[i] \in A
    <3> HIDE DEF end
    <3>1. \A i \in s.i + 1 .. end - 1 : i \in 1 .. Len(p)
      BY <1>2, <1>5
    <3> QED BY <3>1, ElementOfSeq
  <2>2. s.i + 1 \in Int /\ end - 1 \in Int
    <3> HIDE DEF end
    <3> QED BY <1>2, <1>5
  <2> HIDE DEF end
  <2>3. SubSeq(p, s.i + 1, end - 1) \in Seq(A)
    BY <2>1, <2>2, SubSeqProperties
  <2> QED BY <1>2, <2>3, ConcatProperties
<1>7. t \in Scans(A) /\ t.parsingString = s.parsingString /\ t.patterns = s.patterns
      /\ t.i = end + 1 /\ t.error = verdict
  <2> HIDE DEF end, verdict, format
  <2>1. end + 1 \in Nat
    BY <1>5
  <2> HIDE DEF t
  <2> QED BY <1>1, <1>5, <1>6, <2>1 DEF Scans
<1> HIDE DEF t, format
<1>8. s.i = L + 1 => t.i = L + 2 /\ t.error = "undefined"
  <2> SUFFICES ASSUME s.i = L + 1 PROVE end = L + 1 /\ verdict = "undefined"
    BY <1>7
  <2>1. close = {} /\ s.i > L
    BY <1>2, <1>4
  <2> HIDE DEF close
  <2> QED BY <2>1
<1>9. s.i <= L => FormatEnds(p, L, s.i, t)
  <2> SUFFICES ASSUME s.i <= L PROVE FormatEnds(p, L, s.i, t)
    OBVIOUS
  <2>0. ~(s.i > L)
    BY <1>2
  <2>1. CASE close = {}
    <3>1. end = L + 1 /\ verdict = "yes"
      <4> HIDE DEF close
      <4> QED BY <2>0, <2>1
    <3>2. \A j \in s.i + 1 .. L : ~Closes(p, j)
      BY <2>1
    <3>3. t.i > L
      <4> HIDE DEF end
      <4> QED BY <1>7, <3>1
    <3> QED BY <1>7, <3>1, <3>2, <3>3 DEF FormatEnds
  <2>2. CASE close # {}
    <3>1. end = least /\ verdict = "no"
      <4> HIDE DEF close, least
      <4> QED BY <2>0, <2>2
    <3>2. least \in s.i + 1 .. L /\ Closes(p, least)
      <4> HIDE DEF least
      <4> QED BY <1>3, <2>2
    <3>3. \A j \in s.i + 1 .. least - 1 : ~Closes(p, j)
      <4> SUFFICES ASSUME NEW j \in s.i + 1 .. least - 1, Closes(p, j) PROVE FALSE
        OBVIOUS
      <4> HIDE DEF least
      <4>1. j \in s.i + 1 .. L /\ ~(least <= j)
        BY <1>2, <3>2
      <4>2. j \in close
        BY <4>1
      <4> QED BY <1>3, <2>2, <4>1, <4>2
    <3>4. t.i = least + 1 /\ t.error = "no"
      BY <1>7, <3>1
    <3> HIDE DEF least
    <3> QED BY <3>2, <3>3, <3>4 DEF FormatEnds
  <2> QED BY <2>1, <2>2
<1> QED BY <1>7, <1>8, <1>9, Zenon DEF t, FormatIsRead

\* A d that begins an item with a format, or may do so.
Dates(p, L, s) == Dee(p, s.i) /\ (s.i = L \/ Opens(p, s.i + 1))

TurnIsRead(A, p, L, s, t) ==
    /\ t \in Scans(A)
    /\ s.parsingString => /\ t.i = s.i + 1 /\ t.error = "no"
                          /\ t.parsingString <=> ~Percent(p, s.i)
                          /\ Known(t.patterns) <=> Known(s.patterns)
    /\ ~s.parsingString => /\ t.parsingString
                           /\ Known(t.patterns) <=> Known(s.patterns) /\ Symbol(p, s.i)
                           /\ ~Dates(p, L, s) => t.i = s.i + 1 /\ t.error = "no"
                           /\ Dates(p, L, s) /\ s.i = L => t.i = L + 2 /\ t.error = "undefined"
                           /\ Dates(p, L, s) /\ s.i < L => FormatEnds(p, L, s.i + 1, t)

\* A turn, by the character it reads.
LEMMA TurnReads ==
    ASSUME NEW A, NEW p \in Seq(A), NEW L \in Nat, Len(p) = L, NEW s \in Scans(A),
           s.i >= 1, s.i <= L, s.error = "no"
    PROVE  TurnIsRead(A, p, L, s, Turn(p, s))
<1> DEFINE c == p[s.i]
           next == [s EXCEPT !.i = @ + 1]
           item == [next EXCEPT !.patterns = Append(@, <<"INNER_SYMBOL", c>>),
                                !.parsingString = TRUE]
           t == Turn(p, s)
           date == Dates(p, L, s)
<1>1. /\ s.i \in Nat /\ s.patterns \in Seq(Items(A)) /\ s.tmp \in Seq(A)
      /\ s.parsingString \in BOOLEAN
  BY DEF Scans
<1>2. c \in A
  <2>1. s.i \in 1 .. Len(p)
    BY <1>1
  <2> QED BY <2>1, ElementOfSeq
<1>3. /\ next \in Scans(A) /\ next.i = s.i + 1 /\ next.error = s.error
      /\ next.parsingString = s.parsingString /\ next.patterns = s.patterns
      /\ next.tmp = s.tmp
  <2> DEFINE i == s.i + 1
  <2>1. i \in Nat /\ next = [s EXCEPT !.i = i]
    BY <1>1
  <2> HIDE DEF i, next, c, date, t
  <2>2. /\ next \in Scans(A) /\ next.i = i /\ next.error = s.error
        /\ next.parsingString = s.parsingString /\ next.patterns = s.patterns
        /\ next.tmp = s.tmp
    BY <2>1 DEF Scans
  <2> QED BY <2>2 DEF i
<1> HIDE DEF next
<1>4. CASE s.parsingString /\ Percent(p, s.i)
  <2> DEFINE flushed == Flush(next)
  <2>1. t = [flushed EXCEPT !.parsingString = FALSE]
    BY <1>4, Zenon DEF Turn, Percent, next
  <2>2. /\ flushed \in Scans(A) /\ flushed.i = s.i + 1 /\ flushed.error = "no"
        /\ Known(flushed.patterns) <=> Known(s.patterns)
    BY <1>3, FlushKeeps
  <2> HIDE DEF flushed, t
  <2>3. t \in Scans(A) /\ t.i = s.i + 1 /\ t.error = "no" /\ ~t.parsingString
        /\ t.patterns = flushed.patterns
    BY <2>1, <2>2 DEF Scans
  <2> QED BY <1>4, <2>2, <2>3, Zenon DEF t, TurnIsRead
<1>5. CASE s.parsingString /\ ~Percent(p, s.i)
  <2>1. t = [next EXCEPT !.tmp = Append(@, c)]
    BY <1>5, Zenon DEF Turn, Percent, next
  <2>2. Append(s.tmp, c) \in Seq(A)
    BY <1>1, <1>2, AppendProperties
  <2> HIDE DEF t, c
  <2>3. t \in Scans(A) /\ t.i = s.i + 1 /\ t.error = "no" /\ t.parsingString
        /\ t.patterns = s.patterns
    BY <1>3, <1>5, <2>1, <2>2 DEF Scans
  <2> QED BY <1>5, <2>3, Zenon DEF t, TurnIsRead
<1>6. /\ item \in Scans(A) /\ item.i = s.i + 1 /\ item.error = "no" /\ item.parsingString
      /\ Known(item.patterns) <=> Known(s.patterns) /\ Symbol(p, s.i)
  <2> DEFINE more == Append(s.patterns, <<"INNER_SYMBOL", c>>)
  <2>1. more \in Seq(Items(A))
    <3>1. <<"INNER_SYMBOL", c>> \in Items(A)
      BY <1>2 DEF Items
    <3> QED BY <1>1, <3>1, AppendProperties
  <2>2. Known(more) <=> Known(s.patterns) /\ Symbol(p, s.i)
    <3> HIDE DEF c
    <3>1. Known(more) <=> Known(s.patterns) /\ c \in FormatItems \cup {"d"}
      BY <1>1, KnownAppend
    <3> QED BY <3>1, Zenon DEF Symbol, c
  <2> HIDE DEF more
  <2>3. item = [next EXCEPT !.patterns = more, !.parsingString = TRUE]
    BY <1>3 DEF more
  <2> HIDE DEF item
  <2>4. item \in Scans(A) /\ item.i = s.i + 1 /\ item.error = "no" /\ item.parsingString
        /\ item.patterns = more
    BY <1>3, <2>1, <2>3 DEF Scans
  <2> QED BY <2>2, <2>4
<1> HIDE DEF item
<1>7. item.i <= Len(p) <=> s.i < L
  BY <1>1, <1>6
<1>8. s.i < L <=> s.i # L
  BY <1>1
<1>9. CASE ~s.parsingString /\ ~date
  <2>1. c # "d" \/ (item.i <= Len(p) /\ p[item.i] # "{")
    BY <1>6, <1>7, <1>8, <1>9, Zenon DEF Dates, Dee, Opens
  <2>2. t = item
    BY <1>9, <2>1, Zenon DEF Turn, item, next
  <2> HIDE DEF t, date
  <2> QED BY <1>6, <1>9, <2>2, Zenon DEF t, date, TurnIsRead
<1>10. CASE ~s.parsingString /\ date
  <2>1. ~(c # "d" \/ (item.i <= Len(p) /\ p[item.i] # "{"))
    BY <1>6, <1>7, <1>8, <1>10, Zenon DEF Dates, Dee, Opens
  <2>2. t = DateFormat(p, item)
    BY <1>10, <2>1, Zenon DEF Turn, item, next
  <2>3. item.i >= 1 /\ item.i <= L + 1
    BY <1>1, <1>6
  <2> HIDE DEF t
  <2>4. FormatIsRead(A, p, L, item, t)
    <3>1. item \in Scans(A)
      BY <1>6
    <3> HIDE DEF c, date
    <3>2. FormatIsRead(A, p, L, item, DateFormat(p, item))
      BY <2>3, <3>1, FormatRead, Zenon
    <3> QED BY <2>2, <3>2, Zenon
  <2>5. (item.i = L + 1 <=> s.i = L) /\ (item.i <= L <=> s.i < L)
    BY <1>1, <1>6
  <2>6. /\ t \in Scans(A) /\ t.parsingString
        /\ Known(t.patterns) <=> Known(s.patterns) /\ Symbol(p, s.i)
        /\ s.i = L => t.i = L + 2 /\ t.error = "undefined"
        /\ s.i < L => FormatEnds(p, L, s.i + 1, t)
    BY <1>6, <2>4, <2>5, Zenon DEF FormatIsRead
  <2> QED BY <1>10, <2>6, Zenon DEF t, TurnIsRead
<1> QED BY <1>1, <1>4, <1>5, <1>9, <1>10, Zenon

\* The loop against the grammar: between two items it has accepted, so far, what the
\* grammar has; in an item, what the grammar had before the item; the verdict on a %d at
\* the end is open; a format without an end is an error.
Between(p, L, G, s) ==
    /\ s.error = "no" /\ s.parsingString /\ s.i >= 1 /\ s.i <= L + 1
    /\ Closed(p, L, G, s.i - 1) /\ (G[s.i - 1] <=> Known(s.patterns))

InItem(p, L, G, s) ==
    /\ s.error = "no" /\ ~s.parsingString /\ s.i >= 2 /\ s.i <= L + 1 /\ Percent(p, s.i - 1)
    /\ Closed(p, L, G, s.i - 2) /\ (G[s.i - 2] <=> Known(s.patterns))

OpenEnd(p, L, G, s) ==
    /\ s.error = "undefined" /\ s.i > L /\ L >= 1 /\ Dee(p, L)
    /\ Closed(p, L, G, L) /\ (G[L] <=> Known(s.patterns))

Unclosed(p, L, G, s) ==
    /\ s.error = "yes"
    /\ \E b \in 0 .. L - 3 :
          Closed(p, L, G, b) /\ DateAt(p, b) /\ \A j \in b + 4 .. L : ~Closes(p, j)

ScanInv(A, p, L, G, s) ==
    /\ s \in Scans(A)
    /\ Between(p, L, G, s) \/ InItem(p, L, G, s) \/ OpenEnd(p, L, G, s) \/ Unclosed(p, L, G, s)

LEMMA RegularTurn ==
    ASSUME NEW p, NEW L \in Nat, NEW G, Grammar(p, L, G), NEW s, NEW t,
           s.i \in Nat, s.i <= L, Between(p, L, G, s),
           t.i = s.i + 1, t.error = "no", t.parsingString <=> ~Percent(p, s.i),
           Known(t.patterns) <=> Known(s.patterns)
    PROVE  Between(p, L, G, t) \/ InItem(p, L, G, t)
<1> DEFINE b == s.i - 1
<1>1. /\ b \in 0 .. L - 1 /\ b + 1 = s.i /\ t.i - 1 = b + 1 /\ t.i - 2 = b
      /\ t.i >= 2 /\ t.i >= 1 /\ t.i <= L + 1
  BY DEF Between
<1>2. Closed(p, L, G, b) /\ (G[b] <=> Known(s.patterns))
  BY DEF Between
<1> HIDE DEF b
<1>3. CASE ~Percent(p, s.i)
  <2>1. (G[b + 1] <=> G[b]) /\ Closed(p, L, G, b + 1)
    BY <1>1, <1>2, <1>3, RegularStep
  <2> QED BY <1>1, <1>2, <1>3, <2>1 DEF Between
<1>4. CASE Percent(p, s.i)
  BY <1>1, <1>2, <1>4 DEF InItem
<1> QED BY <1>3, <1>4

LEMMA ItemTurn ==
    ASSUME NEW p, NEW L \in Nat, NEW G, Grammar(p, L, G), NEW s, NEW t,
           s.i \in Nat, s.i <= L, InItem(p, L, G, s), t.parsingString,
           Known(t.patterns) <=> Known(s.patterns) /\ Symbol(p, s.i),
           ~Dates(p, L, s) => t.i = s.i + 1 /\ t.error = "no",
           Dates(p, L, s) /\ s.i = L => t.i = L + 2 /\ t.error = "undefined",
           Dates(p, L, s) /\ s.i < L => FormatEnds(p, L, s.i + 1, t)
    PROVE  Between(p, L, G, t) \/ OpenEnd(p, L, G, t) \/ Unclosed(p, L, G, t)
<1> DEFINE b == s.i - 2
<1>1. /\ b \in 0 .. L - 2 /\ b + 1 = s.i - 1 /\ b + 2 = s.i /\ b + 3 = s.i + 1
      /\ (b + 3 <= L <=> s.i < L) /\ (s.i < L <=> s.i # L) /\ b \in Nat
  BY DEF InItem
<1>2. Closed(p, L, G, b) /\ (G[b] <=> Known(s.patterns)) /\ Percent(p, b + 1)
  BY <1>1 DEF InItem
<1> HIDE DEF b
<1>3. DateAt(p, b) <=> Dee(p, s.i) /\ Opens(p, s.i + 1)
  BY <1>1, <1>2, Zenon DEF DateAt
<1>4. CASE ~(Dates(p, L, s) /\ s.i < L)
  <2>1. ~(b + 3 <= L /\ DateAt(p, b))
    BY <1>1, <1>3, <1>4 DEF Dates
  <2>2. (G[b + 2] <=> G[b] /\ Symbol(p, b + 2)) /\ Closed(p, L, G, b + 2)
    BY <1>1, <1>2, <2>1, ItemStep
  <2>3. G[s.i] <=> Known(t.patterns)
    BY <1>1, <1>2, <2>2
  <2>4. CASE Dates(p, L, s)
    <3>1. s.i = L /\ t.i = L + 2 /\ t.error = "undefined" /\ Dee(p, L)
      BY <1>1, <1>4, <2>4 DEF Dates
    <3>2. t.i > L /\ L >= 1
      BY <1>1, <3>1
    <3> QED BY <1>1, <2>2, <2>3, <3>1, <3>2 DEF OpenEnd
  <2>5. CASE ~Dates(p, L, s)
    <3>1. t.i = s.i + 1 /\ t.error = "no"
      BY <2>5
    <3>2. t.i - 1 = s.i /\ t.i >= 1 /\ t.i <= L + 1
      BY <3>1
    <3> QED BY <1>1, <2>2, <2>3, <3>1, <3>2 DEF Between
  <2> QED BY <2>4, <2>5
<1>5. CASE Dates(p, L, s) /\ s.i < L
  <2>1. DateAt(p, b) /\ b \in 0 .. L - 3 /\ (s.i + 1) + 1 = b + 4 /\ Symbol(p, s.i)
    <3>1. DateAt(p, b)
      BY <1>1, <1>3, <1>5 DEF Dates
    <3>2. Symbol(p, s.i)
      BY <1>5, OneCharacter DEF Dates
    <3> QED BY <1>1, <1>5, <3>1, <3>2
  <2>2. CASE \E e \in (s.i + 1) + 1 .. L :
                /\ Closes(p, e) /\ \A j \in (s.i + 1) + 1 .. e - 1 : ~Closes(p, j)
                /\ t.i = e + 1 /\ t.error = "no"
    <3>1. PICK e \in b + 4 .. L :
                /\ Closes(p, e) /\ \A j \in b + 4 .. e - 1 : ~Closes(p, j)
                /\ t.i = e + 1 /\ t.error = "no"
      BY <2>1, <2>2
    <3>2. (G[e] <=> G[b]) /\ Closed(p, L, G, e)
      BY <1>2, <2>1, <3>1, DateStep
    <3>3. t.i - 1 = e /\ t.i >= 1 /\ t.i <= L + 1
      BY <1>1, <3>1
    <3> QED BY <1>2, <2>1, <3>1, <3>2, <3>3 DEF Between
  <2>3. CASE /\ \A j \in (s.i + 1) + 1 .. L : ~Closes(p, j)
             /\ t.i > L /\ t.error = "yes"
    BY <1>2, <2>1, <2>3 DEF Unclosed
  <2>4. FormatEnds(p, L, s.i + 1, t)
    BY <1>5
  <2> QED BY <2>2, <2>3, <2>4 DEF FormatEnds
<1> QED BY <1>4, <1>5

\* A turn keeps the invariant and gets on.
LEMMA TurnKeeps ==
    ASSUME NEW A, NEW p \in Seq(A), NEW L \in Nat, Len(p) = L, NEW G, Grammar(p, L, G),
           NEW s, ScanInv(A, p, L, G, s), ~Over(p, s)
    PROVE  ScanInv(A, p, L, G, Turn(p, s)) /\ Turn(p, s).i > s.i
<1> DEFINE t == Turn(p, s)
<1>1. s \in Scans(A) /\ s.i \in Nat /\ s.i <= L /\ s.error # "yes"
  BY DEF ScanInv, Scans, Over
<1>2. (Between(p, L, G, s) \/ InItem(p, L, G, s)) /\ s.i >= 1 /\ s.error = "no"
  BY <1>1 DEF ScanInv, Between, InItem, OpenEnd, Unclosed
<1>3. TurnIsRead(A, p, L, s, t)
  BY <1>1, <1>2, TurnReads, Zenon
<1> HIDE DEF t
<1>4. t \in Scans(A) /\ t.i \in Nat
  BY <1>3 DEF TurnIsRead, Scans
<1>5. CASE Between(p, L, G, s)
  <2>1. /\ t.i = s.i + 1 /\ t.error = "no" /\ (t.parsingString <=> ~Percent(p, s.i))
        /\ Known(t.patterns) <=> Known(s.patterns)
    BY <1>3, <1>5 DEF TurnIsRead, Between
  <2>2. Between(p, L, G, t) \/ InItem(p, L, G, t)
    BY <1>1, <1>5, <2>1, RegularTurn, Zenon
  <2>3. t.i > s.i
    BY <1>1, <2>1
  <2> QED BY <1>4, <2>2, <2>3, Zenon DEF ScanInv, t
<1>6. CASE InItem(p, L, G, s)
  <2>1. /\ t.parsingString /\ (Known(t.patterns) <=> Known(s.patterns) /\ Symbol(p, s.i))
        /\ ~Dates(p, L, s) => t.i = s.i + 1 /\ t.error = "no"
        /\ Dates(p, L, s) /\ s.i = L => t.i = L + 2 /\ t.error = "undefined"
        /\ Dates(p, L, s) /\ s.i < L => FormatEnds(p, L, s.i + 1, t)
    BY <1>3, <1>6 DEF TurnIsRead, InItem
  <2>2. Between(p, L, G, t) \/ OpenEnd(p, L, G, t) \/ Unclosed(p, L, G, t)
    BY <1>1, <1>6, <2>1, ItemTurn, Zenon
  <2>3. t.i > s.i
    <3>1. CASE ~Dates(p, L, s)
      BY <1>1, <2>1, <3>1
    <3>2. CASE Dates(p, L, s) /\ s.i = L
      BY <1>1, <2>1, <3>2
    <3>3. CASE Dates(p, L, s) /\ s.i < L
      <4>1. FormatEnds(p, L, s.i + 1, t)
        BY <2>1, <3>3
      <4>2. CASE t.i > L
        BY <1>1, <1>4, <4>2
      <4>3. CASE \E e \in (s.i + 1) + 1 .. L : t.i = e + 1
        BY <1>1, <1>4, <4>3
      <4> QED BY <4>1, <4>2, <4>3, Zenon DEF FormatEnds
    <3> QED BY <1>1, <3>1, <3>2, <3>3
  <2> QED BY <1>4, <2>2, <2>3, Zenon DEF ScanInv, t
<1> QED BY <1>2, <1>5, <1>6, Zenon

\* The loop is over after as many turns as there are characters.
LEMMA ScanEnds ==
    ASSUME NEW A, NEW p \in Seq(A), NEW L \in Nat, Len(p) = L, NEW G, Grammar(p, L, G)
    PROVE  ScanInv(A, p, L, G, Scan(p)) /\ Over(p, Scan(p))
<1> DEFINE at(n) == ScanAfter(p)[n]
           Good(n) == ScanInv(A, p, L, G, at(n)) /\ (Over(p, at(n)) \/ at(n).i >= n + 1)
           S == {n \in Nat : n <= L => Good(n)}
<1>1. \A k \in 0 .. L : at(k) = IF k = 0 THEN Scanner
                                ELSE IF Over(p, at(k - 1)) THEN at(k - 1)
                                ELSE Turn(p, at(k - 1))
  <2>1. Len(p) \in Nat
    OBVIOUS
  <2> QED BY <2>1, ScanUnfolds
<1> HIDE DEF at
<1>2. Good(0)
  <2>1. 0 \in 0 .. L
    OBVIOUS
  <2>2. at(0) = Scanner
    BY <1>1, <2>1
  <2>3. Scanner \in Scans(A)
    <3>1. <<>> \in Seq(A) /\ <<>> \in Seq(Items(A))
      OBVIOUS
    <3> QED BY <3>1 DEF Scans, Scanner
  <2>4. Known(<<>>)
    BY DEF Known
  <2>5. G[0]
    BY <2>1 DEF Grammar, Rule
  <2>6. Closed(p, L, G, 0)
    BY DEF Closed
  <2>7. /\ Scanner.error = "no" /\ Scanner.parsingString /\ Scanner.i = 1
        /\ Scanner.patterns = <<>>
    BY DEF Scanner
  <2>8. Between(p, L, G, Scanner)
    BY <2>4, <2>5, <2>6, <2>7 DEF Between
  <2> QED BY <2>2, <2>3, <2>7, <2>8 DEF ScanInv
<1>3. ASSUME NEW n \in Nat, n + 1 <= L, Good(n) PROVE Good(n + 1)
  <2>1. n + 1 \in 0 .. L /\ (n + 1) - 1 = n /\ n + 1 # 0
    BY <1>3
  <2>2. at(n + 1) = IF Over(p, at(n)) THEN at(n) ELSE Turn(p, at(n))
    BY <1>1, <2>1
  <2>3. CASE Over(p, at(n))
    BY <1>3, <2>2, <2>3
  <2>4. CASE ~Over(p, at(n))
    <3>1. at(n + 1) = Turn(p, at(n))
      BY <2>2, <2>4
    <3>2. ScanInv(A, p, L, G, at(n))
      BY <1>3
    <3>3. ScanInv(A, p, L, G, Turn(p, at(n))) /\ Turn(p, at(n)).i > at(n).i
      BY <2>4, <3>2, TurnKeeps, Zenon
    <3>4. at(n).i \in Nat /\ at(n).i >= n + 1
      BY <1>3, <2>4 DEF ScanInv, Scans
    <3>5. at(n + 1).i \in Nat /\ at(n + 1).i > at(n).i
      BY <3>1, <3>3 DEF ScanInv, Scans
    <3>6. at(n + 1).i >= (n + 1) + 1
      BY <3>4, <3>5
    <3> QED BY <3>1, <3>3, <3>6
  <2> QED BY <2>3, <2>4
<1> HIDE DEF Good
<1>4. 0 \in S
  BY <1>2
<1>5. ASSUME NEW n \in Nat, n \in S PROVE n + 1 \in S
  BY <1>3, <1>5
<1>6. Nat \subseteq S
  <2> HIDE DEF S
  <2> QED BY <1>4, <1>5, SetInduction
<1>7. Good(L)
  BY <1>6
<1>8. Scan(p) = at(L)
  BY Zenon DEF Scan, at
<1>9. at(L).i \in Nat
  BY <1>7 DEF Good, ScanInv, Scans
<1>10. Over(p, at(L))
  BY <1>7, <1>9 DEF Good, Over
<1> QED BY <1>7, <1>8, <1>10 DEF Good

\* A % at the end plays no part in the prefixes before it.
LEMMA PrefixAlike ==
    ASSUME NEW A, NEW p \in Seq(A), NEW L \in Nat, Len(p) = L + 1, Percent(p, L + 1)
    PROVE  LET q == SubSeq(p, 1, L)
           IN q \in Seq(A) /\ Len(q) = L /\ (PlainUpTo(q)[L] <=> PlainUpTo(p)[L])
<1> DEFINE q == SubSeq(p, 1, L)
           G == PlainUpTo(p)
           H == PlainUpTo(q)
<1>1. q \in Seq(A) /\ Len(q) = L /\ \A k \in 1 .. L : q[k] = p[k]
  <2>1. \A k \in 1 .. L : p[k] \in A
    <3>1. \A k \in 1 .. L : k \in 1 .. Len(p)
      OBVIOUS
    <3> QED BY <3>1, ElementOfSeq
  <2>2. Len(q) = IF 1 <= L THEN L - 1 + 1 ELSE 0
    BY <2>1, SubSeqProperties
  <2>3. \A k \in 1 .. L - 1 + 1 : q[k] = p[1 + k - 1]
    BY <2>1, SubSeqProperties
  <2>4. q \in Seq(A)
    BY <2>1, SubSeqProperties
  <2> HIDE DEF q
  <2> QED BY <2>2, <2>3, <2>4
<1> HIDE DEF q
<1>2. Grammar(p, L + 1, G) /\ Grammar(q, L, H)
  <2>1. L + 1 \in Nat
    OBVIOUS
  <2> QED BY <1>1, <2>1, PlainUnfolds
<1> HIDE DEF G, H
<1>3. \A k \in 1 .. L : /\ Percent(q, k) <=> Percent(p, k)
                        /\ Dee(q, k) <=> Dee(p, k)
                        /\ Opens(q, k) <=> Opens(p, k)
                        /\ Closes(q, k) <=> Closes(p, k)
                        /\ Symbol(q, k) <=> Symbol(p, k)
  BY <1>1, Zenon DEF Percent, Dee, Opens, Closes, Symbol
<1>4. \A a \in 0 .. L - 3 : DateAt(q, a) <=> DateAt(p, a)
  <2> SUFFICES ASSUME NEW a \in 0 .. L - 3 PROVE DateAt(q, a) <=> DateAt(p, a)
    OBVIOUS
  <2>1. a + 1 \in 1 .. L /\ a + 2 \in 1 .. L /\ a + 3 \in 1 .. L
    OBVIOUS
  <2> QED BY <1>3, <2>1, Zenon DEF DateAt
<1> DEFINE S == {n \in Nat : \A k \in 0 .. n : k <= L => (H[k] <=> G[k])}
<1>5. 0 \in S
  <2>1. 0 \in 0 .. L /\ 0 \in 0 .. L + 1
    OBVIOUS
  <2>2. H[0] /\ G[0]
    BY <1>2, <2>1 DEF Grammar, Rule
  <2> QED BY <2>2
<1>6. ASSUME NEW m \in Nat, m \in S PROVE m + 1 \in S
  <2>1. \A k \in 0 .. m : k <= L => (H[k] <=> G[k])
    BY <1>6
  <2> DEFINE n == m + 1
  <2>2. ASSUME n <= L PROVE H[n] <=> G[n]
    <3>1. n \in 0 .. L /\ n \in 0 .. L + 1 /\ n \in 1 .. L /\ n - 1 \in 0 .. m /\ n - 1 <= L
          /\ n < L + 1 /\ n \in Nat
      BY <2>2
    <3>2. (H[n] <=> Rule(q, L, H, n)) /\ (G[n] <=> Rule(p, L + 1, G, n))
      BY <1>2, <3>1 DEF Grammar
    <3>3. n >= 1 => ((H[n - 1] /\ ~Percent(q, n)) <=> (G[n - 1] /\ ~Percent(p, n)))
      BY <1>3, <2>1, <3>1
    <3>4. n >= 2 => ((H[n - 2] /\ Percent(q, n - 1) /\ Symbol(q, n) /\ ~(n < L /\ DateAt(q, n - 2)))
            <=> (G[n - 2] /\ Percent(p, n - 1) /\ Symbol(p, n) /\ ~(n < L + 1 /\ DateAt(p, n - 2))))
      <4> SUFFICES ASSUME n >= 2
                   PROVE  (H[n - 2] /\ Percent(q, n - 1) /\ Symbol(q, n)
                              /\ ~(n < L /\ DateAt(q, n - 2)))
                          <=> (G[n - 2] /\ Percent(p, n - 1) /\ Symbol(p, n)
                              /\ ~(n < L + 1 /\ DateAt(p, n - 2)))
        OBVIOUS
      <4>1. n - 1 \in 1 .. L /\ n - 2 \in 0 .. m /\ n - 2 <= L /\ (n < L => n - 2 \in 0 .. L - 3)
        BY <3>1
      <4>2. ~(n < L) => ~DateAt(p, n - 2)
        <5> SUFFICES ASSUME ~(n < L) PROVE ~DateAt(p, n - 2)
          OBVIOUS
        <5>1. (n - 2) + 3 = L + 1
          BY <3>1
        <5>2. ~Opens(p, L + 1)
          BY OneCharacter
        <5> QED BY <5>1, <5>2 DEF DateAt
      <4>3. H[n - 2] <=> G[n - 2]
        BY <2>1, <4>1
      <4>4. (Percent(q, n - 1) <=> Percent(p, n - 1)) /\ (Symbol(q, n) <=> Symbol(p, n))
        BY <1>3, <3>1, <4>1
      <4>5. n < L => (DateAt(q, n - 2) <=> DateAt(p, n - 2))
        BY <1>4, <4>1
      <4> HIDE DEF n
      <4> QED BY <3>1, <4>2, <4>3, <4>4, <4>5
    <3>5. ASSUME NEW a \in 0 .. n - 4
          PROVE  (H[a] /\ DateAt(q, a) /\ Closes(q, n) /\ \A k \in a + 4 .. n - 1 : ~Closes(q, k))
                   <=> (G[a] /\ DateAt(p, a) /\ Closes(p, n)
                          /\ \A k \in a + 4 .. n - 1 : ~Closes(p, k))
      <4>1. a \in 0 .. m /\ a <= L /\ a \in 0 .. L - 3
        BY <3>1
      <4>2. \A k \in a + 4 .. n - 1 : k \in 1 .. L
        BY <3>1
      <4>3. (H[a] <=> G[a]) /\ (DateAt(q, a) <=> DateAt(p, a)) /\ (Closes(q, n) <=> Closes(p, n))
        BY <1>3, <1>4, <2>1, <3>1, <4>1
      <4>4. (\A k \in a + 4 .. n - 1 : ~Closes(q, k)) <=> (\A k \in a + 4 .. n - 1 : ~Closes(p, k))
        <5> HIDE DEF n
        <5> QED BY <1>3, <4>2
      <4> HIDE DEF n
      <4> QED BY <4>3, <4>4
    <3>6. n # 0
      OBVIOUS
    <3> HIDE DEF n
    <3>7. Rule(q, L, H, n) <=> Rule(p, L + 1, G, n)
      BY <3>3, <3>4, <3>5, <3>6, Zenon DEF Rule
    <3> QED BY <3>2, <3>7
  <2>3. \A k \in 0 .. n : k = n \/ k \in 0 .. m
    OBVIOUS
  <2> HIDE DEF n
  <2>4. \A k \in 0 .. n : k <= L => (H[k] <=> G[k])
    BY <2>1, <2>2, <2>3
  <2> QED BY <2>4 DEF n
<1>7. Nat \subseteq S
  <2> HIDE DEF S
  <2> QED BY <1>5, <1>6, SetInduction
<1>8. H[L] <=> G[L]
  <2>1. L \in S /\ L \in 0 .. L
    BY <1>7
  <2> QED BY <2>1
<1> QED BY <1>1, <1>8 DEF q, G, H

\* The verdict of init on every pattern.
LEMMA Verdict ==
    ASSUME NEW A, NEW p \in Seq(A)
    PROVE  VerdictOf(p)
<1> DEFINE L == Len(p)
           G == PlainUpTo(p)
           s == Scan(p)
<1>0. L \in Nat /\ L = Len(p)
  OBVIOUS
<1>00. Plain(p) <=> G[L]
  BY Zenon DEF Plain
<1> HIDE DEF L
<1>1. Grammar(p, L, G)
  BY <1>0, PlainUnfolds
<1>2. G[L] \in BOOLEAN
  <2>1. G[L] = Production(p, G, L)
    <3>1. L \in 0 .. L
      BY <1>0
    <3> QED BY <1>0, <3>1, ProductionAt
  <2> QED BY <2>1, Zenon DEF Production
<1> HIDE DEF G
<1>3. ScanInv(A, p, L, G, s) /\ Over(p, s)
  BY <1>0, <1>1, ScanEnds
<1> HIDE DEF s
<1>4. FormatterError(p) = IF Known(s.patterns) THEN s.error ELSE "yes"
  <2>1. /\ Flush(s).error = s.error
        /\ Known(Flush(s).patterns) <=> Known(s.patterns)
    BY <1>3, FlushKeeps DEF ScanInv
  <2>2. FormatterError(p) = IF Known(Flush(s).patterns) THEN Flush(s).error ELSE "yes"
    BY Zenon DEF FormatterError, s
  <2> QED BY <2>1, <2>2
<1>5. s.i \in Nat /\ FormatterError(p) \in {"no", "undefined", "yes"}
  BY <1>3, <1>4 DEF ScanInv, Scans
<1>6. /\ LonePercent(p) => L >= 1 /\ Percent(p, L)
      /\ L >= 1 /\ Percent(p, L) => (LonePercent(p) <=> G[L - 1])
  <2>1. p # <<>> <=> L >= 1
    BY <1>0, EmptySeq
  <2>2. p[Len(p)] = "%" <=> Percent(p, L)
    BY <1>0, Zenon DEF Percent
  <2>3. ASSUME L >= 1, Percent(p, L)
        PROVE  Plain(SubSeq(p, 1, Len(p) - 1)) <=> G[L - 1]
    <3> DEFINE n == L - 1
    <3>1. n \in Nat /\ Len(p) = n + 1 /\ Len(p) - 1 = n /\ n + 1 = L
      BY <1>0, <2>3
    <3> HIDE DEF n
    <3>2. Percent(p, n + 1)
      BY <2>3, <3>1
    <3> DEFINE q == SubSeq(p, 1, n)
    <3>3. q \in Seq(A) /\ Len(q) = n /\ (PlainUpTo(q)[n] <=> PlainUpTo(p)[n])
      BY <3>1, <3>2, PrefixAlike
    <3> HIDE DEF q
    <3>4. Plain(q) <=> PlainUpTo(q)[n]
      BY <3>3, Zenon DEF Plain
    <3> QED BY <3>1, <3>3, <3>4, Zenon DEF q, G, n
  <2>4. LonePercent(p) <=> p # <<>> /\ p[Len(p)] = "%" /\ Plain(SubSeq(p, 1, Len(p) - 1))
    BY Zenon DEF LonePercent
  <2> QED BY <2>1, <2>2, <2>3, <2>4, Zenon
<1>7. CASE Between(p, L, G, s)
  <2>1. s.i = L + 1 /\ s.i - 1 = L /\ s.error = "no"
    BY <1>0, <1>3, <1>5, <1>7 DEF Between, Over
  <2>2. Closed(p, L, G, L) /\ (G[L] <=> Known(s.patterns))
    BY <1>7, <2>1 DEF Between
  <2>3. L \in 0 .. L
    BY <1>0
  <2>4. ~LonePercent(p)
    <3>1. L >= 1 => ~(G[L - 1] /\ Percent(p, L))
      BY <1>0, <2>2, <2>3, NothingUnderWay
    <3> QED BY <1>6, <3>1, Zenon
  <2>5. FormatterError(p) # "undefined" /\ (FormatterError(p) = "no" <=> G[L])
    BY <1>4, <2>1, <2>2
  <2> QED BY <1>00, <1>5, <2>4, <2>5, Zenon DEF VerdictOf
<1>8. CASE InItem(p, L, G, s)
  <2>1. s.i = L + 1 /\ s.i - 1 = L /\ s.i - 2 = L - 1 /\ s.error = "no"
    BY <1>0, <1>3, <1>5, <1>8 DEF InItem, Over
  <2>2. Closed(p, L, G, L - 1) /\ (G[L - 1] <=> Known(s.patterns)) /\ Percent(p, L) /\ L >= 1
    <3>1. L >= 1
      BY <1>0, <1>8, <2>1 DEF InItem
    <3>2. Percent(p, s.i - 1) /\ Closed(p, L, G, s.i - 2) /\ (G[s.i - 2] <=> Known(s.patterns))
      BY <1>8, Zenon DEF InItem
    <3> QED BY <2>1, <3>1, <3>2
  <2>3. L - 1 \in 0 .. L - 1 /\ (L - 1) + 1 = L
    BY <1>0, <2>2
  <2>4. ~G[L]
    <3>1. ~G[(L - 1) + 1]
      <4>1. Percent(p, (L - 1) + 1)
        BY <2>2, <2>3
      <4> QED BY <1>0, <1>1, <2>2, <2>3, <4>1, NotBehindPercent
    <3> QED BY <2>3, <3>1
  <2>5. LonePercent(p) <=> G[L - 1]
    BY <1>6, <2>2
  <2>6. FormatterError(p) # "undefined" /\ (FormatterError(p) = "no" <=> G[L - 1])
    BY <1>4, <2>1, <2>2
  <2> QED BY <1>00, <1>5, <2>4, <2>5, <2>6, Zenon DEF VerdictOf
<1>9. CASE OpenEnd(p, L, G, s)
  <2>1. s.error = "undefined" /\ Dee(p, L) /\ (G[L] <=> Known(s.patterns)) /\ L >= 1
    BY <1>9 DEF OpenEnd
  <2>2. ~LonePercent(p)
    <3>1. ~Percent(p, L)
      BY <2>1, OneCharacter, Zenon
    <3> QED BY <1>6, <3>1, Zenon
  <2>3. p[Len(p)] = "d"
    BY <1>0, <2>1, Zenon DEF Dee
  <2>4. /\ FormatterError(p) = "undefined" <=> G[L]
        /\ FormatterError(p) # "no"
    BY <1>4, <2>1
  <2> QED BY <1>00, <1>5, <2>2, <2>3, <2>4, Zenon DEF VerdictOf
<1>10. CASE Unclosed(p, L, G, s)
  <2>1. PICK b \in 0 .. L - 3 :
            Closed(p, L, G, b) /\ DateAt(p, b) /\ \A j \in b + 4 .. L : ~Closes(p, j)
    BY <1>10 DEF Unclosed
  <2>2. L + 1 \in b + 4 .. L + 1 /\ (L + 1) - 1 = L /\ L \in b + 1 .. L
        /\ (L = b + 3 \/ L - 1 \in b + 1 .. L)
    BY <1>0
  <2>3. \A n \in b + 1 .. (L + 1) - 1 : ~G[n]
    <3>1. \A j \in b + 4 .. (L + 1) - 1 : ~Closes(p, j)
      BY <2>1, <2>2
    <3> QED BY <1>0, <1>1, <2>1, <2>2, <3>1, NotInDate
  <2>4. \A n \in b + 1 .. L : ~G[n]
    BY <2>2, <2>3
  <2>5. ~G[L]
    BY <2>2, <2>4
  <2>6. ~LonePercent(p)
    <3>1. L = b + 3 => ~Percent(p, L)
      BY <2>1, OneCharacter DEF DateAt
    <3>2. L - 1 \in b + 1 .. L => ~G[L - 1]
      BY <2>4
    <3> QED BY <1>6, <2>2, <3>1, <3>2, Zenon
  <2>7. FormatterError(p) = "yes"
    BY <1>4, <1>10 DEF Unclosed
  <2>8. FormatterError(p) # "undefined" /\ FormatterError(p) # "no"
    BY <2>7
  <2> QED BY <1>00, <2>5, <2>6, <2>7, <2>8, Zenon DEF VerdictOf
<1> QED BY <1>3, <1>7, <1>8, <1>9, <1>10, Zenon DEF ScanInv

-----------------------------------------------------------------------------
(* The formatters in force                                                    *)

FormattersUsable == \A n \in DOMAIN loggers \ touched : Usable(loggers[n].m_formatter)

LEMMA FormattersInvariant == Spec => []FormattersUsable
<1>1. Init => FormattersUsable
  <2> SUFFICES ASSUME Init PROVE FormattersUsable
    OBVIOUS
  <2> DEFINE a == WithFormatter(NewAppender("StdoutLogAppender", NoFile, DEBUG), NewLogger(<<>>))
             r == NewLogger(<<a>>)
  <2>1. loggers = [n \in {Root} |-> r]
    BY DEF Init
  <2> HIDE DEF a
  <2>2. r.m_formatter = DefaultPattern
    BY DEF NewLogger
  <2>3. Usable(DefaultPattern)
    BY ConfigLogAssumption DEF Usable
  <2> HIDE DEF r
  <2> QED BY <2>1, <2>2, <2>3 DEF FormattersUsable
<1>2. LogInv /\ FormattersUsable /\ [Next]_vars => FormattersUsable'
  <2> SUFFICES ASSUME LogInv, FormattersUsable, [Next]_vars PROVE FormattersUsable'
    OBVIOUS
  <2>1. TypeOK /\ PlaceInv
    BY DEF LogInv
  <2>2. ASSUME NEW t \in Threads, Step(t) \/ Begin(t) PROVE FormattersUsable'
    <3>1. LoggersStep(t) /\ touched \subseteq touched'
      BY <2>1, <2>2, StepLoggers, TouchedGrows
    <3> QED BY <3>1 DEF LoggersStep, FormattersUsable, Usable
  <2>3. CASE UNCHANGED vars
    BY <2>3 DEF vars, logVars, FormattersUsable, Usable
  <2> QED BY <2>2, <2>3 DEF Next
<1> QED BY <1>1, <1>2, LogInvariant, PTL DEF Spec

\* LogFormatter::init accepts the documented grammar without its escape and, beyond it, a %
\* at the end; its verdict is open only for a %d at the end; and the formatter of every
\* logger that the program has not changed itself, whatever was configured, is a pattern
\* of this kind (LogFormatter::init, setFormatter).
THEOREM PatternsAreGrammatical == Spec => []FormatterGrammar
<1>1. \A p \in BoundedPatterns : VerdictOf(p)
  <2> SUFFICES ASSUME NEW n \in 0 .. MaxPattern, NEW p \in [1 .. n -> Alphabet]
               PROVE  VerdictOf(p)
    BY DEF BoundedPatterns
  <2>1. n \in Nat
    BY LogFormatterAssumption
  <2>2. p \in Seq(Alphabet)
    BY <2>1
  <2> QED BY <2>2, Verdict
<1>2. LogInv /\ FormattersUsable => FormatterGrammar
  <2> SUFFICES ASSUME LogInv, FormattersUsable, NEW n \in DOMAIN loggers \ touched
               PROVE  Plain(loggers[n].m_formatter) \/ LonePercent(loggers[n].m_formatter)
    BY <1>1, Zenon DEF FormatterGrammar
  <2> DEFINE p == loggers[n].m_formatter
  <2>1. p \in Seq(Alphabet)
    BY DEF LogInv, TypeOK, Logger
  <2>2. VerdictOf(p)
    BY <2>1, Verdict
  <2>3. FormatterError(p) # "yes"
    BY DEF FormattersUsable, Usable
  <2>4. FormatterError(p) \in {"no", "undefined", "yes"}
    <3>1. Scan(p).error \in {"no", "undefined", "yes"} /\ Scan(p) \in Scans(Alphabet)
      <4>1. Len(p) \in Nat
        BY <2>1
      <4>2. Grammar(p, Len(p), PlainUpTo(p))
        BY <4>1, PlainUnfolds
      <4>3. ScanInv(Alphabet, p, Len(p), PlainUpTo(p), Scan(p))
        BY <2>1, <4>1, <4>2, ScanEnds
      <4> QED BY <4>3 DEF ScanInv, Scans
    <3>2. Flush(Scan(p)).error = Scan(p).error
      BY <3>1, FlushKeeps
    <3> QED BY <3>1, <3>2, Zenon DEF FormatterError
  <2> QED BY <2>2, <2>3, <2>4, Zenon DEF VerdictOf
<1> QED BY <1>2, LogInvariant, FormattersInvariant, PTL

===============================================================================
