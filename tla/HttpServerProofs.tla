--------------------------- MODULE HttpServerProofs ---------------------------
(***************************************************************************)
(* Proofs about HttpServer: type correctness; that dispatch is what the    *)
(* administrator's calls say; and that a lone request reaches the servlet  *)
(* as it was sent, and is answered exactly if it is one to answer.         *)
(***************************************************************************)
EXTENDS HttpServer, SequenceTheorems, WellFoundedInduction, TLAPS

-----------------------------------------------------------------------------
(* Sequences without one element, and smallest elements                      *)

LEMMA Least ==
    ASSUME NEW S, S \subseteq Nat, S # {}
    PROVE  \E x \in S : \A y \in S : x <= y
<1> DEFINE R == OpToRel(<, Nat)
<1>1. IsWellFoundedOn(R, Nat)
  BY NatLessThanWellFounded, Zenon
<1>2. PICK x \in S : \A y \in S : ~ (<<y, x>> \in R)
  <2> HIDE DEF R
  <2> QED BY <1>1, WFMin
<1>3. ASSUME NEW y \in S PROVE x <= y
  <2>1. <<y, x>> \notin {ss \in Nat \X Nat : ss[1] < ss[2]}
    BY <1>2, Zenon DEF OpToRel
  <2> HIDE DEF R
  <2> QED BY <2>1
<1> HIDE DEF R
<1> QED BY <1>3

LEMMA MinIsLeast ==
    ASSUME NEW S, S \subseteq Nat, S # {}
    PROVE  Min(S) \in S /\ \A y \in S : Min(S) <= y
BY Least, Zenon DEF Min

LEMMA MinUnique ==
    ASSUME NEW S, S \subseteq Nat, NEW m \in S, \A y \in S : m <= y
    PROVE  Min(S) = m
<1>1. Min(S) \in S /\ Min(S) <= m
  BY MinIsLeast, Zenon
<1>2. m <= Min(S) /\ m \in Nat /\ Min(S) \in Nat
  BY <1>1
<1> HIDE DEF Min
<1> QED BY <1>1, <1>2

LEMMA SeqMonotone ==
    ASSUME NEW S, NEW T, S \subseteq T
    PROVE  Seq(S) \subseteq Seq(T)
OBVIOUS

\* RemoveAt leaves out one element and keeps the order of the others.
LEMMA RemoveAtFacts ==
    ASSUME NEW E, NEW s \in Seq(E), NEW k \in 1 .. Len(s)
    PROVE  /\ RemoveAt(s, k) \in Seq(E)
           /\ Len(RemoveAt(s, k)) = Len(s) - 1
           /\ \A i \in 1 .. Len(s) - 1 :
                 RemoveAt(s, k)[i] = IF i < k THEN s[i] ELSE s[i + 1]
<1> DEFINE a == SubSeq(s, 1, k - 1)
           b == SubSeq(s, k + 1, Len(s))
<1>1. Len(s) \in Nat /\ k \in Nat
  OBVIOUS
<1>2. a \in Seq(E) /\ Len(a) = k - 1 /\ \A i \in 1 .. k - 1 : a[i] = s[i]
  OBVIOUS
<1>3. b \in Seq(E) /\ Len(b) = Len(s) - k
      /\ \A i \in 1 .. Len(s) - k : b[i] = s[k + i]
  OBVIOUS
<1>4. RemoveAt(s, k) = a \o b
  BY DEF RemoveAt
<1> HIDE DEF a, b
<1>5. /\ a \o b \in Seq(E) /\ Len(a \o b) = Len(s) - 1
      /\ \A i \in 1 .. Len(s) - 1 :
            (a \o b)[i] = IF i <= k - 1 THEN a[i] ELSE b[i - (k - 1)]
  BY <1>1, <1>2, <1>3
<1>6. ASSUME NEW i \in 1 .. Len(s) - 1
      PROVE  (a \o b)[i] = IF i < k THEN s[i] ELSE s[i + 1]
  <2>1. CASE i < k
    BY <1>1, <1>2, <1>5, <2>1
  <2>2. CASE ~(i < k)
    <3>1. i - (k - 1) \in 1 .. Len(s) - k /\ k + (i - (k - 1)) = i + 1
      BY <1>1, <2>2
    <3> QED BY <1>1, <1>3, <1>5, <2>2, <3>1
  <2> QED BY <2>1, <2>2
<1> QED BY <1>4, <1>5, <1>6

-----------------------------------------------------------------------------
(* Type correctness                                                          *)

Entry == [uri : Range(Globs), servlet : Servlets]

LEMMA ServletsAre ==
    /\ Len(Globs) \in Nat /\ MaxAdmin \in Nat /\ Servlets \subseteq Nat
    /\ \A n \in Nat : n <= MaxAdmin + Len(Globs) => n \in Servlets
<1>1. Len(Globs) \in Nat /\ MaxAdmin \in Nat
  BY HttpServerAssumption
<1> QED BY <1>1 DEF Servlets

LEMMA FreshIsServlet ==
    ASSUME TypeOK, Len(history) < MaxAdmin + Len(Globs)
    PROVE  Fresh \in Servlets /\ Fresh \in Nat
<1>1. Len(history) \in Nat
  BY DEF TypeOK
<1> QED BY <1>1, ServletsAre DEF Fresh

LEMMA InitTypes == Init => TypeOK
<1> SUFFICES ASSUME Init PROVE TypeOK
  OBVIOUS
<1> DEFINE n == Len(Globs)
<1>1. n \in Nat /\ \A i \in 1 .. n : Globs[i] \in Range(Globs)
  BY HttpServerAssumption DEF Range
<1>2. \A i \in 0 .. n : i \in Servlets
  BY <1>1, ServletsAre
<1>3. globs_ \in Seq([uri : Range(Globs), servlet : Servlets])
  BY <1>1, <1>2 DEF Init
<1>4. history \in Seq([table : {"datas", "globs", "default"}, op : {"add", "del"}, uri : Uri])
  BY <1>1 DEF Init, Uri
<1>5. Len(history) = n
  BY <1>1 DEF Init
<1>6. \A c \in Clients :
        answers[c] \in Seq([servlet : Servlets,
                            request : {a.request : a \in Range(answers[c])}])
  BY DEF Init
<1>7. datas_ \in [DOMAIN datas_ -> Servlets] /\ DOMAIN datas_ \subseteq Uris
  BY DEF Init
<1> HIDE DEF n
<1>8. /\ hooked \in BOOLEAN /\ m_socks \subseteq Addrs /\ open \subseteq Addrs
      /\ m_isStop \in BOOLEAN /\ started \in BOOLEAN
      /\ loop \in [Addrs -> {"none", "ready", "check", "accept", "wait", "woken", "blocked",
                             "late", "over"}]
      /\ stopper \in [pc : {"none", "ready", "cancel", "hook", "close", "over"},
                      todo : SUBSET Addrs]
      /\ backlog \in [Addrs -> Seq(Clients)]
  <2>1. /\ hooked \in BOOLEAN
        /\ m_socks = {} /\ open = {} /\ m_isStop = TRUE /\ started = FALSE
        /\ loop = [a \in Addrs |-> "none"]
        /\ stopper = [pc |-> "none", todo |-> {}]
        /\ backlog = [a \in Addrs |-> <<>>]
    BY DEF Init
  <2>2. <<>> \in Seq(Clients)
    OBVIOUS
  <2>3. backlog \in [Addrs -> Seq(Clients)]
    BY <2>1, <2>2
  <2> QED BY <2>1, <2>3
<1>9. /\ pc \in [Clients -> {"out", "backlog", "recv", "handle", "respond", "stuck",
                             "refused", "over"}]
      /\ aborted \in [Clients -> BOOLEAN] /\ cut \in [Clients -> BOOLEAN]
      /\ chunk \in [Clients -> BOOLEAN]
      /\ servlet \in [Clients -> Servlets]
  BY <1>1, <1>2 DEF Init
<1>10. default_ \in Servlets /\ Len(history) \in Servlets
  BY <1>1, <1>2, <1>5 DEF Init
<1>11. DOMAIN answers = Clients
  BY DEF Init
<1> QED BY <1>3, <1>4, <1>6, <1>7, <1>8, <1>9, <1>10, <1>11 DEF TypeOK

LEMMA DropIsEntries ==
    ASSUME TypeOK, NEW g
    PROVE  Drop(g) \in Seq(Entry)
<1> DEFINE at == {i \in 1 .. Len(globs_) : globs_[i].uri = g}
<1>1. globs_ \in Seq(Entry)
  BY DEF TypeOK, Entry
<1>2. CASE at = {}
  BY <1>1, <1>2 DEF Drop
<1>3. CASE at # {}
  <2>1. at \subseteq Nat
    OBVIOUS
  <2>2. Min(at) \in at
    <3> HIDE DEF at
    <3> QED BY <1>3, <2>1, MinIsLeast
  <2>3. Min(at) \in 1 .. Len(globs_)
    BY <2>2
  <2>4. Drop(g) = RemoveAt(globs_, Min(at))
    BY <1>3 DEF Drop
  <2> QED BY <1>1, <2>3, <2>4, RemoveAtFacts
<1> QED BY <1>2, <1>3

LEMMA AdministerTypes == TypeOK /\ Administer => TypeOK'
<1> SUFFICES ASSUME TypeOK, Administer PROVE TypeOK'
  OBVIOUS
<1>1. Fresh \in Servlets
  BY FreshIsServlet DEF Administer
<1>2. UNCHANGED <<hooked, m_socks, open, m_isStop, started, loop, stopper, backlog, pc, rest,
                  sent, aborted, parser, chunk, cut, servlet, answers>>
  BY DEF Administer, serverVars, clientVars
<1>3. ASSUME NEW t \in {"datas", "globs", "default"}, NEW o \in {"add", "del"},
             NEW u \in Uri, Record(t, o, u)
      PROVE  /\ history' \in Seq([table : {"datas", "globs", "default"},
                                  op : {"add", "del"}, uri : Uri])
             /\ Len(history') \in Servlets
  <2>1. history \in Seq([table : {"datas", "globs", "default"}, op : {"add", "del"}, uri : Uri])
    BY DEF TypeOK
  <2>2. Len(history') = Fresh
    BY <1>3, <2>1 DEF Record, Fresh
  <2> QED BY <1>1, <1>3, <2>1, <2>2 DEF Record
<1>4. Uris \subseteq Uri /\ Range(Globs) \subseteq Uri /\ <<>> \in Uri
  BY DEF Uri
<1>5. /\ datas_' \in [DOMAIN datas_' -> Servlets] /\ DOMAIN datas_' \subseteq Uris
      /\ globs_' \in Seq(Entry) /\ default_' \in Servlets
      /\ history' \in Seq([table : {"datas", "globs", "default"}, op : {"add", "del"}, uri : Uri])
      /\ Len(history') \in Servlets
  <2>0. /\ datas_ \in [DOMAIN datas_ -> Servlets] /\ DOMAIN datas_ \subseteq Uris
        /\ globs_ \in Seq(Entry) /\ default_ \in Servlets
    BY DEF TypeOK, Entry
  <2>1. ASSUME NEW u \in Uris, AddServlet(u) PROVE <1>5!:
    <3>1. datas_' \in [DOMAIN datas_' -> Servlets] /\ DOMAIN datas_' \subseteq Uris
      BY <1>1, <2>0, <2>1 DEF AddServlet
    <3> QED BY <1>3, <1>4, <2>0, <2>1, <3>1 DEF AddServlet
  <2>2. ASSUME NEW u \in Uris, DelServlet(u) PROVE <1>5!:
    <3>1. datas_' \in [DOMAIN datas_' -> Servlets] /\ DOMAIN datas_' \subseteq Uris
      BY <1>1, <2>0, <2>2 DEF DelServlet
    <3> QED BY <1>3, <1>4, <2>0, <2>2, <3>1 DEF DelServlet
  <2>3. ASSUME NEW g \in Range(Globs), AddGlobServlet(g) PROVE <1>5!:
    <3>1. [uri |-> g, servlet |-> Fresh] \in Entry
      BY <1>1 DEF Entry
    <3>2. globs_' \in Seq(Entry)
      BY <2>3, <3>1, DropIsEntries DEF AddGlobServlet
    <3> QED BY <1>3, <1>4, <2>0, <2>3, <3>2 DEF AddGlobServlet
  <2>4. ASSUME NEW g \in Range(Globs), DelGlobServlet(g) PROVE <1>5!:
    BY <1>3, <1>4, <2>0, <2>4, DropIsEntries DEF DelGlobServlet
  <2>5. CASE SetName
    BY <1>1, <1>3, <1>4, <2>0, <2>5 DEF SetName
  <2> QED BY <2>1, <2>2, <2>3, <2>4, <2>5 DEF Administer
<1> QED BY <1>2, <1>5 DEF TypeOK, Entry

LEMMA ServerTypes ==
    ASSUME TypeOK,
           \/ \E fails \in SUBSET Addrs : Bind(fails)
           \/ Start \/ Stop \/ StopperStep
           \/ \E a \in Addrs : AcceptStep(a)
    PROVE  TypeOK'
<1> DEFINE Places == {"none", "ready", "check", "accept", "wait", "woken", "blocked", "late",
                      "over"}
           States == {"out", "backlog", "recv", "handle", "respond", "stuck", "refused",
                      "over"}
           Stages == {"none", "ready", "cancel", "hook", "close", "over"}
           Moved == /\ UNCHANGED hooked
                    /\ m_socks' \subseteq Addrs /\ open' \subseteq Addrs
                    /\ m_isStop' \in BOOLEAN /\ started' \in BOOLEAN
                    /\ loop' \in [Addrs -> Places]
                    /\ stopper' \in [pc : Stages, todo : SUBSET Addrs]
                    /\ backlog' \in [Addrs -> Seq(Clients)]
                    /\ pc' \in [Clients -> States]
                    /\ UNCHANGED <<rest, sent, aborted, parser, chunk, cut, servlet, answers>>
                    /\ UNCHANGED tableVars
<1>1. /\ m_socks \subseteq Addrs /\ open \subseteq Addrs
      /\ m_isStop \in BOOLEAN /\ started \in BOOLEAN
      /\ loop \in [Addrs -> Places]
      /\ stopper \in [pc : Stages, todo : SUBSET Addrs]
      /\ backlog \in [Addrs -> Seq(Clients)]
      /\ pc \in [Clients -> States]
  BY DEF TypeOK
<1>2. Moved => TypeOK'
  BY DEF TypeOK, tableVars
<1>3. ASSUME NEW fails \in SUBSET Addrs, Bind(fails) PROVE Moved
  BY <1>1, <1>3 DEF Bind, clientVars
<1>4. ASSUME Start PROVE Moved
  BY <1>1, <1>4 DEF Start, clientVars
<1>5. ASSUME Stop PROVE Moved
  BY <1>1, <1>5 DEF Stop, clientVars
<1>6. ASSUME StopperRuns PROVE Moved
  BY <1>1, <1>6 DEF StopperRuns, clientVars
<1>7. ASSUME StopperCancels PROVE Moved
  BY <1>1, <1>7 DEF StopperCancels, Woken, clientVars
<1>8. ASSUME StopperHook PROVE Moved
  BY <1>1, <1>8 DEF StopperHook, Woken, clientVars
<1>r. ASSUME NEW conns PROVE Reset(conns) \in [Clients -> States]
  BY <1>1 DEF Reset
<1>s. <<>> \in Seq(Clients)
  OBVIOUS
<1>9. ASSUME StopperCloses PROVE Moved
  <2>1. /\ m_socks' \subseteq m_socks
        /\ UNCHANGED <<hooked, m_isStop, started>>
        /\ stopper'.todo \subseteq stopper.todo /\ stopper'.pc \in {"over", "cancel"}
        /\ stopper' = [pc |-> stopper'.pc, todo |-> stopper'.todo]
        /\ UNCHANGED <<rest, sent, aborted, parser, chunk, cut, servlet, answers, tableVars>>
    BY <1>9 DEF StopperCloses
  <2>2. CASE loop[Closing] = "blocked"
    <3>1. loop' = [loop EXCEPT ![Closing] = "late"] /\ UNCHANGED <<open, backlog, pc>>
      BY <1>9, <2>2, Zenon DEF StopperCloses
    <3> QED BY <1>1, <2>1, <3>1
  <2>3. CASE loop[Closing] # "blocked"
    <3>1. /\ open' = open \ {Closing} /\ backlog' = [backlog EXCEPT ![Closing] = <<>>]
          /\ pc' = Reset(backlog[Closing]) /\ UNCHANGED loop
      BY <1>9, <2>3, Zenon DEF StopperCloses
    <3>2. backlog' \in [Addrs -> Seq(Clients)]
      BY <1>1, <1>s, <3>1
    <3>3. pc' \in [Clients -> States]
      BY <1>r, <3>1, Zenon
    <3> HIDE DEF States
    <3> QED BY <1>1, <2>1, <3>1, <3>2, <3>3
  <2> QED BY <2>2, <2>3
<1>10. ASSUME NEW a \in Addrs, Resumed(a) PROVE Moved
  BY <1>1, <1>10 DEF Resumed, clientVars
<1>11. ASSUME NEW a \in Addrs, Check(a) PROVE Moved
  BY <1>1, <1>11 DEF Check, clientVars
<1>12. ASSUME NEW a \in Addrs, Accept(a) PROVE Moved
  <2> DEFINE kept == IF loop[a] = "late" THEN <<>> ELSE Tail(backlog[a])
             gone == IF loop[a] = "late" THEN Tail(backlog[a]) ELSE <<>>
  <2>1. /\ loop' = [loop EXCEPT ![a] = "check"] /\ open' \subseteq open
        /\ backlog' = [backlog EXCEPT ![a] = kept]
        /\ pc' = [Reset(gone) EXCEPT ![Head(backlog[a])] = "recv"]
        /\ UNCHANGED <<hooked, m_socks, m_isStop, started, stopper, rest, sent, aborted,
                       parser, chunk, cut, servlet, answers, tableVars>>
    BY <1>12 DEF Accept
  <2>2. kept \in Seq(Clients)
    BY <1>1, <1>12 DEF Accept
  <2>3. backlog' \in [Addrs -> Seq(Clients)]
    <3> HIDE DEF kept
    <3> QED BY <1>1, <2>1, <2>2
  <2>4. pc' \in [Clients -> States]
    <3> HIDE DEF gone
    <3>1. Reset(gone) \in [Clients -> States]
      BY <1>r
    <3> QED BY <2>1, <3>1
  <2>5. loop' \in [Addrs -> Places]
    BY <1>1, <2>1
  <2> HIDE DEF Places, States, kept, gone
  <2> QED BY <1>1, <2>1, <2>3, <2>4, <2>5
<1>13. ASSUME NEW a \in Addrs, AcceptFails(a) PROVE Moved
  BY <1>1, <1>13 DEF AcceptFails, clientVars
<1>14. ASSUME NEW a \in Addrs, AcceptWaits(a) PROVE Moved
  BY <1>1, <1>14 DEF AcceptWaits, clientVars
<1>15. ASSUME NEW a \in Addrs, AcceptBlocks(a) PROVE Moved
  BY <1>1, <1>15 DEF AcceptBlocks, clientVars
<1> HIDE DEF Moved
<1> QED BY <1>2, <1>3, <1>4, <1>5, <1>6, <1>7, <1>8, <1>9, <1>10, <1>11, <1>12, <1>13, <1>14,
           <1>15 DEF StopperStep, AcceptStep

LEMMA DispatchIsServlet ==
    ASSUME TypeOK, NEW path
    PROVE  GetMatchedServlet(path) \in Servlets
<1> DEFINE hits == {i \in 1 .. Len(globs_) : <<globs_[i].uri, path>> \in Matches}
<1>1. CASE path \in DOMAIN datas_
  BY <1>1 DEF GetMatchedServlet, TypeOK
<1>2. CASE path \notin DOMAIN datas_ /\ hits = {}
  BY <1>2 DEF GetMatchedServlet, TypeOK
<1>3. CASE path \notin DOMAIN datas_ /\ hits # {}
  <2>1. hits \subseteq Nat
    OBVIOUS
  <2>2. Min(hits) \in hits
    <3> HIDE DEF hits
    <3> QED BY <1>3, <2>1, MinIsLeast
  <2>3. Min(hits) \in 1 .. Len(globs_)
    BY <2>2
  <2>4. GetMatchedServlet(path) = globs_[Min(hits)].servlet
    BY <1>3 DEF GetMatchedServlet
  <2>5. globs_ \in Seq([uri : Range(Globs), servlet : Servlets])
    BY DEF TypeOK
  <2>6. PICK k \in 1 .. Len(globs_) : k = Min(hits)
    BY <2>3, Zenon
  <2> HIDE DEF hits
  <2>7. globs_[k] \in [uri : Range(Globs), servlet : Servlets]
    <3> DEFINE F == [uri : Range(Globs), servlet : Servlets]
    <3> HIDE DEF F
    <3>1. globs_ \in Seq(F)
      BY <2>5 DEF F
    <3>2. globs_[k] \in F
      BY <3>1, <2>6
    <3> QED BY <3>2 DEF F
  <2> QED BY <2>4, <2>6, <2>7
<1> QED BY <1>1, <1>2, <1>3

LEMMA AnswerAdded ==
    ASSUME NEW A, NEW s, NEW v \in A, NEW r,
           s \in Seq([servlet : A, request : {a.request : a \in Range(s)}])
    PROVE  LET t == Append(s, [servlet |-> v, request |-> r])
           IN t \in Seq([servlet : A, request : {a.request : a \in Range(t)}])
<1> DEFINE e == [servlet |-> v, request |-> r]
           t == Append(s, e)
           P == {a.request : a \in Range(s)}
           Q == {a.request : a \in Range(t)}
<1>1. s \in Seq([servlet : A, request : P])
  OBVIOUS
<1>2. s \in Seq(Range(s))
  BY <1>1 DEF Range
<1>3. t \in Seq(Range(s) \cup {e}) /\ Len(t) = Len(s) + 1
      /\ t[Len(t)] = e /\ \A i \in 1 .. Len(s) : t[i] = s[i]
  BY <1>2
<1>4. Range(s) \subseteq Range(t) /\ e \in Range(t)
  <2> HIDE DEF t, e
  <2>1. Len(s) \in Nat /\ DOMAIN s = 1 .. Len(s) /\ DOMAIN t = 1 .. Len(t)
    BY <1>2, <1>3
  <2> QED BY <1>3, <2>1 DEF Range
<1>5. P \subseteq Q /\ r \in Q
  BY <1>4
<1>6. [servlet : A, request : P] \subseteq [servlet : A, request : Q]
  <2> HIDE DEF P, Q
  <2> QED BY <1>5
<1>7. e \in [servlet : A, request : Q]
  <2> HIDE DEF Q
  <2> QED BY <1>5
<1>8. s \in Seq([servlet : A, request : Q])
  <2> DEFINE X == [servlet : A, request : P]
             Y == [servlet : A, request : Q]
  <2>1. s \in Seq(X) /\ X \subseteq Y
    BY <1>1, <1>6
  <2> HIDE DEF X, Y
  <2>2. s \in Seq(Y)
    BY <2>1, SeqMonotone
  <2> QED BY <2>2 DEF Y
<1>9. t \in Seq([servlet : A, request : Q])
  <2> HIDE DEF e, Q
  <2> QED BY <1>7, <1>8
<1> QED BY <1>9

LEMMA HandlerTypes ==
    ASSUME TypeOK, NEW c \in Clients,
           \/ \E a \in Addrs, stream \in StreamsOf[c] : Arrive(c, a, stream)
           \/ Parsing(c) \/ RecvFails(c) \/ Handle(c) \/ Respond(c) \/ RespondFails(c)
           \/ Abort(c)
    PROVE  TypeOK'
<1> DEFINE Places == {"none", "ready", "check", "accept", "wait", "woken", "blocked", "late",
                      "over"}
           States == {"out", "backlog", "recv", "handle", "respond", "stuck", "refused",
                      "over"}
           Answer(d) == Seq([servlet : Servlets,
                             request : {a.request : a \in Range(answers[d])}])
           Moved == /\ loop' \in [Addrs -> Places]
                    /\ backlog' \in [Addrs -> Seq(Clients)]
                    /\ pc' \in [Clients -> States]
                    /\ aborted' \in [Clients -> BOOLEAN] /\ cut' \in [Clients -> BOOLEAN]
                    /\ chunk' \in [Clients -> BOOLEAN]
                    /\ servlet' \in [Clients -> Servlets]
                    /\ \A d \in Clients : answers'[d] \in Answer(d)'
                    /\ UNCHANGED <<hooked, m_socks, open, m_isStop, started, stopper>>
                    /\ UNCHANGED tableVars
<1>1. /\ loop \in [Addrs -> Places]
      /\ backlog \in [Addrs -> Seq(Clients)]
      /\ pc \in [Clients -> States]
      /\ aborted \in [Clients -> BOOLEAN] /\ cut \in [Clients -> BOOLEAN]
      /\ chunk \in [Clients -> BOOLEAN]
      /\ servlet \in [Clients -> Servlets]
  BY DEF TypeOK
<1>2. \A d \in Clients : answers[d] \in Answer(d)
  BY DEF TypeOK
<1>3. Moved /\ DOMAIN answers' = Clients => TypeOK'
  BY DEF TypeOK, tableVars
<1>4. UNCHANGED answers => \A d \in Clients : answers'[d] \in Answer(d)'
  BY <1>2
<1> HIDE DEF Answer
<1>5. ASSUME NEW a \in Addrs, NEW stream, Arrive(c, a, stream) PROVE Moved
  BY <1>1, <1>4, <1>5 DEF Arrive, Woken
<1>6. ASSUME Parses(c) PROVE Moved
  BY <1>1, <1>4, <1>6 DEF Parses, serverVars
<1>7. ASSUME ParsesLast(c) PROVE Moved
  BY <1>1, <1>4, <1>7 DEF ParsesLast, serverVars
<1>8. ASSUME RecvFails(c) PROVE Moved
  BY <1>1, <1>4, <1>8 DEF RecvFails, serverVars
<1>9. ASSUME Handle(c) PROVE Moved
  BY <1>1, <1>4, <1>9, DispatchIsServlet DEF Handle, serverVars
<1>10. ASSUME RespondFails(c) PROVE Moved
  BY <1>1, <1>4, <1>10 DEF RespondFails, serverVars
<1>11. ASSUME Abort(c) PROVE Moved
  BY <1>1, <1>4, <1>11 DEF Abort, serverVars
<1>12. ASSUME Respond(c) PROVE Moved
  <2>1. \A d \in Clients : answers'[d] \in Answer(d)'
    <3> TAKE d \in Clients
    <3>1. answers[d] \in Seq([servlet : Servlets,
                              request : {a.request : a \in Range(answers[d])}])
      BY <1>2 DEF Answer
    <3>2. CASE d = c
      <4>1. answers' = [answers EXCEPT ![c] =
                           Append(@, [servlet |-> servlet[c], request |-> parser[c].data])]
            /\ c \in DOMAIN answers
        BY <1>12 DEF Respond, TypeOK
      <4>2. answers'[d] = Append(answers[d],
                                 [servlet |-> servlet[c], request |-> parser[c].data])
        BY <3>2, <4>1
      <4>3. servlet[c] \in Servlets
        BY <1>1
      <4> DEFINE t == Append(answers[d], [servlet |-> servlet[c], request |-> parser[c].data])
      <4>4. t \in Seq([servlet : Servlets, request : {a.request : a \in Range(t)}])
        BY <3>1, <4>3, AnswerAdded
      <4>5. answers'[d] = t
        BY <4>2
      <4> HIDE DEF t
      <4> QED BY <4>4, <4>5 DEF Answer
    <3>3. CASE d # c
      BY <1>2, <1>12, <3>3 DEF Respond, Answer
    <3> QED BY <3>2, <3>3
  <2> QED BY <1>1, <1>12, <2>1 DEF Respond, serverVars
<1> HIDE DEF Moved
<1>13. DOMAIN answers' = Clients
  <2>1. UNCHANGED answers \/ Respond(c)
    BY DEF Arrive, Parsing, Parses, ParsesLast, RecvFails, Handle, RespondFails, Abort
  <2> QED BY <2>1 DEF Respond, TypeOK
<1> QED BY <1>3, <1>13, <1>5, <1>6, <1>7, <1>8, <1>9, <1>10, <1>11, <1>12 DEF Parsing

LEMMA TypesKept == TypeOK /\ [Next]_vars => TypeOK'
<1> SUFFICES ASSUME TypeOK, [Next]_vars PROVE TypeOK'
  OBVIOUS
<1>1. CASE Next
  BY <1>1, AdministerTypes, ServerTypes, HandlerTypes DEF Next
<1>2. CASE UNCHANGED vars
  BY <1>2 DEF vars, serverVars, clientVars, tableVars, TypeOK
<1> QED BY <1>1, <1>2

\* The sockets, the accept loops, the closing fiber, the connections and the tables of
\* servlets keep their types, whatever clients send and the administrator does.
THEOREM TypeCorrect == Spec => []TypeOK
<1>1. Init => TypeOK
  BY InitTypes
<1>2. TypeOK /\ [Next]_vars => TypeOK'
  BY TypesKept
<1> QED BY <1>1, <1>2, PTL DEF Spec

-----------------------------------------------------------------------------
(* The tables are what the administrator's calls say                         *)

\* The servlets that a list of patterns has for one.
Listed(s, g) == {s[i].servlet : i \in {j \in 1 .. Len(s) : s[j].uri = g}}

\* A pattern is listed once, and the list is in the order of the registrations.
OncePerPattern(s) == \A i, j \in 1 .. Len(s) : s[i].uri = s[j].uri => i = j

Ordered(s) == \A i, j \in 1 .. Len(s) : i < j => s[i].servlet < s[j].servlet

TableInv ==
    /\ \A u \in Uris :
          Registration("datas", u) = IF u \in DOMAIN datas_ THEN {datas_[u]} ELSE {}
    /\ \A g \in Range(Globs) : Registration("globs", g) = Listed(globs_, g)
    /\ Registration("default", <<>>) = {default_} \ {0}
    /\ OncePerPattern(globs_) /\ Ordered(globs_)

DispatchInv == TypeOK /\ TableInv

\* A call makes itself the last one for its table and its uri, and changes nothing for
\* the others.
LEMMA RecordedLast ==
    ASSUME TypeOK, NEW t, NEW o, NEW u, Record(t, o, u)
    PROVE  \A table, uri :
              Registration(table, uri)' =
                  IF table = t /\ uri = u THEN (IF o = "add" THEN {Fresh} ELSE {})
                  ELSE Registration(table, uri)
<1> TAKE table, uri
<1> DEFINE n == Len(history)
           e == [table |-> t, op |-> o, uri |-> u]
<1>1. n \in Nat /\ Fresh = n + 1 /\ \A i \in 1 .. n : i # Fresh
  BY DEF TypeOK, Fresh
<1>2. Len(history') = n + 1 /\ history'[n + 1] = e /\ \A i \in 1 .. n : history'[i] = history[i]
  <2>1. history \in Seq([table : {"datas", "globs", "default"}, op : {"add", "del"}, uri : Uri])
    BY DEF TypeOK
  <2>2. history' = Append(history, e)
    BY DEF Record
  <2> HIDE DEF e
  <2> QED BY <2>1, <2>2
<1>3. 1 .. n + 1 = (1 .. n) \cup {n + 1}
  BY <1>1
<1>4. CallsFor(table, uri)' =
         CallsFor(table, uri) \cup (IF table = t /\ uri = u THEN {n + 1} ELSE {})
  <2> HIDE DEF n
  <2> QED BY <1>1, <1>2, <1>3 DEF CallsFor, n
<1>5. CallsFor(table, uri) \subseteq 1 .. n
  BY DEF CallsFor
<1> HIDE DEF n
<1>6. CASE table = t /\ uri = u
  <2>1. \A i \in CallsFor(table, uri)' : i <= n + 1
    BY <1>1, <1>4, <1>5
  <2>2. \A i \in 1 .. n : ~(n + 1 <= i)
    BY <1>1
  <2>3. n + 1 \in CallsFor(table, uri)'
    BY <1>4, <1>6
  <2>4. \A i \in CallsFor(table, uri)' : i # n + 1 => i \in 1 .. n
    BY <1>4, <1>5
  <2>5. \A i : i \in Registration(table, uri)' <=> i = n + 1 /\ o = "add"
    <3> TAKE i
    <3>1. ASSUME i \in Registration(table, uri)' PROVE i = n + 1 /\ o = "add"
      <4>1. i \in CallsFor(table, uri)' /\ history'[i].op = "add" /\ n + 1 <= i
        BY <2>3, <3>1 DEF Registration
      <4>2. i = n + 1
        BY <2>2, <2>4, <4>1
      <4> QED BY <1>2, <4>1, <4>2
    <3>2. ASSUME i = n + 1, o = "add" PROVE i \in Registration(table, uri)'
      BY <1>2, <2>1, <2>3, <3>2 DEF Registration
    <3> QED BY <3>1, <3>2
  <2> QED BY <1>1, <1>6, <2>5
<1>7. CASE ~(table = t /\ uri = u)
  <2>1. CallsFor(table, uri)' = CallsFor(table, uri)
    BY <1>4, <1>7
  <2>2. \A i \in CallsFor(table, uri) : history'[i] = history[i]
    BY <1>2, <1>5 DEF n
  <2> QED BY <1>7, <2>1, <2>2 DEF Registration
<1> QED BY <1>6, <1>7

\* Drop takes the entry of its pattern out, and leaves the others and their order.
LEMMA DropFacts ==
    ASSUME TypeOK, OncePerPattern(globs_), Ordered(globs_), NEW g
    PROVE  /\ OncePerPattern(Drop(g)) /\ Ordered(Drop(g))
           /\ \A i \in 1 .. Len(Drop(g)) :
                 \E j \in 1 .. Len(globs_) : Drop(g)[i] = globs_[j] /\ globs_[j].uri # g
           /\ \A h : Listed(Drop(g), h) = IF h = g THEN {} ELSE Listed(globs_, h)
<1> DEFINE at == {i \in 1 .. Len(globs_) : globs_[i].uri = g}
           n == Len(globs_)
           d == Drop(g)
<1>0. globs_ \in Seq(Entry) /\ n \in Nat
  BY DEF TypeOK, Entry
<1>1. CASE at = {}
  <2>1. d = globs_ /\ \A i \in 1 .. n : globs_[i].uri # g
    BY <1>1 DEF Drop
  <2>2. \A h : Listed(globs_, h) = IF h = g THEN {} ELSE Listed(globs_, h)
    BY <2>1 DEF Listed
  <2> QED BY <2>1, <2>2
<1>2. CASE at # {}
  <2>1. at \subseteq Nat
    OBVIOUS
  <2>2. Min(at) \in at
    <3> HIDE DEF at
    <3> QED BY <1>2, <2>1, MinIsLeast
  <2>3. PICK k \in 1 .. n : k = Min(at)
    BY <2>2
  <2>4. globs_[k].uri = g
    BY <2>2, <2>3
  <2>5. d = RemoveAt(globs_, k)
    BY <1>2, <2>3 DEF Drop
  <2>6. Len(d) = n - 1 /\ \A i \in 1 .. n - 1 : d[i] = IF i < k THEN globs_[i] ELSE globs_[i + 1]
    BY <1>0, <2>5, RemoveAtFacts
  <2> DEFINE from(i) == IF i < k THEN i ELSE i + 1
  <2> HIDE DEF d, n, at
  <2>7. \A i \in 1 .. n - 1 : from(i) \in 1 .. n /\ from(i) # k /\ d[i] = globs_[from(i)]
    BY <1>0, <2>6
  <2>8. \A i, j \in 1 .. n - 1 : (i < j => from(i) < from(j)) /\ (from(i) = from(j) => i = j)
    BY <1>0
  <2>9. \A j \in 1 .. n : j # k => \E i \in 1 .. n - 1 : from(i) = j
    <3> TAKE j \in 1 .. n
    <3>1. CASE j < k
      <4>1. j \in 1 .. n - 1 /\ from(j) = j
        BY <1>0, <3>1
      <4> QED BY <4>1
    <3>2. CASE j > k
      <4>1. j - 1 \in 1 .. n - 1 /\ from(j - 1) = j
        BY <1>0, <3>2
      <4> QED BY <4>1
    <3> QED BY <3>1, <3>2
  <2> HIDE DEF from
  <2>10. \A j \in 1 .. n : globs_[j].uri = g => j = k
    BY <2>4 DEF OncePerPattern, n
  <2>11. \A i \in 1 .. n - 1 : d[i].uri # g
    BY <2>7, <2>10
  <2>12. OncePerPattern(d) /\ Ordered(d)
    <3>1. ASSUME NEW i \in 1 .. n - 1, NEW j \in 1 .. n - 1, d[i].uri = d[j].uri PROVE i = j
      BY <2>7, <2>8, <3>1 DEF OncePerPattern, n
    <3>2. ASSUME NEW i \in 1 .. n - 1, NEW j \in 1 .. n - 1, i < j
          PROVE  d[i].servlet < d[j].servlet
      BY <2>7, <2>8, <3>2 DEF Ordered, n
    <3> QED BY <2>6, <3>1, <3>2 DEF OncePerPattern, Ordered
  <2>13. ASSUME NEW h PROVE Listed(d, h) = IF h = g THEN {} ELSE Listed(globs_, h)
    <3>1. CASE h = g
      BY <2>6, <2>11, <3>1 DEF Listed
    <3>2. CASE h # g
      <4>1. ASSUME NEW x \in Listed(d, h) PROVE x \in Listed(globs_, h)
        <5>1. PICK i \in 1 .. n - 1 : d[i].uri = h /\ x = d[i].servlet
          BY <2>6 DEF Listed
        <5> QED BY <2>7, <5>1 DEF Listed, n
      <4>2. ASSUME NEW x \in Listed(globs_, h) PROVE x \in Listed(d, h)
        <5>1. PICK j \in 1 .. n : globs_[j].uri = h /\ x = globs_[j].servlet
          BY DEF Listed, n
        <5>2. PICK i \in 1 .. n - 1 : from(i) = j
          BY <2>4, <2>9, <3>2, <5>1
        <5> QED BY <2>6, <2>7, <5>1, <5>2 DEF Listed
      <4> QED BY <3>2, <4>1, <4>2
    <3> QED BY <3>1, <3>2
  <2>14. \A i \in 1 .. Len(d) :
            \E j \in 1 .. Len(globs_) : d[i] = globs_[j] /\ globs_[j].uri # g
    <3>1. \A i \in 1 .. n - 1 : from(i) \in 1 .. n /\ d[i] = globs_[from(i)]
      BY <2>7
    <3>2. Len(d) = n - 1 /\ n = Len(globs_)
      BY <2>6 DEF n
    <3> HIDE DEF n, from, d
    <3>3. ASSUME NEW i \in 1 .. n - 1
          PROVE  \E j \in 1 .. n : d[i] = globs_[j] /\ globs_[j].uri # g
      BY <2>11, <3>1
    <3> QED BY <3>2, <3>3
  <2> QED BY <2>12, <2>13, <2>14 DEF d
<1> QED BY <1>1, <1>2

LEMMA InitTables == Init => TableInv
<1> SUFFICES ASSUME Init PROVE TableInv
  OBVIOUS
<1> DEFINE n == Len(Globs)
<1>1. n \in Nat /\ \A i, j \in 1 .. n : Globs[i] = Globs[j] => i = j
  BY HttpServerAssumption
<1>2. /\ Len(history) = n /\ Len(globs_) = n
      /\ \A i \in 1 .. n : /\ history[i].table = "globs" /\ history[i].op = "add"
                           /\ history[i].uri = Globs[i]
                           /\ globs_[i].uri = Globs[i] /\ globs_[i].servlet = i
      /\ DOMAIN datas_ = {} /\ default_ = 0
  BY <1>1 DEF Init
<1> HIDE DEF n
<1>3. \A t, uri : t # "globs" => Registration(t, uri) = {}
  BY <1>2 DEF Registration, CallsFor
<1>4. \A u \in Uris : Registration("datas", u) = IF u \in DOMAIN datas_ THEN {datas_[u]} ELSE {}
  BY <1>2, <1>3
<1>5. Registration("default", <<>>) = {default_} \ {0}
  BY <1>2, <1>3
<1>6. ASSUME NEW g PROVE Registration("globs", g) = Listed(globs_, g)
  <2>1. CallsFor("globs", g) = {i \in 1 .. n : Globs[i] = g}
    BY <1>2 DEF CallsFor
  <2>2. Listed(globs_, g) = {i \in 1 .. n : Globs[i] = g}
    BY <1>2 DEF Listed
  <2>3. \A i, j \in {k \in 1 .. n : Globs[k] = g} : i = j
    BY <1>1
  <2>4. \A i \in {k \in 1 .. n : Globs[k] = g} : history[i].op = "add" /\ i <= i
    BY <1>1, <1>2
  <2> QED BY <2>1, <2>2, <2>3, <2>4, Zenon DEF Registration
<1>7. OncePerPattern(globs_) /\ Ordered(globs_)
  BY <1>1, <1>2 DEF OncePerPattern, Ordered
<1> QED BY <1>4, <1>5, <1>6, <1>7 DEF TableInv

\* No entry is younger than the last call.
LEMMA EntriesAreOld ==
    ASSUME DispatchInv, NEW i \in 1 .. Len(globs_)
    PROVE  /\ globs_[i].servlet \in Nat /\ globs_[i].servlet < Fresh
           /\ globs_[i].uri \in Range(Globs)
<1>1. globs_ \in Seq(Entry)
  BY DEF DispatchInv, TypeOK, Entry
<1> DEFINE e == globs_[i]
<1>2. e \in Entry
  BY <1>1
<1> HIDE DEF e
<1>3. e.uri \in Range(Globs) /\ e.servlet \in Nat
  BY <1>2, ServletsAre DEF Entry
<1>4. e.servlet \in Listed(globs_, e.uri)
  BY DEF Listed, e
<1>5. e.servlet \in 1 .. Len(history)
  BY <1>3, <1>4 DEF DispatchInv, TableInv, Registration, CallsFor
<1>6. Len(history) \in Nat
  BY DEF DispatchInv, TypeOK
<1> QED BY <1>3, <1>5, <1>6 DEF Fresh, e

LEMMA FreshIsNew == ASSUME TypeOK PROVE Fresh \in Nat \ {0}
<1>1. Len(history) \in Nat
  BY DEF TypeOK
<1> QED BY <1>1 DEF Fresh

LEMMA AdministerTables == DispatchInv /\ Administer => TableInv'
<1> SUFFICES ASSUME DispatchInv, Administer PROVE TableInv'
  OBVIOUS
<1>1. TypeOK /\ TableInv
  BY DEF DispatchInv
<1>2. ASSUME NEW u \in Uris, AddServlet(u) PROVE TableInv'
  <2>1. Record("datas", "add", u) /\ UNCHANGED <<globs_, default_>>
        /\ datas_' = [v \in DOMAIN datas_ \cup {u} |-> IF v = u THEN Fresh ELSE datas_[v]]
    BY <1>2 DEF AddServlet
  <2>2. \A table, uri : Registration(table, uri)' =
           IF table = "datas" /\ uri = u THEN {Fresh} ELSE Registration(table, uri)
    BY <1>1, <2>1, RecordedLast
  <2>3. \A v \in Uris :
           Registration("datas", v)' = IF v \in DOMAIN datas_' THEN {datas_'[v]} ELSE {}
    BY <1>1, <2>1, <2>2 DEF TableInv
  <2>4. \A g \in Range(Globs) : Registration("globs", g)' = Listed(globs_, g)'
    BY <1>1, <2>1, <2>2 DEF TableInv, Listed
  <2>5. Registration("default", <<>>)' = {default_'} \ {0}
    BY <1>1, <2>1, <2>2 DEF TableInv
  <2> QED BY <1>1, <2>1, <2>3, <2>4, <2>5 DEF TableInv, OncePerPattern, Ordered
<1>3. ASSUME NEW u \in Uris, DelServlet(u) PROVE TableInv'
  <2>1. Record("datas", "del", u) /\ UNCHANGED <<globs_, default_>>
        /\ datas_' = [v \in DOMAIN datas_ \ {u} |-> datas_[v]]
    BY <1>3 DEF DelServlet
  <2>2. \A table, uri : Registration(table, uri)' =
           IF table = "datas" /\ uri = u THEN {} ELSE Registration(table, uri)
    BY <1>1, <2>1, RecordedLast
  <2>3. \A v \in Uris :
           Registration("datas", v)' = IF v \in DOMAIN datas_' THEN {datas_'[v]} ELSE {}
    BY <1>1, <2>1, <2>2 DEF TableInv
  <2>4. \A g \in Range(Globs) : Registration("globs", g)' = Listed(globs_, g)'
    BY <1>1, <2>1, <2>2 DEF TableInv, Listed
  <2>5. Registration("default", <<>>)' = {default_'} \ {0}
    BY <1>1, <2>1, <2>2 DEF TableInv
  <2> QED BY <1>1, <2>1, <2>3, <2>4, <2>5 DEF TableInv, OncePerPattern, Ordered
<1>4. ASSUME NEW g \in Range(Globs), AddGlobServlet(g) PROVE TableInv'
  <2> DEFINE d == Drop(g)
             e == [uri |-> g, servlet |-> Fresh]
  <2>1. Record("globs", "add", g) /\ UNCHANGED <<datas_, default_>> /\ globs_' = Append(d, e)
    BY <1>4 DEF AddGlobServlet
  <2>2. \A table, uri : Registration(table, uri)' =
           IF table = "globs" /\ uri = g THEN {Fresh} ELSE Registration(table, uri)
    BY <1>1, <2>1, RecordedLast
  <2>3. d \in Seq(Entry)
    BY <1>1, DropIsEntries
  <2>4. /\ OncePerPattern(d) /\ Ordered(d)
        /\ \A i \in 1 .. Len(d) : \E j \in 1 .. Len(globs_) : d[i] = globs_[j] /\ globs_[j].uri # g
        /\ \A h : Listed(d, h) = IF h = g THEN {} ELSE Listed(globs_, h)
    BY <1>1, DropFacts DEF TableInv
  <2>5. e.uri = g /\ e.servlet = Fresh
    OBVIOUS
  <2> HIDE DEF d, e
  <2>6. /\ Len(d) \in Nat /\ Len(globs_') = Len(d) + 1 /\ globs_'[Len(d) + 1] = e
        /\ \A i \in 1 .. Len(d) : globs_'[i] = d[i]
    BY <2>1, <2>3
  <2>7. \A i \in 1 .. Len(d) : d[i].uri # g /\ d[i].servlet \in Nat /\ d[i].servlet < Fresh
    BY <2>4, EntriesAreOld
  <2>8. \A i \in 1 .. Len(globs_') : i \in 1 .. Len(d) \/ i = Len(d) + 1
    BY <2>6
  <2>9. OncePerPattern(globs_')
    <3> SUFFICES ASSUME NEW i \in 1 .. Len(globs_'), NEW j \in 1 .. Len(globs_'),
                        globs_'[i].uri = globs_'[j].uri
                 PROVE  i = j
      BY DEF OncePerPattern
    <3>1. CASE i \in 1 .. Len(d) /\ j \in 1 .. Len(d)
      <4>1. d[i].uri = d[j].uri
        BY <2>6, <3>1
      <4> QED BY <2>4, <3>1, <4>1 DEF OncePerPattern
    <3>2. CASE i \in 1 .. Len(d) /\ j = Len(d) + 1
      BY <2>5, <2>6, <2>7, <3>2
    <3>3. CASE j \in 1 .. Len(d) /\ i = Len(d) + 1
      BY <2>5, <2>6, <2>7, <3>3
    <3> QED BY <2>8, <3>1, <3>2, <3>3
  <2>10. Ordered(globs_')
    <3> SUFFICES ASSUME NEW i \in 1 .. Len(globs_'), NEW j \in 1 .. Len(globs_'), i < j
                 PROVE  globs_'[i].servlet < globs_'[j].servlet
      BY DEF Ordered
    <3>1. i \in 1 .. Len(d)
      BY <2>6, <2>8
    <3>2. CASE j \in 1 .. Len(d)
      BY <2>4, <2>6, <3>1, <3>2 DEF Ordered
    <3>3. CASE j = Len(d) + 1
      BY <2>5, <2>6, <2>7, <3>1, <3>3
    <3> QED BY <2>8, <3>2, <3>3
  <2>11. ASSUME NEW h PROVE Listed(globs_', h) = IF h = g THEN {Fresh} ELSE Listed(globs_, h)
    <3>1. {j \in 1 .. Len(globs_') : globs_'[j].uri = h} =
             {j \in 1 .. Len(d) : d[j].uri = h} \cup (IF h = g THEN {Len(d) + 1} ELSE {})
      BY <2>5, <2>6, <2>8
    <3>2. Listed(globs_', h) = Listed(d, h) \cup (IF h = g THEN {Fresh} ELSE {})
      BY <2>5, <2>6, <3>1 DEF Listed
    <3> QED BY <2>4, <3>2
  <2>12. \A h \in Range(Globs) : Registration("globs", h)' = Listed(globs_', h)
    BY <1>1, <2>2, <2>11 DEF TableInv
  <2>13. \A v \in Uris :
           Registration("datas", v)' = IF v \in DOMAIN datas_' THEN {datas_'[v]} ELSE {}
    BY <1>1, <2>1, <2>2 DEF TableInv
  <2>14. Registration("default", <<>>)' = {default_'} \ {0}
    BY <1>1, <2>1, <2>2 DEF TableInv
  <2> QED BY <2>9, <2>10, <2>12, <2>13, <2>14 DEF TableInv
<1>5. ASSUME NEW g \in Range(Globs), DelGlobServlet(g) PROVE TableInv'
  <2>1. Record("globs", "del", g) /\ UNCHANGED <<datas_, default_>> /\ globs_' = Drop(g)
    BY <1>5 DEF DelGlobServlet
  <2>2. \A table, uri : Registration(table, uri)' =
           IF table = "globs" /\ uri = g THEN {} ELSE Registration(table, uri)
    BY <1>1, <2>1, RecordedLast
  <2>3. /\ OncePerPattern(Drop(g)) /\ Ordered(Drop(g))
        /\ \A h : Listed(Drop(g), h) = IF h = g THEN {} ELSE Listed(globs_, h)
    BY <1>1, DropFacts DEF TableInv
  <2>4. \A h \in Range(Globs) : Registration("globs", h)' = Listed(globs_', h)
    BY <1>1, <2>1, <2>2, <2>3 DEF TableInv
  <2>5. \A v \in Uris :
           Registration("datas", v)' = IF v \in DOMAIN datas_' THEN {datas_'[v]} ELSE {}
    BY <1>1, <2>1, <2>2 DEF TableInv
  <2>6. Registration("default", <<>>)' = {default_'} \ {0}
    BY <1>1, <2>1, <2>2 DEF TableInv
  <2> QED BY <2>1, <2>3, <2>4, <2>5, <2>6 DEF TableInv
<1>6. CASE SetName
  <2>1. Record("default", "add", <<>>) /\ UNCHANGED <<datas_, globs_>> /\ default_' = Fresh
    BY <1>6 DEF SetName
  <2>2. \A table, uri : Registration(table, uri)' =
           IF table = "default" /\ uri = <<>> THEN {Fresh} ELSE Registration(table, uri)
    BY <1>1, <2>1, RecordedLast
  <2>3. \A v \in Uris :
           Registration("datas", v)' = IF v \in DOMAIN datas_' THEN {datas_'[v]} ELSE {}
    BY <1>1, <2>1, <2>2 DEF TableInv
  <2>4. \A g \in Range(Globs) : Registration("globs", g)' = Listed(globs_, g)'
    BY <1>1, <2>1, <2>2 DEF TableInv, Listed
  <2>5. Registration("default", <<>>)' = {default_'} \ {0}
    BY <1>1, <2>1, <2>2, FreshIsNew
  <2> QED BY <1>1, <2>1, <2>3, <2>4, <2>5 DEF TableInv, OncePerPattern, Ordered
<1> QED BY <1>2, <1>3, <1>4, <1>5, <1>6 DEF Administer

LEMMA DispatchKept == DispatchInv /\ [Next]_vars => DispatchInv'
<1> SUFFICES ASSUME DispatchInv, [Next]_vars PROVE DispatchInv'
  OBVIOUS
<1>1. TypeOK'
  BY TypesKept DEF DispatchInv
<1>2. CASE Administer
  BY <1>1, <1>2, AdministerTables DEF DispatchInv
<1>3. CASE UNCHANGED tableVars
  BY <1>1, <1>3 DEF DispatchInv, TableInv, Registration, CallsFor, tableVars
<1>4. Administer \/ UNCHANGED tableVars
  BY DEF Next, vars, Bind, Start, Stop, StopperStep, StopperRuns, StopperCancels,
         StopperHook, StopperCloses, AcceptStep, Resumed, Check, Accept, AcceptFails,
         AcceptWaits, AcceptBlocks, Arrive, Parsing, Parses, ParsesLast, RecvFails, Handle,
         Respond, RespondFails, Abort
<1> QED BY <1>2, <1>3, <1>4

LEMMA DispatchFits == DispatchInv => DispatchByHistory
<1> SUFFICES ASSUME DispatchInv, NEW path \in Uris
             PROVE  LET exact == Registration("datas", path)
                        globs == UNION {Registration("globs", g) :
                                    g \in {h \in Range(Globs) : <<h, path>> \in Matches}}
                    IN GetMatchedServlet(path) =
                          IF exact # {} THEN Min(exact)
                          ELSE IF globs # {} THEN Min(globs)
                          ELSE Max({0} \cup Registration("default", <<>>))
  BY DEF DispatchByHistory
<1> DEFINE exact == Registration("datas", path)
           globs == UNION {Registration("globs", g) :
                       g \in {h \in Range(Globs) : <<h, path>> \in Matches}}
           hits == {i \in 1 .. Len(globs_) : <<globs_[i].uri, path>> \in Matches}
<1>1. TypeOK /\ TableInv
  BY DEF DispatchInv
<1>2. exact = IF path \in DOMAIN datas_ THEN {datas_[path]} ELSE {}
  BY <1>1 DEF TableInv
<1>3. Registration("default", <<>>) = {default_} \ {0} /\ default_ \in Nat
  BY <1>1, ServletsAre DEF TableInv, TypeOK
<1>4. \A x : x \in globs <=> \E i \in hits : x = globs_[i].servlet
  <2>1. ASSUME NEW x \in globs PROVE \E i \in hits : x = globs_[i].servlet
    <3>1. PICK g \in Range(Globs) : <<g, path>> \in Matches /\ x \in Registration("globs", g)
      OBVIOUS
    <3>2. x \in Listed(globs_, g)
      BY <1>1, <3>1 DEF TableInv
    <3> QED BY <3>1, <3>2 DEF Listed
  <2>2. ASSUME NEW i \in hits PROVE globs_[i].servlet \in globs
    <3>1. globs_[i].uri \in Range(Globs) /\ globs_[i].servlet \in Listed(globs_, globs_[i].uri)
      BY EntriesAreOld DEF Listed
    <3>2. globs_[i].servlet \in Registration("globs", globs_[i].uri)
      BY <1>1, <3>1 DEF TableInv
    <3> QED BY <3>1, <3>2
  <2> QED BY <2>1, <2>2
<1>5. hits \subseteq Nat /\ hits \subseteq 1 .. Len(globs_)
  OBVIOUS
<1>6. CASE path \in DOMAIN datas_
  <2>1. GetMatchedServlet(path) = datas_[path]
    BY <1>6 DEF GetMatchedServlet
  <2>2. datas_[path] \in Nat
    BY <1>1, <1>6, ServletsAre DEF TypeOK
  <2>3. Min({datas_[path]}) = datas_[path]
    BY <2>2, MinUnique
  <2> QED BY <1>2, <1>6, <2>1, <2>3
<1>7. CASE path \notin DOMAIN datas_ /\ hits # {}
  <2>1. GetMatchedServlet(path) = globs_[Min(hits)].servlet
    BY <1>7 DEF GetMatchedServlet
  <2> HIDE DEF hits, globs
  <2>2. PICK k \in hits : k = Min(hits) /\ \A i \in hits : k <= i
    BY <1>5, <1>7, MinIsLeast
  <2>3. \A i \in hits : globs_[k].servlet <= globs_[i].servlet
    <3> TAKE i \in hits
    <3>1. k <= i /\ i \in 1 .. Len(globs_) /\ k \in 1 .. Len(globs_)
      BY <1>5, <2>2
    <3>2. globs_[i].servlet \in Nat /\ globs_[k].servlet \in Nat
      BY <3>1, EntriesAreOld
    <3>3. CASE i = k
      BY <3>2, <3>3
    <3>4. CASE k < i
      BY <1>1, <3>1, <3>2, <3>4 DEF TableInv, Ordered
    <3> QED BY <3>1, <3>3, <3>4
  <2>4. globs \subseteq Nat
    BY <1>4, <1>5, EntriesAreOld
  <2>5. globs_[k].servlet \in globs /\ \A y \in globs : globs_[k].servlet <= y
    BY <1>4, <2>3
  <2>6. Min(globs) = globs_[k].servlet
    BY <2>4, <2>5, MinUnique
  <2>7. exact = {} /\ globs # {}
    BY <1>2, <1>7, <2>5
  <2> QED BY <2>1, <2>2, <2>6, <2>7 DEF globs
<1>8. CASE path \notin DOMAIN datas_ /\ hits = {}
  <2>1. GetMatchedServlet(path) = default_
    BY <1>8 DEF GetMatchedServlet
  <2>2. exact = {} /\ globs = {}
    <3> HIDE DEF hits, globs, exact
    <3> QED BY <1>2, <1>4, <1>8
  <2>3. {0} \cup Registration("default", <<>>) = {0, default_}
    BY <1>3
  <2>4. Max({0, default_}) = default_
    BY <1>3 DEF Max
  <2> QED BY <2>1, <2>2, <2>3, <2>4
<1> QED BY <1>6, <1>7, <1>8

\* Whatever sequence of servlets the administrator adds, replaces and deletes, a path is
\* answered by the last registration of its uri, else by the pattern whose registration is
\* the oldest that still stands, else by the last default (http_servlet.cpp:36-136).
THEOREM DispatchFollowsHistory == Spec => []DispatchByHistory
<1>1. Init => DispatchInv
  BY InitTypes, InitTables DEF DispatchInv
<1>2. DispatchInv /\ [Next]_vars => DispatchInv'
  BY DispatchKept
<1>3. DispatchInv => DispatchByHistory
  BY DispatchFits
<1> QED BY <1>1, <1>2, <1>3, PTL DEF Spec

-----------------------------------------------------------------------------
(* What a client sends, symbol by symbol                                     *)

LEMMA SetInduction ==
    ASSUME NEW S, 0 \in S, \A n \in Nat : n \in S => n + 1 \in S
    PROVE  Nat \subseteq S
<1>1. SUFFICES ASSUME Nat \ S # {} PROVE FALSE
  OBVIOUS
<1>2. PICK x \in Nat \ S : \A y \in Nat \ S : x <= y
  BY <1>1, Least
<1>3. x - 1 \in Nat /\ x - 1 < x /\ x - 1 + 1 = x
  BY <1>1
<1>4. x - 1 \in S
  BY <1>2, <1>3
<1> QED BY <1>2, <1>3, <1>4

\* FlattenSeq appends one sequence after the other.
Flattens(seqs, n, f) ==
    /\ FlattenSeq(seqs) = f[n]
    /\ \A k \in 1 .. n : f[k] = IF k = 1 THEN seqs[k] ELSE f[k - 1] \o seqs[k]

LEMMA FlattenUnfolds ==
    ASSUME NEW seqs, NEW n \in Nat \ {0}, Len(seqs) = n
    PROVE  \E f : Flattens(seqs, n, f)
<1> DEFINE More(x, k) == x \o seqs[k]
           D(f, m) == [k \in 1 .. m |-> IF k = 1 THEN seqs[k] ELSE More(f[k - 1], k)]
           S == {m \in Nat : \E f : f = D(f, m)}
<1> HIDE DEF More
<1>1. 0 \in S
  <2> DEFINE f == [k \in 1 .. 0 |-> seqs[k]]
  <2>1. f = D(f, 0)
    OBVIOUS
  <2> QED BY <2>1
<1>2. ASSUME NEW m \in Nat, m \in S PROVE m + 1 \in S
  <2>1. PICK f : f = D(f, m)
    BY <1>2
  <2> DEFINE g == [k \in 1 .. m + 1 |->
                      IF k # m + 1 THEN f[k]
                      ELSE IF m + 1 = 1 THEN seqs[1] ELSE More(f[m], m + 1)]
  <2>2. \A k \in 1 .. m : f[k] = IF k = 1 THEN seqs[k] ELSE More(f[k - 1], k)
    BY <2>1
  <2>3. ASSUME NEW k \in 1 .. m + 1
        PROVE  g[k] = IF k = 1 THEN seqs[k] ELSE More(g[k - 1], k)
    <3>1. CASE k = m + 1
      BY <3>1
    <3>2. CASE k # m + 1
      <4>1. k \in 1 .. m /\ g[k] = f[k] /\ (k # 1 => g[k - 1] = f[k - 1])
        BY <3>2
      <4> QED BY <4>1, <2>2
    <3> QED BY <3>1, <3>2
  <2>4. g = D(g, m + 1)
    BY <2>3
  <2>5. \E h : h = D(h, m + 1)
    <3> HIDE DEF D, g
    <3> QED BY <2>4
  <2> QED BY <2>5
<1>3. Nat \subseteq S
  <2> HIDE DEF S
  <2> QED BY <1>1, <1>2, SetInduction
<1>4. \E f : f = D(f, n)
  BY <1>3
<1> DEFINE F == CHOOSE f : f = D(f, n)
<1>5. F = D(F, n)
  <2> HIDE DEF D
  <2> QED BY <1>4
<1>6. FlattenSeq(seqs) = F[n]
  <2>1. Len(seqs) = n /\ ~(Len(seqs) = 0)
    OBVIOUS
  <2> QED BY <2>1, Zenon DEF FlattenSeq, More
<1> HIDE DEF F
<1>7. \A k \in 1 .. n : F[k] = IF k = 1 THEN seqs[k] ELSE F[k - 1] \o seqs[k]
  BY <1>5 DEF More
<1> QED BY <1>6, <1>7 DEF Flattens

LEMMA FlattenOne == ASSUME NEW s PROVE FlattenSeq(<<s>>) = s
<1> DEFINE seqs == <<s>>
<1>1. Len(seqs) = 1 /\ Len(seqs) \in Nat \ {0} /\ seqs[1] = s
  OBVIOUS
<1> HIDE DEF seqs
<1>2. PICK f : FlattenSeq(seqs) = f[1] /\ f[1] = seqs[1]
  <2>1. PICK f : Flattens(seqs, 1, f)
    BY <1>1, FlattenUnfolds
  <2> QED BY <2>1 DEF Flattens
<1> QED BY <1>1, <1>2 DEF seqs

\* Sequences of four symbols each.
FourEach(A, n, g) == \A i \in 1 .. n : g[i] \in Seq(A) /\ Len(g[i]) = 4

InFours(A, n, g, s) ==
    /\ s \in Seq(A) /\ Len(s) = 4 * n
    /\ \A i \in 1 .. n, m \in 1 .. 4 : s[4 * (i - 1) + m] = g[i][m]

LEMMA FlattenFours ==
    ASSUME NEW A, NEW n \in Nat, NEW g, FourEach(A, n, g), NEW seqs, seqs = [i \in 1 .. n |-> g[i]]
    PROVE  InFours(A, n, g, FlattenSeq(seqs))
<1>0. \A i \in 1 .. n : g[i] \in Seq(A) /\ Len(g[i]) = 4
  BY DEF FourEach
<1> SUFFICES /\ FlattenSeq(seqs) \in Seq(A) /\ Len(FlattenSeq(seqs)) = 4 * n
             /\ \A i \in 1 .. n, m \in 1 .. 4 : FlattenSeq(seqs)[4 * (i - 1) + m] = g[i][m]
  BY DEF InFours
<1>1. Len(seqs) = n /\ \A i \in 1 .. n : seqs[i] = g[i]
  OBVIOUS
<1>2. CASE n = 0
  <2>1. FlattenSeq(seqs) = seqs
    BY <1>1, <1>2 DEF FlattenSeq
  <2>2. seqs \in Seq(A)
    <3>1. seqs \in [1 .. n -> A]
      BY <1>2
    <3> QED BY <3>1
  <2>3. Len(seqs) = 4 * n /\ 1 .. n = {}
    BY <1>1, <1>2
  <2> QED BY <2>1, <2>2, <2>3, Zenon
<1>3. CASE n # 0
  <2>1. PICK f : /\ FlattenSeq(seqs) = f[n]
                 /\ \A k \in 1 .. n : f[k] = IF k = 1 THEN g[k] ELSE f[k - 1] \o g[k]
    <3>1. n \in Nat \ {0}
      BY <1>3
    <3>2. PICK f : Flattens(seqs, n, f)
      BY <1>1, <3>1, FlattenUnfolds
    <3>3. \A k \in 1 .. n : f[k] = IF k = 1 THEN g[k] ELSE f[k - 1] \o g[k]
      <4>1. \A k \in 1 .. n : f[k] = IF k = 1 THEN seqs[k] ELSE f[k - 1] \o seqs[k]
        BY <3>2, Zenon DEF Flattens
      <4> QED BY <1>1, <4>1, Zenon
    <3>4. FlattenSeq(seqs) = f[n]
      BY <3>2, Zenon DEF Flattens
    <3> QED BY <3>3, <3>4
  <2> DEFINE Right(k) == /\ f[k] \in Seq(A) /\ Len(f[k]) = 4 * k
                         /\ \A i \in 1 .. k, m \in 1 .. 4 : f[k][4 * (i - 1) + m] = g[i][m]
             S == {k \in Nat : 1 <= k /\ k <= n => Right(k)}
  <2>2. 0 \in S
    OBVIOUS
  <2>3. ASSUME NEW k \in Nat, k \in S PROVE k + 1 \in S
    <3> SUFFICES ASSUME k + 1 <= n PROVE Right(k + 1)
      OBVIOUS
    <3>1. k + 1 \in 1 .. n /\ (k + 1) - 1 = k
      OBVIOUS
    <3>2. CASE k = 0
      <4>1. f[1] = g[1] /\ g[1] \in Seq(A) /\ Len(g[1]) = 4
        BY <1>0, <2>1, <3>1, <3>2
      <4>2. \A i \in 1 .. 1 : i = 1
        OBVIOUS
      <4> QED BY <3>2, <4>1, <4>2
    <3>3. CASE k # 0
      <4> DEFINE x == f[k]
                 y == g[k + 1]
      <4>1. f[k + 1] = x \o y
        <5>1. k + 1 # 1
          BY <3>3
        <5> QED BY <2>1, <3>1, <5>1
      <4>2. y \in Seq(A) /\ Len(y) = 4
        BY <1>0, <3>1
      <4>3. /\ x \in Seq(A) /\ Len(x) = 4 * k
            /\ \A i \in 1 .. k, m \in 1 .. 4 : x[4 * (i - 1) + m] = g[i][m]
        BY <2>3, <3>3
      <4> HIDE DEF x
      <4>4. /\ x \o y \in Seq(A) /\ Len(x \o y) = 4 * (k + 1)
            /\ \A j \in 1 .. 4 * (k + 1) :
                  (x \o y)[j] = IF j <= 4 * k THEN x[j] ELSE y[j - 4 * k]
        <5> HIDE DEF y
        <5>1. x \o y \in Seq(A) /\ Len(x \o y) = Len(x) + Len(y)
          BY <4>2, <4>3, ConcatProperties
        <5>2. \A j \in 1 .. Len(x) + Len(y) :
                 (x \o y)[j] = IF j <= Len(x) THEN x[j] ELSE y[j - Len(x)]
          BY <4>2, <4>3, ConcatProperties
        <5>3. Len(x) + Len(y) = 4 * (k + 1)
          BY <4>2, <4>3
        <5> QED BY <4>3, <5>1, <5>2, <5>3
      <4>5. ASSUME NEW i \in 1 .. k + 1, NEW m \in 1 .. 4
            PROVE  (x \o y)[4 * (i - 1) + m] = g[i][m]
        <5> DEFINE j == 4 * (i - 1) + m
        <5>1. j \in 1 .. 4 * (k + 1)
          OBVIOUS
        <5>2. CASE i <= k
          <6>1. j <= 4 * k /\ i \in 1 .. k
            BY <5>2
          <6> QED BY <4>3, <4>4, <5>1, <6>1
        <5>3. CASE i = k + 1
          <6>1. ~(j <= 4 * k) /\ j - 4 * k = m
            BY <5>3
          <6> HIDE DEF j
          <6> HIDE DEF y
          <6>2. (x \o y)[j] = y[m]
            BY <4>4, <5>1, <6>1
          <6>3. y[m] = g[i][m]
            BY <5>3 DEF y
          <6> QED BY <6>2, <6>3 DEF j
        <5>4. i <= k \/ i = k + 1
          OBVIOUS
        <5> QED BY <5>2, <5>3, <5>4, Zenon
      <4> QED BY <4>1, <4>4, <4>5
    <3> QED BY <3>2, <3>3
  <2>4. Nat \subseteq S
    <3> HIDE DEF S
    <3> QED BY <2>2, <2>3, SetInduction
  <2>5. Right(n)
    <3>1. n \in S /\ 1 <= n /\ n <= n
      BY <1>3, <2>4
    <3> HIDE DEF Right
    <3> QED BY <3>1
  <2> QED BY <2>1, <2>5
<1> QED BY <1>2, <1>3

Joined(A, s, n, t, m, u) ==
    /\ u \in Seq(A) /\ Len(u) = n + m
    /\ \A i \in 1 .. n : u[i] = s[i]
    /\ \A i \in 1 .. m : u[n + i] = t[i]

LEMMA Join ==
    ASSUME NEW A, NEW s \in Seq(A), NEW t \in Seq(A), NEW n \in Nat, Len(s) = n,
           NEW m \in Nat, Len(t) = m
    PROVE  Joined(A, s, n, t, m, s \o t)
<1>1. /\ s \o t \in Seq(A) /\ Len(s \o t) = n + m
      /\ \A i \in 1 .. n + m : (s \o t)[i] = IF i <= n THEN s[i] ELSE t[i - n]
  BY ConcatProperties
<1>2. ASSUME NEW i \in 1 .. n PROVE (s \o t)[i] = s[i]
  <2>1. i \in 1 .. n + m /\ i <= n
    OBVIOUS
  <2> QED BY <1>1, <2>1
<1>3. ASSUME NEW i \in 1 .. m PROVE (s \o t)[n + i] = t[i]
  <2>1. n + i \in 1 .. n + m /\ ~(n + i <= n) /\ (n + i) - n = i
    OBVIOUS
  <2> QED BY <1>1, <2>1
<1> QED BY <1>1, <1>2, <1>3 DEF Joined

\* The symbols of a request.
Values(r) ==
    {"", "0", "1", r.method, r.minor} \cup Range(r.path) \cup Range(r.body)
    \cup {h[1] : h \in Range(r.headers)} \cup {h[2] : h \in Range(r.headers)}

Symbols(r) ==
    [t : {"method", "url", "http", "field", "colon", "value", "crlf", "size", "byte"},
     v : Values(r)]

\* Where the headers end, and where the request does.
HeadEnd(r) == Len(r.path) + 4 * Len(r.headers) + 3

BodySize(r) == IF r.chunked THEN 4 * Len(r.body) + 3 ELSE Len(r.body)

Crlf == Sym("crlf", "")

HeadCoded(r, E) ==
    LET P == Len(r.path) IN
    /\ E[1] = Sym("method", r.method)
    /\ \A i \in 1 .. P : E[1 + i] = Sym("url", r.path[i])
    /\ E[P + 2] = Sym("http", r.minor)
    /\ \A i \in 0 .. Len(r.headers) - 1 :
          LET n == P + 2 + 4 * i IN
          /\ E[n + 1] = Sym("field", r.headers[i + 1][1])
          /\ E[n + 2] = Sym("colon", "")
          /\ E[n + 3] = Sym("value", r.headers[i + 1][2])
          /\ E[n + 4] = Crlf
    /\ E[HeadEnd(r)] = Crlf

BodyCoded(r, E) ==
    LET K == HeadEnd(r)
        B == Len(r.body)
    IN /\ ~r.chunked => \A j \in 1 .. B : E[K + j] = Sym("byte", r.body[j])
       /\ r.chunked =>
             /\ \A j \in 0 .. B - 1 :
                   LET n == K + 4 * j IN
                   /\ E[n + 1] = Sym("size", "1") /\ E[n + 2] = Crlf
                   /\ E[n + 3] = Sym("byte", r.body[j + 1]) /\ E[n + 4] = Crlf
             /\ E[K + 4 * B + 1] = Sym("size", "0")
             /\ E[K + 4 * B + 2] = Crlf /\ E[K + 4 * B + 3] = Crlf

LEMMA RequestTypes ==
    ASSUME NEW r, IsRequest(r)
    PROVE  /\ Len(r.path) \in Nat /\ Len(r.headers) \in Nat /\ Len(r.body) \in Nat
           /\ r.chunked \in BOOLEAN
           /\ \A i \in 1 .. Len(r.path) : r.path[i] \in Range(r.path)
           /\ \A i \in 1 .. Len(r.body) : r.body[i] \in Range(r.body)
           /\ \A i \in 1 .. Len(r.headers) :
                 /\ r.headers[i] \in Range(r.headers)
                 /\ r.headers[i] = <<r.headers[i][1], r.headers[i][2]>>
<1> DEFINE R == {<<h[1], h[2]>> : h \in Range(r.headers)}
<1>1. /\ r.path \in Seq(Range(r.path)) /\ r.body \in Seq(Range(r.body))
      /\ r.headers \in Seq(R) /\ r.chunked \in BOOLEAN
  BY DEF IsRequest
<1> HIDE DEF R
<1>2. Len(r.path) \in Nat /\ Len(r.headers) \in Nat /\ Len(r.body) \in Nat
  BY <1>1
<1>3. \A i \in 1 .. Len(r.path) : r.path[i] \in Range(r.path)
  BY <1>1
<1>4. \A i \in 1 .. Len(r.body) : r.body[i] \in Range(r.body)
  BY <1>1
<1>5. ASSUME NEW i \in 1 .. Len(r.headers)
      PROVE  /\ r.headers[i] \in Range(r.headers)
             /\ r.headers[i] = <<r.headers[i][1], r.headers[i][2]>>
  <2>1. DOMAIN r.headers = 1 .. Len(r.headers) /\ r.headers[i] \in R
    BY <1>1
  <2>2. r.headers[i] \in Range(r.headers)
    BY <2>1 DEF Range
  <2>3. PICK h : r.headers[i] = <<h[1], h[2]>>
    BY <2>1 DEF R
  <2> QED BY <2>2, <2>3
<1> QED BY <1>1, <1>2, <1>3, <1>4, <1>5

LEMMA SymbolTypes ==
    ASSUME NEW r, IsRequest(r)
    PROVE  /\ Sym("method", r.method) \in Symbols(r) /\ Sym("http", r.minor) \in Symbols(r)
           /\ Crlf \in Symbols(r) /\ Sym("colon", "") \in Symbols(r)
           /\ Sym("size", "0") \in Symbols(r) /\ Sym("size", "1") \in Symbols(r)
           /\ \A i \in 1 .. Len(r.path) : Sym("url", r.path[i]) \in Symbols(r)
           /\ \A i \in 1 .. Len(r.body) : Sym("byte", r.body[i]) \in Symbols(r)
           /\ \A i \in 1 .. Len(r.headers) :
                 /\ Sym("field", r.headers[i][1]) \in Symbols(r)
                 /\ Sym("value", r.headers[i][2]) \in Symbols(r)
<1> DEFINE V == Values(r)
<1>1. V = {"", "0", "1", r.method, r.minor} \cup Range(r.path) \cup Range(r.body)
          \cup {h[1] : h \in Range(r.headers)} \cup {h[2] : h \in Range(r.headers)}
  BY DEF Values
<1> DEFINE T == {"method", "url", "http", "field", "colon", "value", "crlf", "size", "byte"}
<1>2. Symbols(r) = [t : T, v : V]
  BY DEF Symbols
<1> HIDE DEF V
<1>3. ASSUME NEW t \in T, NEW v \in V PROVE Sym(t, v) \in Symbols(r)
  BY <1>2 DEF Sym
<1>4. "" \in V /\ "0" \in V /\ "1" \in V /\ r.method \in V /\ r.minor \in V
  BY <1>1, Zenon
<1>5. \A i \in 1 .. Len(r.path) : r.path[i] \in V
  BY <1>1, RequestTypes, Zenon
<1>6. \A i \in 1 .. Len(r.body) : r.body[i] \in V
  BY <1>1, RequestTypes, Zenon
<1>7. ASSUME NEW i \in 1 .. Len(r.headers) PROVE r.headers[i][1] \in V /\ r.headers[i][2] \in V
  <2>1. r.headers[i] \in Range(r.headers)
    BY RequestTypes
  <2>2. r.headers[i][1] \in {h[1] : h \in Range(r.headers)}
    BY <2>1, Zenon
  <2>3. r.headers[i][2] \in {h[2] : h \in Range(r.headers)}
    BY <2>1, Zenon
  <2> QED BY <1>1, <2>2, <2>3, Zenon
<1>8. /\ "method" \in T /\ "http" \in T /\ "crlf" \in T /\ "colon" \in T
      /\ "size" \in T /\ "url" \in T /\ "byte" \in T /\ "field" \in T
      /\ "value" \in T
  OBVIOUS
<1> HIDE DEF T
<1> QED BY <1>3, <1>4, <1>5, <1>6, <1>7, <1>8, Zenon DEF Crlf

LEMMA FourSymbols ==
    ASSUME NEW A, NEW a \in A, NEW b \in A, NEW c \in A, NEW d \in A
    PROVE  /\ <<a, b, c, d>> \in Seq(A) /\ Len(<<a, b, c, d>>) = 4
           /\ <<a, b, c, d>>[1] = a /\ <<a, b, c, d>>[2] = b
           /\ <<a, b, c, d>>[3] = c /\ <<a, b, c, d>>[4] = d
OBVIOUS

\* Lines of four symbols, by their places.
SymbolsOf(A, n, a, b, c, d) ==
    \A i \in 1 .. n : a[i] \in A /\ b[i] \in A /\ c[i] \in A /\ d[i] \in A

InLines(A, n, a, b, c, d, s) ==
    /\ s \in Seq(A) /\ Len(s) = 4 * n
    /\ \A i \in 0 .. n - 1 : /\ s[4 * i + 1] = a[i + 1] /\ s[4 * i + 2] = b[i + 1]
                             /\ s[4 * i + 3] = c[i + 1] /\ s[4 * i + 4] = d[i + 1]

LEMMA FlattenLines ==
    ASSUME NEW A, NEW n \in Nat, NEW a, NEW b, NEW c, NEW d, SymbolsOf(A, n, a, b, c, d),
           NEW seqs, seqs = [i \in 1 .. n |-> <<a[i], b[i], c[i], d[i]>>]
    PROVE  InLines(A, n, a, b, c, d, FlattenSeq(seqs))
<1> DEFINE g == [i \in 1 .. n |-> <<a[i], b[i], c[i], d[i]>>]
           s == FlattenSeq(seqs)
<1>0. \A i \in 1 .. n : a[i] \in A /\ b[i] \in A /\ c[i] \in A /\ d[i] \in A
  BY DEF SymbolsOf
<1>1. \A i \in 1 .. n : /\ g[i] \in Seq(A) /\ Len(g[i]) = 4
                        /\ g[i][1] = a[i] /\ g[i][2] = b[i] /\ g[i][3] = c[i] /\ g[i][4] = d[i]
  BY <1>0, FourSymbols
<1>2. seqs = [i \in 1 .. n |-> g[i]]
  OBVIOUS
<1> HIDE DEF g
<1>3. InFours(A, n, g, s)
  <2>1. FourEach(A, n, g)
    BY <1>1 DEF FourEach
  <2> QED BY <1>2, <2>1, FlattenFours, Zenon
<1> HIDE DEF s
<1>4. ASSUME NEW i \in 0 .. n - 1
      PROVE  /\ s[4 * i + 1] = a[i + 1] /\ s[4 * i + 2] = b[i + 1]
             /\ s[4 * i + 3] = c[i + 1] /\ s[4 * i + 4] = d[i + 1]
  <2>1. i + 1 \in 1 .. n /\ (i + 1) - 1 = i
    OBVIOUS
  <2>2. \A m \in 1 .. 4 : s[4 * i + m] = g[i + 1][m]
    BY <1>3, <2>1 DEF InFours
  <2>3. /\ s[4 * i + 1] = g[i + 1][1] /\ s[4 * i + 2] = g[i + 1][2]
        /\ s[4 * i + 3] = g[i + 1][3] /\ s[4 * i + 4] = g[i + 1][4]
    BY <2>2
  <2> QED BY <1>1, <2>1, <2>3, Zenon
<1>5. s \in Seq(A) /\ Len(s) = 4 * n
  BY <1>3 DEF InFours
<1> QED BY <1>4, <1>5, Zenon DEF s, InLines

LEMMA HeadersCoded ==
    ASSUME NEW r, IsRequest(r), NEW h,
           h = FlattenSeq([i \in 1 .. Len(r.headers) |-> HeaderLine(r.headers[i])])
    PROVE  /\ h \in Seq(Symbols(r)) /\ Len(h) = 4 * Len(r.headers)
           /\ \A i \in 0 .. Len(r.headers) - 1 :
                 /\ h[4 * i + 1] = Sym("field", r.headers[i + 1][1])
                 /\ h[4 * i + 2] = Sym("colon", "")
                 /\ h[4 * i + 3] = Sym("value", r.headers[i + 1][2])
                 /\ h[4 * i + 4] = Crlf
<1> DEFINE n == Len(r.headers)
           a == [i \in 1 .. n |-> Sym("field", r.headers[i][1])]
           b == [i \in 1 .. n |-> Sym("colon", "")]
           c == [i \in 1 .. n |-> Sym("value", r.headers[i][2])]
           d == [i \in 1 .. n |-> Crlf]
           A == Symbols(r)
           seqs == [i \in 1 .. n |-> HeaderLine(r.headers[i])]
<1>1. n \in Nat
  BY RequestTypes
<1>a. \A i \in 1 .. n : /\ a[i] = Sym("field", r.headers[i][1]) /\ b[i] = Sym("colon", "")
                        /\ c[i] = Sym("value", r.headers[i][2]) /\ d[i] = Crlf
  BY Zenon
<1>3. seqs = [i \in 1 .. n |-> <<a[i], b[i], c[i], d[i]>>]
  <2>1. \A i \in 1 .. n : HeaderLine(r.headers[i]) = <<a[i], b[i], c[i], d[i]>>
    BY Zenon DEF HeaderLine, Crlf
  <2> HIDE DEF a, b, c, d, n
  <2> QED BY <2>1
<1>4. \A i \in 0 .. n - 1 : /\ a[i + 1] = Sym("field", r.headers[i + 1][1])
                            /\ b[i + 1] = Sym("colon", "")
                            /\ c[i + 1] = Sym("value", r.headers[i + 1][2])
                            /\ d[i + 1] = Crlf
  <2> HIDE DEF a, b, c, d
  <2>1. \A i \in 0 .. n - 1 : i + 1 \in 1 .. n
    BY <1>1
  <2> QED BY <1>a, <2>1, Zenon
<1>5. h = FlattenSeq(seqs)
  OBVIOUS
<1> HIDE DEF a, b, c, d
<1>2. \A i \in 1 .. n : a[i] \in A /\ b[i] \in A /\ c[i] \in A /\ d[i] \in A
  BY <1>a, SymbolTypes, Zenon
<1> HIDE DEF A, n, seqs
<1>6. InLines(A, n, a, b, c, d, h)
  <2>1. SymbolsOf(A, n, a, b, c, d)
    BY <1>2, Zenon DEF SymbolsOf
  <2> QED BY <1>1, <1>3, <1>5, <2>1, FlattenLines, Zenon
<1>7. h \in Seq(A) /\ Len(h) = 4 * n
      /\ \A i \in 0 .. n - 1 :
             /\ h[4 * i + 1] = Sym("field", r.headers[i + 1][1])
             /\ h[4 * i + 2] = Sym("colon", "")
             /\ h[4 * i + 3] = Sym("value", r.headers[i + 1][2])
             /\ h[4 * i + 4] = Crlf
  BY <1>4, <1>6, Zenon DEF InLines
<1> QED BY <1>7, Zenon DEF A, n

\* The body, from its first symbol on.
BodySymbols(r, b) ==
    /\ ~r.chunked => \A j \in 1 .. Len(r.body) : b[j] = Sym("byte", r.body[j])
    /\ r.chunked =>
          /\ \A j \in 0 .. Len(r.body) - 1 :
                /\ b[4 * j + 1] = Sym("size", "1") /\ b[4 * j + 2] = Crlf
                /\ b[4 * j + 3] = Sym("byte", r.body[j + 1]) /\ b[4 * j + 4] = Crlf
          /\ b[4 * Len(r.body) + 1] = Sym("size", "0")
          /\ b[4 * Len(r.body) + 2] = Crlf /\ b[4 * Len(r.body) + 3] = Crlf

LEMMA BodyIsCoded ==
    ASSUME NEW r, IsRequest(r), NEW b, b = IF r.chunked THEN Chunked(r) ELSE Body(r)
    PROVE  b \in Seq(Symbols(r)) /\ Len(b) = BodySize(r) /\ BodySymbols(r, b)
<1> DEFINE n == Len(r.body)
           A == Symbols(r)
<1>1. n \in Nat /\ r.chunked \in BOOLEAN
  BY RequestTypes
<1>2. \A i \in 1 .. n : Sym("byte", r.body[i]) \in A
  BY SymbolTypes, Zenon
<1>3. CASE ~r.chunked
  <2>1. b = [i \in 1 .. n |-> Sym("byte", r.body[i])]
    BY <1>3 DEF Body
  <2> HIDE DEF A, n
  <2>2. b \in Seq(A) /\ Len(b) = n /\ \A j \in 1 .. n : b[j] = Sym("byte", r.body[j])
    BY <1>1, <1>2, <2>1
  <2> QED BY <1>3, <2>2, Zenon DEF A, n, BodySize, BodySymbols
<1>4. CASE r.chunked
  <2> DEFINE s == [i \in 1 .. n |-> Sym("size", "1")]
             c == [i \in 1 .. n |-> Crlf]
             y == [i \in 1 .. n |-> Sym("byte", r.body[i])]
             seqs == [i \in 1 .. n |->
                        <<Sym("size", "1"), Sym("crlf", ""), Sym("byte", r.body[i]),
                          Sym("crlf", "")>>]
             h == FlattenSeq(seqs)
             e == <<Sym("size", "0"), Sym("crlf", ""), Sym("crlf", "")>>
  <2>1. b = h \o e
    BY <1>4, Zenon DEF Chunked
  <2>a. \A i \in 1 .. n : s[i] = Sym("size", "1") /\ c[i] = Crlf /\ y[i] = Sym("byte", r.body[i])
    OBVIOUS
  <2>3. seqs = [i \in 1 .. n |-> <<s[i], c[i], y[i], c[i]>>]
    <3>1. \A i \in 1 .. n :
             <<Sym("size", "1"), Sym("crlf", ""), Sym("byte", r.body[i]), Sym("crlf", "")>>
                 = <<s[i], c[i], y[i], c[i]>>
      BY Zenon DEF Crlf
    <3> HIDE DEF s, c, y
    <3> QED BY <3>1, Zenon
  <2>4. \A i \in 0 .. n - 1 : /\ s[i + 1] = Sym("size", "1") /\ c[i + 1] = Crlf
                              /\ y[i + 1] = Sym("byte", r.body[i + 1])
    <3> HIDE DEF s, c, y
    <3>1. \A i \in 0 .. n - 1 : i + 1 \in 1 .. n
      BY <1>1
    <3> QED BY <2>a, <3>1, Zenon
  <2> HIDE DEF s, c, y
  <2>2. \A i \in 1 .. n : s[i] \in A /\ c[i] \in A /\ y[i] \in A /\ c[i] \in A
    BY <2>a, SymbolTypes, Zenon
  <2>5. e \in Seq(A) /\ Len(e) = 3 /\ e[1] = Sym("size", "0") /\ e[2] = Crlf /\ e[3] = Crlf
    <3>1. Sym("size", "0") \in A /\ Crlf \in A
      BY SymbolTypes, Zenon
    <3>2. e = <<Sym("size", "0"), Crlf, Crlf>>
      BY Zenon DEF Crlf
    <3> HIDE DEF e, A
    <3> QED BY <3>1, <3>2
  <2> HIDE DEF seqs, e, A, n
  <2>6. InLines(A, n, s, c, y, c, h)
    <3>1. SymbolsOf(A, n, s, c, y, c)
      BY <2>2, Zenon DEF SymbolsOf
    <3> QED BY <1>1, <2>3, <3>1, FlattenLines, Zenon
  <2> HIDE DEF h
  <2>7. 4 * n \in Nat /\ 3 \in Nat
    BY <1>1
  <2>8. Joined(A, h, 4 * n, e, 3, b)
    BY <2>1, <2>5, <2>6, <2>7, Join, Zenon DEF InLines
  <2>9. ASSUME NEW j \in 0 .. n - 1
        PROVE  /\ b[4 * j + 1] = Sym("size", "1") /\ b[4 * j + 2] = Crlf
               /\ b[4 * j + 3] = Sym("byte", r.body[j + 1]) /\ b[4 * j + 4] = Crlf
    <3>1. /\ 4 * j + 1 \in 1 .. 4 * n /\ 4 * j + 2 \in 1 .. 4 * n
          /\ 4 * j + 3 \in 1 .. 4 * n /\ 4 * j + 4 \in 1 .. 4 * n
      BY <1>1
    <3>2. /\ b[4 * j + 1] = h[4 * j + 1] /\ b[4 * j + 2] = h[4 * j + 2]
          /\ b[4 * j + 3] = h[4 * j + 3] /\ b[4 * j + 4] = h[4 * j + 4]
      BY <2>8, <3>1, Zenon DEF Joined
    <3>3. /\ h[4 * j + 1] = s[j + 1] /\ h[4 * j + 2] = c[j + 1]
          /\ h[4 * j + 3] = y[j + 1] /\ h[4 * j + 4] = c[j + 1]
      BY <2>6, Zenon DEF InLines
    <3> QED BY <2>4, <3>2, <3>3, Zenon
  <2>10. b[4 * n + 1] = Sym("size", "0") /\ b[4 * n + 2] = Crlf /\ b[4 * n + 3] = Crlf
    <3>1. 1 \in 1 .. 3 /\ 2 \in 1 .. 3 /\ 3 \in 1 .. 3
      OBVIOUS
    <3> QED BY <2>5, <2>8, <3>1, Zenon DEF Joined
  <2>11. b \in Seq(A) /\ Len(b) = 4 * n + 3
    BY <2>8, Zenon DEF Joined
  <2> QED BY <1>4, <2>9, <2>10, <2>11, Zenon DEF A, n, BodySize, BodySymbols
<1> QED BY <1>1, <1>3, <1>4, Zenon

LEMMA RequestCoded ==
    ASSUME NEW r, IsRequest(r), NEW E, E = Encode(r)
    PROVE  /\ E \in Seq(Symbols(r)) /\ Len(E) = HeadEnd(r) + BodySize(r)
           /\ HeadCoded(r, E) /\ BodyCoded(r, E)
<1> DEFINE P == Len(r.path)
           H == Len(r.headers)
           B == Len(r.body)
           A == Symbols(r)
           s1 == <<Sym("method", r.method)>>
           s2 == [i \in 1 .. P |-> Sym("url", r.path[i])]
           s3 == <<Sym("http", r.minor)>>
           s4 == FlattenSeq([i \in 1 .. H |-> HeaderLine(r.headers[i])])
           s5 == <<Sym("crlf", "")>>
           s6 == IF r.chunked THEN Chunked(r) ELSE Body(r)
           t2 == s1 \o s2
           t3 == t2 \o s3
           t4 == t3 \o s4
           t5 == t4 \o s5
           Z == BodySize(r)
<1>1. P \in Nat /\ H \in Nat /\ B \in Nat /\ r.chunked \in BOOLEAN
  BY RequestTypes, Zenon
<1>2. E = t5 \o s6
  BY Zenon DEF Encode
<1>3. s1 \in Seq(A) /\ Len(s1) = 1 /\ s1[1] = Sym("method", r.method)
  <2>1. Sym("method", r.method) \in A
    BY SymbolTypes, Zenon
  <2> HIDE DEF A
  <2> QED BY <2>1
<1>4. s2 \in Seq(A) /\ Len(s2) = P /\ \A i \in 1 .. P : s2[i] = Sym("url", r.path[i])
  <2>1. \A i \in 1 .. P : Sym("url", r.path[i]) \in A
    BY SymbolTypes, Zenon
  <2> HIDE DEF A, P
  <2> QED BY <1>1, <2>1
<1>5. s3 \in Seq(A) /\ Len(s3) = 1 /\ s3[1] = Sym("http", r.minor)
  <2>1. Sym("http", r.minor) \in A
    BY SymbolTypes, Zenon
  <2> HIDE DEF A
  <2> QED BY <2>1
<1>6. /\ s4 \in Seq(A) /\ Len(s4) = 4 * H
      /\ \A i \in 0 .. H - 1 : /\ s4[4 * i + 1] = Sym("field", r.headers[i + 1][1])
                               /\ s4[4 * i + 2] = Sym("colon", "")
                               /\ s4[4 * i + 3] = Sym("value", r.headers[i + 1][2])
                               /\ s4[4 * i + 4] = Crlf
  BY HeadersCoded, Zenon
<1>7. s5 \in Seq(A) /\ Len(s5) = 1 /\ s5[1] = Crlf
  <2>1. Crlf \in A /\ s5 = <<Crlf>>
    BY SymbolTypes, Zenon DEF Crlf
  <2> HIDE DEF A, s5
  <2> QED BY <2>1
<1>a. s6 \in Seq(A) /\ Len(s6) = Z /\ BodySymbols(r, s6)
  BY BodyIsCoded, Zenon
<1>8. /\ s6 \in Seq(A) /\ Len(s6) = Z
      /\ ~r.chunked => \A j \in 1 .. B : s6[j] = Sym("byte", r.body[j])
      /\ r.chunked =>
            /\ \A j \in 0 .. B - 1 :
                  /\ s6[4 * j + 1] = Sym("size", "1") /\ s6[4 * j + 2] = Crlf
                  /\ s6[4 * j + 3] = Sym("byte", r.body[j + 1]) /\ s6[4 * j + 4] = Crlf
            /\ s6[4 * B + 1] = Sym("size", "0")
            /\ s6[4 * B + 2] = Crlf /\ s6[4 * B + 3] = Crlf
  BY <1>a, Zenon DEF BodySymbols
<1>9. Z \in Nat /\ Z = IF r.chunked THEN 4 * B + 3 ELSE B
  BY <1>1 DEF BodySize
<1>10. HeadEnd(r) = P + 4 * H + 3
  BY DEF HeadEnd
<1> HIDE DEF A, s1, s2, s3, s4, s5, s6, Z, P, H, B
<1> DEFINE K == P + 4 * H + 3
<1>11. Joined(A, s1, 1, s2, P, t2)
  BY <1>1, <1>3, <1>4, Join
<1>12. t2 \in Seq(A) /\ Len(t2) = P + 1 /\ P + 1 \in Nat
  BY <1>1, <1>11 DEF Joined
<1> HIDE DEF t2
<1>13. Joined(A, t2, P + 1, s3, 1, t3)
  BY <1>5, <1>12, Join
<1>14. t3 \in Seq(A) /\ Len(t3) = P + 2 /\ P + 2 \in Nat /\ 4 * H \in Nat
  BY <1>1, <1>13 DEF Joined
<1> HIDE DEF t3
<1>15. Joined(A, t3, P + 2, s4, 4 * H, t4)
  BY <1>6, <1>14, Join, Zenon
<1>16. t4 \in Seq(A) /\ Len(t4) = P + 2 + 4 * H /\ P + 2 + 4 * H \in Nat
  BY <1>1, <1>15 DEF Joined
<1> HIDE DEF t4
<1>17. Joined(A, t4, P + 2 + 4 * H, s5, 1, t5)
  BY <1>7, <1>16, Join
<1>18. t5 \in Seq(A) /\ Len(t5) = K /\ K \in Nat
  BY <1>1, <1>17 DEF Joined
<1> HIDE DEF t5
<1>19. Joined(A, t5, K, s6, Z, E)
  BY <1>2, <1>8, <1>9, <1>18, Join
<1>20. \A i \in 1 .. K : E[i] = t5[i]
  BY <1>19 DEF Joined
<1>21. \A i \in 1 .. P + 2 + 4 * H : E[i] = t4[i]
  <2>1. \A i \in 1 .. P + 2 + 4 * H : t5[i] = t4[i] /\ i \in 1 .. K
    BY <1>1, <1>17 DEF Joined
  <2> QED BY <1>20, <2>1
<1>22. \A i \in 1 .. P + 2 : E[i] = t3[i]
  <2>1. \A i \in 1 .. P + 2 : t4[i] = t3[i] /\ i \in 1 .. P + 2 + 4 * H
    BY <1>1, <1>15 DEF Joined
  <2> QED BY <1>21, <2>1
<1>23. \A i \in 1 .. P + 1 : E[i] = t2[i]
  <2>1. \A i \in 1 .. P + 1 : t3[i] = t2[i] /\ i \in 1 .. P + 2
    BY <1>1, <1>13 DEF Joined
  <2> QED BY <1>22, <2>1
<1>24. E[1] = Sym("method", r.method)
  <2>1. 1 \in 1 .. P + 1 /\ 1 \in 1 .. 1
    BY <1>1
  <2> QED BY <1>3, <1>11, <1>23, <2>1, Zenon DEF Joined
<1>25. ASSUME NEW i \in 1 .. P PROVE E[1 + i] = Sym("url", r.path[i])
  <2>1. 1 + i \in 1 .. P + 1
    BY <1>1
  <2> QED BY <1>4, <1>11, <1>23, <2>1, Zenon DEF Joined
<1>26. E[P + 2] = Sym("http", r.minor)
  <2>1. P + 2 \in 1 .. P + 2 /\ 1 \in 1 .. 1 /\ (P + 1) + 1 = P + 2
    BY <1>1
  <2>2. t3[(P + 1) + 1] = s3[1]
    BY <1>13, <2>1, Zenon DEF Joined
  <2>3. E[P + 2] = t3[P + 2]
    BY <1>22, <2>1, Zenon
  <2> QED BY <1>5, <2>1, <2>2, <2>3
<1>27. ASSUME NEW i \in 0 .. H - 1
       PROVE  LET n == P + 2 + 4 * i IN
              /\ E[n + 1] = Sym("field", r.headers[i + 1][1])
              /\ E[n + 2] = Sym("colon", "")
              /\ E[n + 3] = Sym("value", r.headers[i + 1][2])
              /\ E[n + 4] = Crlf
  <2>1. ASSUME NEW m \in 1 .. 4 PROVE E[(P + 2 + 4 * i) + m] = s4[4 * i + m]
    <3>1. /\ 4 * i + m \in 1 .. 4 * H /\ (P + 2) + (4 * i + m) = (P + 2 + 4 * i) + m
          /\ (P + 2 + 4 * i) + m \in 1 .. P + 2 + 4 * H
      BY <1>1
    <3>2. t4[(P + 2) + (4 * i + m)] = s4[4 * i + m]
      BY <1>15, <3>1, Zenon DEF Joined
    <3>3. E[(P + 2 + 4 * i) + m] = t4[(P + 2 + 4 * i) + m]
      BY <1>21, <3>1, Zenon
    <3> QED BY <3>1, <3>2, <3>3
  <2>2. 1 \in 1 .. 4 /\ 2 \in 1 .. 4 /\ 3 \in 1 .. 4 /\ 4 \in 1 .. 4
    OBVIOUS
  <2>3. /\ E[(P + 2 + 4 * i) + 1] = s4[4 * i + 1] /\ E[(P + 2 + 4 * i) + 2] = s4[4 * i + 2]
        /\ E[(P + 2 + 4 * i) + 3] = s4[4 * i + 3] /\ E[(P + 2 + 4 * i) + 4] = s4[4 * i + 4]
    BY <2>1, <2>2, Zenon
  <2> QED BY <1>6, <2>3, Zenon
<1>28. E[K] = Crlf
  <2>1. K \in 1 .. K /\ 1 \in 1 .. 1 /\ (P + 2 + 4 * H) + 1 = K
    BY <1>1
  <2>2. t5[(P + 2 + 4 * H) + 1] = s5[1]
    BY <1>17, <2>1, Zenon DEF Joined
  <2>3. E[K] = t5[K]
    BY <1>20, <2>1, Zenon
  <2> HIDE DEF K
  <2> QED BY <1>7, <2>1, <2>2, <2>3, Zenon
<1> HIDE DEF K
<1>29. K = HeadEnd(r)
  BY <1>10, Zenon DEF K
<1>30. HeadCoded(r, E)
  BY <1>24, <1>25, <1>26, <1>27, <1>28, <1>29, Zenon DEF HeadCoded, P, H
<1>31. \A i \in 1 .. Z : E[K + i] = s6[i]
  BY <1>19, Zenon DEF Joined
<1>32. ~r.chunked => \A j \in 1 .. B : E[K + j] = Sym("byte", r.body[j])
  BY <1>8, <1>9, <1>31
<1>33. ASSUME r.chunked
       PROVE  /\ \A j \in 0 .. B - 1 :
                   LET n == K + 4 * j IN
                   /\ E[n + 1] = Sym("size", "1") /\ E[n + 2] = Crlf
                   /\ E[n + 3] = Sym("byte", r.body[j + 1]) /\ E[n + 4] = Crlf
              /\ E[K + 4 * B + 1] = Sym("size", "0")
              /\ E[K + 4 * B + 2] = Crlf /\ E[K + 4 * B + 3] = Crlf
  <2>1. ASSUME NEW j \in 0 .. B, NEW m \in 1 .. 4, 4 * j + m <= 4 * B + 3
        PROVE  E[(K + 4 * j) + m] = s6[4 * j + m]
    <3>1. 4 * j + m \in 1 .. Z /\ K + (4 * j + m) = (K + 4 * j) + m
      BY <1>1, <1>9, <1>18, <1>33, <2>1 DEF K
    <3>2. E[K + (4 * j + m)] = s6[4 * j + m]
      BY <1>31, <3>1, Zenon
    <3> QED BY <3>1, <3>2
  <2>2. 1 \in 1 .. 4 /\ 2 \in 1 .. 4 /\ 3 \in 1 .. 4 /\ 4 \in 1 .. 4
    OBVIOUS
  <2>3. ASSUME NEW j \in 0 .. B - 1
        PROVE  /\ E[(K + 4 * j) + 1] = s6[4 * j + 1] /\ E[(K + 4 * j) + 2] = s6[4 * j + 2]
               /\ E[(K + 4 * j) + 3] = s6[4 * j + 3] /\ E[(K + 4 * j) + 4] = s6[4 * j + 4]
    <3>1. /\ j \in 0 .. B /\ 4 * j + 1 <= 4 * B + 3 /\ 4 * j + 2 <= 4 * B + 3
          /\ 4 * j + 3 <= 4 * B + 3 /\ 4 * j + 4 <= 4 * B + 3
      BY <1>1
    <3> QED BY <2>1, <2>2, <3>1, Zenon
  <2>4. /\ E[(K + 4 * B) + 1] = s6[4 * B + 1] /\ E[(K + 4 * B) + 2] = s6[4 * B + 2]
        /\ E[(K + 4 * B) + 3] = s6[4 * B + 3]
    <3>1. /\ B \in 0 .. B /\ 4 * B + 1 <= 4 * B + 3 /\ 4 * B + 2 <= 4 * B + 3
          /\ 4 * B + 3 <= 4 * B + 3
      BY <1>1
    <3> QED BY <2>1, <2>2, <3>1, Zenon
  <2> QED BY <1>8, <1>33, <2>3, <2>4, Zenon
<1>34. BodyCoded(r, E)
  BY <1>29, <1>32, <1>33, Zenon DEF BodyCoded, B
<1>35. E \in Seq(A) /\ Len(E) = K + Z
  BY <1>19, Zenon DEF Joined
<1> QED BY <1>29, <1>30, <1>34, <1>35, Zenon DEF A, Z

-----------------------------------------------------------------------------
(* The parser, symbol by symbol                                              *)

Fields ==
    {"state", "method", "minor", "header_state", "flags", "uses_transfer_encoding",
     "content_length", "upgrade", "exit", "http_errno", "mark", "text", "data", "field",
     "finished"}

\* A parser is a record of these fields.
Shape(p) == p = [f \in Fields |-> p[f]]

LEMMA NewShape == Shape(NewParser)
<1> DEFINE p == NewParser
           q == [state |-> p.state, method |-> p.method, minor |-> p.minor,
                 header_state |-> p.header_state, flags |-> p.flags,
                 uses_transfer_encoding |-> p.uses_transfer_encoding,
                 content_length |-> p.content_length, upgrade |-> p.upgrade,
                 exit |-> p.exit, http_errno |-> p.http_errno, mark |-> p.mark,
                 text |-> p.text, data |-> p.data, field |-> p.field,
                 finished |-> p.finished]
<1>1. p = q
  BY DEF NewParser
<1> HIDE DEF p
<1>2. DOMAIN p = Fields
  BY <1>1 DEF Fields
<1>3. p = [f \in DOMAIN p |-> p[f]]
  BY <1>1
<1> QED BY <1>2, <1>3 DEF Shape, p

\* Parsing goes on.
Calm(p) == Shape(p) /\ ~p.http_errno /\ p.exit = FALSE /\ ~p.finished

\* Nothing changes any more.
Frozen(p) == p.http_errno \/ p.exit

LEMMA FailFreezes ==
    ASSUME NEW p, Shape(p)
    PROVE  Shape(Fail(p)) /\ Fail(p).http_errno
BY DEF Shape, Fields, Fail

LEMMA FrozenStays == ASSUME NEW p, Frozen(p), NEW s PROVE Step(p, s) = p
BY Zenon DEF Frozen, Step

\* All fields but the state, what is marked and the message are the same.
Alike(p, q) ==
    /\ q.method = p.method /\ q.minor = p.minor /\ q.header_state = p.header_state
    /\ q.flags = p.flags /\ q.uses_transfer_encoding = p.uses_transfer_encoding
    /\ q.content_length = p.content_length /\ q.upgrade = p.upgrade /\ q.exit = p.exit
    /\ q.http_errno = p.http_errno /\ q.finished = p.finished

LEMMA MarkFacts ==
    ASSUME NEW p, Calm(p), NEW what, NEW s
    PROVE  /\ Calm(Mark(p, what, s)) /\ Alike(p, Mark(p, what, s))
           /\ Mark(p, what, s).state = p.state /\ Mark(p, what, s).field = p.field
           /\ Mark(p, what, s).data = p.data
           /\ Mark(p, what, s).mark = what /\ Mark(p, what, s).text = Append(p.text, s.v)
<1> DEFINE q == Mark(p, what, s)
<1>1. Shape(p)
  BY DEF Calm
<1>2. q = [p EXCEPT !.mark = what, !.text = Append(@, s.v)]
  BY DEF Mark
<1> HIDE DEF q
<1>3. Shape(q)
  BY <1>1, <1>2 DEF Shape, Fields
<1>4. /\ Alike(p, q) /\ q.state = p.state /\ q.field = p.field /\ q.data = p.data
      /\ q.mark = what /\ q.text = Append(p.text, s.v)
  BY <1>1, <1>2 DEF Shape, Fields, Alike
<1>5. Calm(q)
  BY <1>3, <1>4 DEF Calm, Alike
<1> QED BY <1>3, <1>4, <1>5 DEF q

LEMMA CallbackNone ==
    ASSUME NEW p, Shape(p), p.mark = "none", p.text = <<>>
    PROVE  Callback(p) = p
<1> DEFINE q == Callback(p)
<1>1. q = [p EXCEPT !.mark = "none", !.text = <<>>]
  BY DEF Callback
<1> HIDE DEF q
<1>2. q = [f \in Fields |-> q[f]]
  BY <1>1 DEF Shape, Fields
<1>3. \A f \in Fields : q[f] = p[f]
  BY <1>1 DEF Shape
<1>4. q = p
  BY <1>2, <1>3 DEF Shape
<1> QED BY <1>4 DEF q

LEMMA StepIs ==
    ASSUME NEW p, Calm(p), NEW s
    PROVE  /\ p.state = "start_req" => Step(p, s) = StartReq(p, s)
           /\ p.state = "spaces_before_url" => Step(p, s) = SpacesBeforeUrl(p, s)
           /\ p.state = "server_start" => Step(p, s) = Url(p, s)
           /\ p.state = "path" => Step(p, s) = Url(p, s)
           /\ p.state = "header_field_start" => Step(p, s) = HeaderFieldStart(p, s)
           /\ p.state = "header_field" => Step(p, s) = HeaderField(p, s)
           /\ p.state = "header_value_start" => Step(p, s) = HeaderValueStart(p, s)
           /\ p.state = "header_value" => Step(p, s) = HeaderValue(p, s)
           /\ p.state = "body_identity" => Step(p, s) = BodyIdentity(p, s)
           /\ p.state = "chunk_size_start" => Step(p, s) = ChunkSize(p, s)
           /\ p.state = "chunk_size_almost_done" => Step(p, s) = ChunkSizeAlmostDone(p, s)
           /\ p.state = "chunk_data" => Step(p, s) = ChunkData(p, s)
           /\ p.state = "chunk_data_almost_done" => Step(p, s) = ChunkDataDone(p, s)
<1> ~(p.http_errno \/ p.exit)
  BY DEF Calm
<1> QED BY DEF Step

\* What headers do to the parser: its flags, whether there is a transfer encoding, the
\* length, the message's headers.
FlagsOf(name, value) ==
    IF name = "content-length" THEN {"contentlength"}
    ELSE (IF name = "upgrade" THEN {"upgrade"} ELSE {})
         \cup ({ValueState(HeaderState(name), value)}
                  \cap {"keep-alive", "close", "chunked", "connection-upgrade"})

FlagsUpTo(r, i) == UNION {FlagsOf(r.headers[j][1], r.headers[j][2]) : j \in 1 .. i}

Encoded(r, i) == \E j \in 1 .. i : r.headers[j][1] = "transfer-encoding"

LengthsUpTo(r, i) == {j \in 1 .. i : r.headers[j][1] = "content-length"}

LengthIs(r, i, n) ==
    \/ LengthsUpTo(r, i) = {} /\ n = ULLONG_MAX
    \/ \E j \in 1 .. i : /\ LengthsUpTo(r, i) = {j} /\ r.headers[j][2] \in DOMAIN Number
                         /\ n = Number[r.headers[j][2]]

\* The first name, and the last value it has.
HeadersUpTo(r, i) ==
    [n \in {r.headers[j][1] : j \in 1 .. i} \cap {r.headers[1][1]} |->
        r.headers[Max({j \in 1 .. i : r.headers[j][1] = n})][2]]

Message(r, headers) ==
    [method |-> "GET", version |-> "1", path |-> PathOf(r.path), headers |-> headers,
     body |-> <<>>]

\* The first line is one that is answered.
LineServed(r) == r.method \in Methods /\ (IsPath(r.path) \/ IsAbsolute(r.path))

\* What the first piece of the url leads to.
Opening(r) ==
    UrlState(IF r.method = "CONNECT" THEN "server_start" ELSE "spaces_before_url", r.path[1])

\* Where the parser is: in the first line, behind i pieces of the url ...
AtUrl(r, p, i) ==
    /\ Calm(p) /\ p.method = r.method /\ r.method \in Methods
    /\ p.flags = {} /\ p.uses_transfer_encoding = FALSE /\ p.content_length = ULLONG_MAX
    /\ p.upgrade = FALSE /\ p.data = NewRequest
    /\ IF i = 0 THEN p.state = "spaces_before_url" /\ p.mark = "none" /\ p.text = <<>>
       ELSE /\ p.mark = "url" /\ p.text = SubSeq(r.path, 1, i) /\ Opening(r) # "dead"
            /\ p.state = IF i = 1 THEN Opening(r) ELSE "path"

\* ... behind i headers ...
InHead(r, p, i) ==
    /\ Calm(p) /\ p.method = r.method /\ p.minor = r.minor /\ LineServed(r)
    /\ p.upgrade = FALSE /\ p.data = Message(r, HeadersUpTo(r, i))

AtHeader(r, p, i) ==
    /\ InHead(r, p, i) /\ p.state = "header_field_start" /\ p.mark = "none" /\ p.text = <<>>
    /\ p.flags = FlagsUpTo(r, i) /\ p.uses_transfer_encoding = Encoded(r, i)
    /\ LengthIs(r, i, p.content_length)

\* ... behind the name of the next one ...
AtName(r, p, i) ==
    /\ InHead(r, p, i) /\ p.state = "header_field" /\ p.mark = "field"
    /\ p.text = <<r.headers[i + 1][1]>> /\ p.header_state = HeaderState(r.headers[i + 1][1])
    /\ p.flags = FlagsUpTo(r, i) /\ p.uses_transfer_encoding = Encoded(r, i + 1)
    /\ LengthIs(r, i, p.content_length)

\* ... its colon ...
AtColon(r, p, i) ==
    /\ InHead(r, p, i) /\ p.state = "header_value_start" /\ p.mark = "none" /\ p.text = <<>>
    /\ p.field = r.headers[i + 1][1] /\ p.header_state = HeaderState(r.headers[i + 1][1])
    /\ p.flags = FlagsUpTo(r, i) /\ p.uses_transfer_encoding = Encoded(r, i + 1)
    /\ LengthIs(r, i, p.content_length)

\* ... its value ...
AtValue(r, p, i) ==
    /\ InHead(r, p, i) /\ p.state = "header_value" /\ p.mark = "value"
    /\ p.text = <<r.headers[i + 1][2]>> /\ p.field = r.headers[i + 1][1]
    /\ p.flags \cup ({p.header_state}
                        \cap {"keep-alive", "close", "chunked", "connection-upgrade"})
         = FlagsUpTo(r, i + 1)
    /\ p.uses_transfer_encoding = Encoded(r, i + 1)
    /\ LengthIs(r, i + 1, p.content_length)

\* ... in the body, behind j of its bytes, which may be handed over or not yet ...
Upgrades(r) ==
    \/ r.method = "CONNECT"
    \/ HasHeader(r, "upgrade") /\ HasHeaderValue(r, "connection", "upgrade")

HeadServed(r) ==
    /\ LineServed(r) /\ ~Ambiguous(r)
    /\ HasHeader(r, "transfer-encoding") => HasHeaderValue(r, "transfer-encoding", "chunked")
    /\ \A i \in Lengths(r) : r.headers[i][2] \in DOMAIN Number /\ Lengths(r) = {i}

WithBody(r, body) ==
    [method |-> r.method, version |-> r.minor, path |-> PathOf(r.path),
     headers |-> HeadersUpTo(r, Len(r.headers)), body |-> body]

\* What the parser makes of a whole request.
Kept(r) == WithBody(r, r.body)

InBody(r, p, j) ==
    /\ Calm(p) /\ HeadServed(r) /\ p.upgrade = Upgrades(r)
    /\ p.data = WithBody(r, p.data.body)
    /\ p.data.body \in Seq(Range(r.body)) /\ p.text \in Seq(Range(r.body))
    /\ p.data.body \o p.text = SubSeq(r.body, 1, j)
    /\ p.mark = "body" \/ (p.mark = "none" /\ p.text = <<>>)

AtByte(r, p, j) ==
    /\ InBody(r, p, j) /\ p.state = "body_identity" /\ p.content_length = Len(r.body) - j

\* ... at the four places of a chunk ...
AtChunk(r, p, j) == InBody(r, p, j) /\ p.state = "chunk_size_start" /\ p.mark = "none"

AtSize(r, p, j, n) ==
    /\ InBody(r, p, j) /\ p.state = "chunk_size_almost_done" /\ p.mark = "none"
    /\ p.content_length = n

AtData(r, p, j) ==
    /\ InBody(r, p, j) /\ p.state = "chunk_data" /\ p.mark = "none" /\ p.content_length = 1

AtDataEnd(r, p, j) == InBody(r, p, j) /\ p.state = "chunk_data_almost_done"

\* ... behind the last chunk.
AtTrailer(r, p) ==
    /\ InBody(r, p, Len(r.body)) /\ p.state = "header_field_start" /\ p.mark = "none"
    /\ "trailing" \in p.flags

\* The request is parsed, and will be answered.
Parsed(r, p) ==
    /\ Shape(p) /\ p.finished /\ ~p.http_errno /\ ~p.exit /\ ~p.upgrade
    /\ p.mark = "none" /\ p.text = <<>> /\ p.data = Kept(r) /\ ~Refusable(r)

\* It is refused.
Refused(r, p) == Frozen(p) /\ HasError(p) /\ Refusable(r)

\* The parser behind k symbols of a request.
HeadAt(r, p, k) ==
    LET P == Len(r.path) IN
    \/ k = 0 /\ p = NewParser
    \/ \E i \in 0 .. P : k = 1 + i /\ AtUrl(r, p, i)
    \/ \E i \in 0 .. Len(r.headers) : k = P + 2 + 4 * i /\ AtHeader(r, p, i)
    \/ \E i \in 0 .. Len(r.headers) - 1 :
          \/ k = P + 3 + 4 * i /\ AtName(r, p, i)
          \/ k = P + 4 + 4 * i /\ AtColon(r, p, i)
          \/ k = P + 5 + 4 * i /\ AtValue(r, p, i)

BodyAt(r, p, k) ==
    LET K == HeadEnd(r)
        B == Len(r.body)
    IN \/ ~r.chunked /\ \E j \in 0 .. B - 1 : k = K + j /\ AtByte(r, p, j)
       \/ /\ r.chunked
          /\ \/ \E j \in 0 .. B : k = K + 4 * j /\ AtChunk(r, p, j)
             \/ \E j \in 0 .. B - 1 :
                   \/ k = K + 4 * j + 1 /\ AtSize(r, p, j, 1)
                   \/ k = K + 4 * j + 2 /\ AtData(r, p, j)
                   \/ k = K + 4 * j + 3 /\ AtDataEnd(r, p, j + 1)
             \/ k = K + 4 * B + 1 /\ AtSize(r, p, B, 0)
             \/ k = K + 4 * B + 2 /\ AtTrailer(r, p)

At(r, p, k) == HeadAt(r, p, k) \/ BodyAt(r, p, k)

-----------------------------------------------------------------------------
(* Headers, one after another                                                *)

LEMMA MaxIs ==
    ASSUME NEW S, S \subseteq Nat, NEW m \in S, \A y \in S : m >= y
    PROVE  Max(S) = m
<1> DEFINE G(x) == x \in S /\ \A y \in S : x >= y
<1>1. Max(S) = CHOOSE x : G(x)
  BY DEF Max
<1>2. G(m)
  OBVIOUS
<1> HIDE DEF G
<1>3. G(Max(S))
  BY <1>1, <1>2, Zenon
<1>4. Max(S) \in S /\ Max(S) >= m /\ m >= Max(S)
  BY <1>3, Zenon DEF G
<1>5. Max(S) \in Nat /\ m \in Nat
  BY <1>4
<1> HIDE DEF Max
<1> QED BY <1>4, <1>5

LEMMA UpToNext ==
    ASSUME NEW i \in Nat
    PROVE  /\ 1 .. i + 1 = 1 .. i \cup {i + 1} /\ i + 1 \notin 1 .. i
           /\ \A j \in 1 .. i : j <= i + 1 /\ j \in Nat
           /\ 1 .. 0 = {}
OBVIOUS

LEMMA NoHeaders ==
    ASSUME NEW r
    PROVE  /\ FlagsUpTo(r, 0) = {} /\ ~Encoded(r, 0) /\ LengthIs(r, 0, ULLONG_MAX)
           /\ HeadersUpTo(r, 0) = <<>>
<1>1. 1 .. 0 = {}
  OBVIOUS
<1>2. FlagsUpTo(r, 0) = {}
  BY <1>1 DEF FlagsUpTo
<1>3. ~Encoded(r, 0) /\ LengthIs(r, 0, ULLONG_MAX)
  BY <1>1, Zenon DEF Encoded, LengthIs, LengthsUpTo
<1>4. HeadersUpTo(r, 0) = <<>>
  <2>1. {r.headers[j][1] : j \in 1 .. 0} \cap {r.headers[1][1]} = {}
    BY <1>1
  <2>2. HeadersUpTo(r, 0) = [n \in {} |-> r.headers[Max({j \in 1 .. 0 : r.headers[j][1] = n})][2]]
    BY <2>1, Zenon DEF HeadersUpTo
  <2> QED BY <2>2
<1> QED BY <1>2, <1>3, <1>4

LEMMA NextFlags ==
    ASSUME NEW r, NEW i \in Nat
    PROVE  /\ FlagsUpTo(r, i + 1)
                = FlagsUpTo(r, i) \cup FlagsOf(r.headers[i + 1][1], r.headers[i + 1][2])
           /\ Encoded(r, i + 1) <=> Encoded(r, i) \/ r.headers[i + 1][1] = "transfer-encoding"
<1> DEFINE F(j) == FlagsOf(r.headers[j][1], r.headers[j][2])
           E(j) == r.headers[j][1] = "transfer-encoding"
<1>1. FlagsUpTo(r, i + 1) = UNION {F(j) : j \in 1 .. i + 1}
      /\ FlagsUpTo(r, i) = UNION {F(j) : j \in 1 .. i}
  BY DEF FlagsUpTo
<1>2. (Encoded(r, i + 1) <=> \E j \in 1 .. i + 1 : E(j))
      /\ (Encoded(r, i) <=> \E j \in 1 .. i : E(j))
  BY DEF Encoded
<1> HIDE DEF F, E
<1>3. FlagsUpTo(r, i + 1) = FlagsUpTo(r, i) \cup F(i + 1)
  BY <1>1, UpToNext
<1>4. Encoded(r, i + 1) <=> Encoded(r, i) \/ E(i + 1)
  BY <1>2, UpToNext
<1> QED BY <1>3, <1>4, Zenon DEF F, E

LEMMA NextLength ==
    ASSUME NEW r, NEW i \in Nat, NEW n, LengthIs(r, i, n)
    PROVE  /\ r.headers[i + 1][1] # "content-length" => LengthIs(r, i + 1, n)
           /\ (/\ r.headers[i + 1][1] = "content-length" /\ LengthsUpTo(r, i) = {}
               /\ r.headers[i + 1][2] \in DOMAIN Number)
                  => LengthIs(r, i + 1, Number[r.headers[i + 1][2]])
<1> DEFINE Is(j) == r.headers[j][1] = "content-length"
           V(j) == r.headers[j][2]
<1>1. /\ LengthsUpTo(r, i) = {j \in 1 .. i : Is(j)}
      /\ LengthsUpTo(r, i + 1) = {j \in 1 .. i + 1 : Is(j)}
  BY DEF LengthsUpTo
<1> HIDE DEF Is
<1>2. LengthsUpTo(r, i + 1) =
         IF Is(i + 1) THEN LengthsUpTo(r, i) \cup {i + 1} ELSE LengthsUpTo(r, i)
  <2>1. \A j : j \in LengthsUpTo(r, i + 1) <=> j \in LengthsUpTo(r, i) \/ (j = i + 1 /\ Is(j))
    <3>1. 1 .. i + 1 = 1 .. i \cup {i + 1}
      BY UpToNext
    <3> HIDE DEF LengthsUpTo
    <3> QED BY <1>1, <3>1
  <2>2. CASE Is(i + 1)
    BY <2>1, <2>2
  <2>3. CASE ~Is(i + 1)
    BY <2>1, <2>3
  <2> QED BY <2>2, <2>3
<1>3. \A k \in Nat : \A m : LengthIs(r, k, m) <=>
          \/ LengthsUpTo(r, k) = {} /\ m = ULLONG_MAX
          \/ \E j \in 1 .. k : LengthsUpTo(r, k) = {j} /\ V(j) \in DOMAIN Number /\ m = Number[V(j)]
  BY DEF LengthIs
<1> HIDE DEF V, Number, ULLONG_MAX
<1>4. CASE ~Is(i + 1)
  <2>1. LengthIs(r, i + 1, n)
    BY <1>2, <1>3, <1>4, UpToNext
  <2> QED BY <1>4, <2>1 DEF Is
<1>5. CASE Is(i + 1)
  <2>1. (LengthsUpTo(r, i) = {} /\ V(i + 1) \in DOMAIN Number)
           => LengthIs(r, i + 1, Number[V(i + 1)])
    BY <1>2, <1>3, <1>5, UpToNext
  <2> QED BY <1>5, <2>1, Zenon DEF Is, V
<1> QED BY <1>4, <1>5

\* Headers, and one more: setHeader.
With(headers, name, v) ==
    IF DOMAIN headers = {} \/ name \in DOMAIN headers THEN [h \in {name} |-> v] ELSE headers

LEMMA NextHeader ==
    ASSUME NEW r, NEW i \in Nat
    PROVE  HeadersUpTo(r, i + 1) =
              With(HeadersUpTo(r, i), r.headers[i + 1][1], r.headers[i + 1][2])
<1> DEFINE N(j) == r.headers[j][1]
           V(j) == r.headers[j][2]
           S(k, n) == {j \in 1 .. k : N(j) = n}
           a == HeadersUpTo(r, i)
           b == HeadersUpTo(r, i + 1)
<1>1. /\ a = [n \in {N(j) : j \in 1 .. i} \cap {N(1)} |-> V(Max(S(i, n)))]
      /\ b = [n \in {N(j) : j \in 1 .. i + 1} \cap {N(1)} |-> V(Max(S(i + 1, n)))]
  BY DEF HeadersUpTo
<1> HIDE DEF N, V, a, b
<1>2. {N(j) : j \in 1 .. i + 1} \cap {N(1)} = {N(1)}
  BY UpToNext
<1>3. i = 0 => {N(j) : j \in 1 .. i} \cap {N(1)} = {}
  BY UpToNext
<1>4. i # 0 => {N(j) : j \in 1 .. i} \cap {N(1)} = {N(1)}
  <2> SUFFICES ASSUME i # 0 PROVE {N(j) : j \in 1 .. i} \cap {N(1)} = {N(1)}
    OBVIOUS
  <2>1. 1 \in 1 .. i
    OBVIOUS
  <2> QED BY <2>1
<1>5. Max(S(i + 1, N(i + 1))) = i + 1
  <2>1. /\ S(i + 1, N(i + 1)) \subseteq Nat /\ i + 1 \in S(i + 1, N(i + 1))
        /\ \A y \in S(i + 1, N(i + 1)) : i + 1 >= y
    OBVIOUS
  <2> HIDE DEF S
  <2> QED BY <2>1, MaxIs, Zenon
<1>6. N(1) # N(i + 1) => S(i + 1, N(1)) = S(i, N(1))
  BY UpToNext
<1> HIDE DEF S, Max
<1>7. b = [n \in {N(1)} |-> V(Max(S(i + 1, n)))]
  BY <1>1, <1>2
<1>8. CASE N(i + 1) = N(1)
  <2>1. b = [n \in {N(i + 1)} |-> V(i + 1)]
    BY <1>5, <1>7, <1>8
  <2>2. DOMAIN a = {} \/ N(i + 1) \in DOMAIN a
    BY <1>1, <1>3, <1>4, <1>8
  <2>3. b = With(a, N(i + 1), V(i + 1))
    BY <2>1, <2>2 DEF With
  <2> QED BY <2>3, Zenon DEF a, b, N, V
<1>9. CASE N(i + 1) # N(1)
  <2>1. i # 0
    BY <1>9
  <2>2. a = [n \in {N(1)} |-> V(Max(S(i, n)))]
    BY <1>1, <1>4, <2>1
  <2>3. b = a
    BY <1>6, <1>7, <1>9, <2>2
  <2>4. ~(DOMAIN a = {} \/ N(i + 1) \in DOMAIN a)
    BY <1>9, <2>2
  <2>5. b = With(a, N(i + 1), V(i + 1))
    BY <2>3, <2>4 DEF With
  <2> QED BY <2>5, Zenon DEF a, b, N, V
<1> QED BY <1>8, <1>9

LEMMA FlagsOfHeader ==
    ASSUME NEW a, NEW b
    PROVE  /\ "chunked" \in FlagsOf(a, b) <=> a = "transfer-encoding" /\ b = "chunked"
           /\ "contentlength" \in FlagsOf(a, b) <=> a = "content-length"
           /\ "upgrade" \in FlagsOf(a, b) <=> a = "upgrade"
           /\ "connection-upgrade" \in FlagsOf(a, b) <=> a = "connection" /\ b = "upgrade"
           /\ "trailing" \notin FlagsOf(a, b)
<1>1. CASE a = "content-length"
  BY <1>1 DEF FlagsOf
<1>2. CASE a = "upgrade"
  BY <1>2 DEF FlagsOf, ValueState, HeaderState
<1>3. CASE a = "connection"
  <2>1. HeaderState(a) = "connection"
    BY <1>3 DEF HeaderState
  <2>2. FlagsOf(a, b) = {ValueState("connection", b)}
                           \cap {"keep-alive", "close", "chunked", "connection-upgrade"}
    BY <1>3, <2>1 DEF FlagsOf
  <2>3. CASE b \in {"close", "keep-alive"}
    <3>1. ValueState("connection", b) = b
      BY <2>3 DEF ValueState
    <3> QED BY <1>3, <2>2, <2>3, <3>1
  <2>4. CASE b = "upgrade"
    <3>1. ValueState("connection", b) = "connection-upgrade"
      BY <2>4 DEF ValueState
    <3> QED BY <1>3, <2>2, <2>4, <3>1
  <2>5. CASE b \notin {"close", "keep-alive", "upgrade"}
    <3>1. ValueState("connection", b) = "general"
      BY <2>5 DEF ValueState
    <3> QED BY <1>3, <2>2, <2>5, <3>1
  <2> QED BY <2>3, <2>4, <2>5
<1>4. CASE a = "transfer-encoding"
  <2>1. HeaderState(a) = "transfer-encoding"
    BY <1>4 DEF HeaderState
  <2>2. FlagsOf(a, b) = {ValueState("transfer-encoding", b)}
                           \cap {"keep-alive", "close", "chunked", "connection-upgrade"}
    BY <1>4, <2>1 DEF FlagsOf
  <2>3. CASE b = "chunked"
    <3>1. ValueState("transfer-encoding", b) = b
      BY <2>3 DEF ValueState
    <3> QED BY <1>4, <2>2, <2>3, <3>1
  <2>4. CASE b # "chunked"
    <3>1. ValueState("transfer-encoding", b) = "general"
      BY <2>4 DEF ValueState
    <3> QED BY <1>4, <2>2, <2>4, <3>1
  <2> QED BY <2>3, <2>4
<1>5. CASE a \notin {"content-length", "upgrade", "connection", "transfer-encoding"}
  <2>1. HeaderState(a) = "general"
    BY <1>5 DEF HeaderState
  <2>2. ValueState("general", b) = "general"
    BY DEF ValueState
  <2>3. FlagsOf(a, b) = {"general"} \cap {"keep-alive", "close", "chunked", "connection-upgrade"}
    BY <1>5, <2>1, <2>2 DEF FlagsOf
  <2>4. FlagsOf(a, b) = {}
    BY <2>3
  <2> QED BY <1>5, <2>4
<1> QED BY <1>1, <1>2, <1>3, <1>4, <1>5

LEMMA FlagsMean ==
    ASSUME NEW r, NEW i \in Nat
    PROVE  /\ "contentlength" \in FlagsUpTo(r, i) <=> LengthsUpTo(r, i) # {}
           /\ "trailing" \notin FlagsUpTo(r, i)
           /\ "chunked" \in FlagsUpTo(r, i) <=>
                 \E j \in 1 .. i : /\ r.headers[j][1] = "transfer-encoding"
                                    /\ r.headers[j][2] = "chunked"
           /\ "upgrade" \in FlagsUpTo(r, i) <=> \E j \in 1 .. i : r.headers[j][1] = "upgrade"
           /\ "connection-upgrade" \in FlagsUpTo(r, i) <=>
                 \E j \in 1 .. i : r.headers[j][1] = "connection" /\ r.headers[j][2] = "upgrade"
<1>1. \A f : f \in FlagsUpTo(r, i) <=>
          \E j \in 1 .. i : f \in FlagsOf(r.headers[j][1], r.headers[j][2])
  BY DEF FlagsUpTo
<1>2. LengthsUpTo(r, i) # {} <=> \E j \in 1 .. i : r.headers[j][1] = "content-length"
  BY Zenon DEF LengthsUpTo
<1>8. \A a, b : "contentlength" \in FlagsOf(a, b) <=> a = "content-length"
  BY FlagsOfHeader
<1>9. \A a, b : "trailing" \notin FlagsOf(a, b)
  BY FlagsOfHeader
<1>10. \A a, b : "chunked" \in FlagsOf(a, b) <=> a = "transfer-encoding" /\ b = "chunked"
  BY FlagsOfHeader
<1>11. \A a, b : "upgrade" \in FlagsOf(a, b) <=> a = "upgrade"
  BY FlagsOfHeader
<1>12. \A a, b : "connection-upgrade" \in FlagsOf(a, b) <=> a = "connection" /\ b = "upgrade"
  BY FlagsOfHeader
<1>3. "contentlength" \in FlagsUpTo(r, i) <=> LengthsUpTo(r, i) # {}
  BY <1>1, <1>2, <1>8
<1>4. "trailing" \notin FlagsUpTo(r, i)
  BY <1>1, <1>9
<1>5. "chunked" \in FlagsUpTo(r, i) <=>
         \E j \in 1 .. i : r.headers[j][1] = "transfer-encoding" /\ r.headers[j][2] = "chunked"
  BY <1>1, <1>10
<1>6. "upgrade" \in FlagsUpTo(r, i) <=> \E j \in 1 .. i : r.headers[j][1] = "upgrade"
  BY <1>1, <1>11
<1>7. "connection-upgrade" \in FlagsUpTo(r, i) <=>
         \E j \in 1 .. i : r.headers[j][1] = "connection" /\ r.headers[j][2] = "upgrade"
  BY <1>1, <1>12
<1> QED BY <1>3, <1>4, <1>5, <1>6, <1>7, Zenon

LEMMA PairIs ==
    ASSUME NEW h, h = <<h[1], h[2]>>, NEW a, NEW b
    PROVE  h = <<a, b>> <=> h[1] = a /\ h[2] = b
<1>1. ASSUME NEW x, NEW y PROVE <<x, y>>[1] = x /\ <<x, y>>[2] = y
  OBVIOUS
<1>2. ASSUME h = <<a, b>> PROVE h[1] = a /\ h[2] = b
  BY <1>1, <1>2
<1>3. ASSUME h[1] = a /\ h[2] = b PROVE h = <<a, b>>
  <2> DEFINE x == h[1]
             y == h[2]
  <2>1. h = <<x, y>> /\ x = a /\ y = b
    BY <1>3
  <2> HIDE DEF x, y
  <2> QED BY <2>1, Zenon
<1> QED BY <1>2, <1>3

LEMMA HeadersMean ==
    ASSUME NEW r, IsRequest(r), NEW n, n = Len(r.headers)
    PROVE  /\ "contentlength" \in FlagsUpTo(r, n) <=> HasHeader(r, "content-length")
           /\ "trailing" \notin FlagsUpTo(r, n)
           /\ "chunked" \in FlagsUpTo(r, n) <=> HasHeaderValue(r, "transfer-encoding", "chunked")
           /\ {"upgrade", "connection-upgrade"} \subseteq FlagsUpTo(r, n) <=>
                 HasHeader(r, "upgrade") /\ HasHeaderValue(r, "connection", "upgrade")
           /\ Encoded(r, n) <=> HasHeader(r, "transfer-encoding")
           /\ LengthsUpTo(r, n) = Lengths(r)
<1>1. n \in Nat
  BY RequestTypes
<1>2. \A a, b : HasHeaderValue(r, a, b) <=>
         \E j \in 1 .. n : r.headers[j][1] = a /\ r.headers[j][2] = b
  <2>1. \A j \in 1 .. n : r.headers[j] = <<r.headers[j][1], r.headers[j][2]>>
    BY RequestTypes
  <2>2. ASSUME NEW a, NEW b, NEW j \in 1 .. n
        PROVE  r.headers[j] = <<a, b>> <=> r.headers[j][1] = a /\ r.headers[j][2] = b
    BY <2>1, PairIs
  <2>3. \A a, b : HasHeaderValue(r, a, b) <=> \E j \in 1 .. n : r.headers[j] = <<a, b>>
    BY Zenon DEF HasHeaderValue
  <2>4. ASSUME NEW a, NEW b
        PROVE  HasHeaderValue(r, a, b) <=>
                  \E j \in 1 .. n : r.headers[j][1] = a /\ r.headers[j][2] = b
    <3> DEFINE G(j) == r.headers[j] = <<a, b>>
               K(j) == r.headers[j][1] = a /\ r.headers[j][2] = b
    <3>1. \A j \in 1 .. n : G(j) <=> K(j)
      BY <2>2
    <3>2. HasHeaderValue(r, a, b) <=> \E j \in 1 .. n : G(j)
      BY <2>3, Zenon
    <3> HIDE DEF G, K
    <3>3. HasHeaderValue(r, a, b) <=> \E j \in 1 .. n : K(j)
      BY <3>1, <3>2
    <3> QED BY <3>3, Zenon DEF K
  <2> QED BY <2>4, Zenon
<1>3. \A a : HasHeader(r, a) <=> \E j \in 1 .. n : r.headers[j][1] = a
  BY Zenon DEF HasHeader
<1>4. LengthsUpTo(r, n) = Lengths(r)
  BY Zenon DEF LengthsUpTo, Lengths
<1>5. Encoded(r, n) <=> HasHeader(r, "transfer-encoding")
  BY <1>3, Zenon DEF Encoded
<1>7. LengthsUpTo(r, n) # {} <=> \E j \in 1 .. n : r.headers[j][1] = "content-length"
  BY DEF LengthsUpTo
<1>8. {"upgrade", "connection-upgrade"} \subseteq FlagsUpTo(r, n) <=>
         "upgrade" \in FlagsUpTo(r, n) /\ "connection-upgrade" \in FlagsUpTo(r, n)
  BY Zenon
<1>9. "trailing" \notin FlagsUpTo(r, n)
  BY <1>1, FlagsMean, Zenon
<1>10. "contentlength" \in FlagsUpTo(r, n) <=> HasHeader(r, "content-length")
  <2>1. "contentlength" \in FlagsUpTo(r, n) <=> LengthsUpTo(r, n) # {}
    BY <1>1, FlagsMean
  <2> QED BY <1>3, <1>7, <2>1, Zenon
<1>11. "chunked" \in FlagsUpTo(r, n) <=> HasHeaderValue(r, "transfer-encoding", "chunked")
  <2>1. "chunked" \in FlagsUpTo(r, n) <=>
            \E j \in 1 .. n : r.headers[j][1] = "transfer-encoding" /\ r.headers[j][2] = "chunked"
    BY <1>1, FlagsMean
  <2> QED BY <1>2, <2>1
<1>12. "upgrade" \in FlagsUpTo(r, n) <=> HasHeader(r, "upgrade")
  <2>1. "upgrade" \in FlagsUpTo(r, n) <=> \E j \in 1 .. n : r.headers[j][1] = "upgrade"
    BY <1>1, FlagsMean
  <2> QED BY <1>3, <2>1
<1>13. "connection-upgrade" \in FlagsUpTo(r, n) <=> HasHeaderValue(r, "connection", "upgrade")
  <2>1. "connection-upgrade" \in FlagsUpTo(r, n) <=>
            \E j \in 1 .. n : r.headers[j][1] = "connection" /\ r.headers[j][2] = "upgrade"
    BY <1>1, FlagsMean
  <2> QED BY <1>2, <2>1
<1> QED BY <1>4, <1>5, <1>8, <1>9, <1>10, <1>11, <1>12, <1>13, Zenon

-----------------------------------------------------------------------------
(* The parts of a parser's step                                              *)

LEMMA Refuses ==
    ASSUME NEW r, NEW p, Shape(p), Refusable(r)
    PROVE  Refused(r, Fail(p))
BY FailFreezes, Zenon DEF Refused, Frozen, HasError

LEMMA GotoFacts ==
    ASSUME NEW p, Shape(p), NEW state
    PROVE  /\ Shape(Goto(p, state)) /\ Alike(p, Goto(p, state))
           /\ Goto(p, state).state = state /\ Goto(p, state).field = p.field
           /\ Goto(p, state).data = p.data
           /\ Goto(p, state).mark = p.mark /\ Goto(p, state).text = p.text
<1> DEFINE q == Goto(p, state)
<1>1. q = [p EXCEPT !.state = state]
  BY DEF Goto
<1> HIDE DEF q
<1>2. Shape(q)
  BY <1>1 DEF Shape, Fields
<1>3. /\ Alike(p, q) /\ q.state = state /\ q.field = p.field /\ q.data = p.data
      /\ q.mark = p.mark /\ q.text = p.text
  BY <1>1 DEF Shape, Fields, Alike
<1> QED BY <1>2, <1>3 DEF q

\* What a callback leaves as it was.
Handed(p, q) ==
    /\ Shape(q) /\ Alike(p, q) /\ q.state = p.state /\ q.mark = "none" /\ q.text = <<>>

LEMMA HandsOver ==
    ASSUME NEW p, NEW g, Shape(g), Alike(p, g), g.state = p.state,
           NEW q, q = [g EXCEPT !.mark = "none", !.text = <<>>]
    PROVE  Handed(p, q) /\ q.data = g.data /\ q.field = g.field
<1>1. Shape(q)
  BY DEF Shape, Fields
<1>2. /\ Alike(g, q) /\ q.state = g.state /\ q.mark = "none" /\ q.text = <<>>
      /\ q.data = g.data /\ q.field = g.field
  BY DEF Shape, Fields, Alike
<1>3. Alike(p, q)
  BY <1>2, Zenon DEF Alike
<1> QED BY <1>1, <1>2, <1>3, Zenon DEF Handed

LEMMA CallbackUrl ==
    ASSUME NEW p, Shape(p), p.mark = "url", IsPath(p.text) \/ HasHost(p.text)
    PROVE  /\ Handed(p, Callback(p)) /\ Callback(p).field = p.field
           /\ Callback(p).data =
                 IF ~IsPath(p.text) /\ Len(p.text) = 2 THEN p.data
                 ELSE [p.data EXCEPT !.path = PathOf(p.text)]
<1> DEFINE g == OnUrl(p)
           q == Callback(p)
           bare == ~IsPath(p.text) /\ Len(p.text) = 2
<1>1. g = IF bare THEN p ELSE [p EXCEPT !.data = [p.data EXCEPT !.path = PathOf(p.text)]]
  <2>1. CASE IsPath(p.text)
    <3>1. g = [p EXCEPT !.data = [p.data EXCEPT !.path = p.text]]
      BY <2>1 DEF OnUrl, IsPath
    <3>2. PathOf(p.text) = p.text
      BY <2>1 DEF PathOf
    <3> HIDE DEF g
    <3> QED BY <2>1, <3>1, <3>2
  <2>2. CASE ~IsPath(p.text)
    <3>1. g = IF Len(p.text) = 2 THEN p
              ELSE [p EXCEPT !.data =
                       [p.data EXCEPT !.path = SubSeq(p.text, 3, Len(p.text))]]
      BY <2>2 DEF OnUrl, IsPath
    <3>2. Len(p.text) # 2 => PathOf(p.text) = SubSeq(p.text, 3, Len(p.text))
      BY <2>2 DEF PathOf
    <3> HIDE DEF g
    <3> QED BY <2>2, <3>1, <3>2
  <2> QED BY <2>1, <2>2
<1>2. q = [g EXCEPT !.mark = "none", !.text = <<>>]
  BY DEF Callback
<1> HIDE DEF g, q, bare
<1>3. Shape(g)
  BY <1>1 DEF Shape, Fields
<1>4. Alike(p, g) /\ g.state = p.state /\ g.field = p.field
  BY <1>1 DEF Shape, Fields, Alike
<1>6. g.data = IF bare THEN p.data ELSE [p.data EXCEPT !.path = PathOf(p.text)]
  BY <1>1 DEF Shape, Fields
<1>5. Handed(p, q) /\ q.data = g.data /\ q.field = g.field
  BY <1>2, <1>3, <1>4, HandsOver, Zenon
<1> QED BY <1>4, <1>5, <1>6, Zenon DEF q, bare

\* A url without a path and without a host is an error.
LEMMA CallbackBad ==
    ASSUME NEW p, Shape(p), p.mark = "url", ~IsPath(p.text), ~HasHost(p.text)
    PROVE  Shape(Callback(p)) /\ Callback(p).http_errno
<1> DEFINE g == Fail(p)
           q == Callback(p)
<1>1. OnUrl(p) = g
  BY DEF OnUrl, IsPath
<1>2. q = [g EXCEPT !.mark = "none", !.text = <<>>]
  BY <1>1 DEF Callback
<1>3. Shape(g) /\ g.http_errno
  BY FailFreezes
<1> HIDE DEF g, q
<1>4. Shape(q) /\ q.http_errno
  BY <1>2, <1>3 DEF Shape, Fields
<1> QED BY <1>4 DEF q

LEMMA CallbackField ==
    ASSUME NEW p, Shape(p), p.mark = "field"
    PROVE  /\ Handed(p, Callback(p)) /\ Callback(p).field = Whole(p.text)
           /\ Callback(p).data = p.data
<1> DEFINE g == OnHeaderField(p)
           q == Callback(p)
           w == Whole(p.text)
<1>1. g = [p EXCEPT !.field = w]
  BY DEF OnHeaderField
<1>2. q = [g EXCEPT !.mark = "none", !.text = <<>>]
  BY DEF Callback
<1> HIDE DEF g, q, w
<1>3. Shape(g)
  BY <1>1 DEF Shape, Fields
<1>4. Alike(p, g) /\ g.state = p.state /\ g.field = w /\ g.data = p.data
  BY <1>1 DEF Shape, Fields, Alike
<1>5. Handed(p, q) /\ q.data = g.data /\ q.field = g.field
  BY <1>2, <1>3, <1>4, HandsOver, Zenon
<1> QED BY <1>4, <1>5, Zenon DEF q, w

LEMMA CallbackValue ==
    ASSUME NEW p, Shape(p), p.mark = "value"
    PROVE  /\ Handed(p, Callback(p)) /\ Callback(p).field = p.field
           /\ Callback(p).data =
                 [p.data EXCEPT !.headers = With(p.data.headers, p.field, Whole(p.text))]
<1> DEFINE g == OnHeaderValue(p)
           q == Callback(p)
           hs == With(p.data.headers, p.field, Whole(p.text))
<1>1. g = [p EXCEPT !.data = [p.data EXCEPT !.headers = hs]]
  BY DEF OnHeaderValue, With
<1>2. q = [g EXCEPT !.mark = "none", !.text = <<>>]
  BY DEF Callback
<1> HIDE DEF g, q, hs
<1>3. Shape(g)
  BY <1>1 DEF Shape, Fields
<1>4. Alike(p, g) /\ g.state = p.state /\ g.field = p.field
  BY <1>1 DEF Shape, Fields, Alike
<1>6. g.data = [p.data EXCEPT !.headers = hs]
  BY <1>1 DEF Shape, Fields
<1>5. Handed(p, q) /\ q.data = g.data /\ q.field = g.field
  BY <1>2, <1>3, <1>4, HandsOver, Zenon
<1> QED BY <1>4, <1>5, <1>6, Zenon DEF q, hs

LEMMA CallbackBody ==
    ASSUME NEW p, Shape(p), p.mark = "body"
    PROVE  /\ Handed(p, Callback(p)) /\ Callback(p).field = p.field
           /\ Callback(p).data = [p.data EXCEPT !.body = p.data.body \o p.text]
<1> DEFINE g == OnBody(p)
           q == Callback(p)
           b == p.data.body \o p.text
<1>1. g = [p EXCEPT !.data = [p.data EXCEPT !.body = b]]
  BY DEF OnBody
<1>2. q = [g EXCEPT !.mark = "none", !.text = <<>>]
  BY DEF Callback
<1> HIDE DEF g, q, b
<1>3. Shape(g)
  BY <1>1 DEF Shape, Fields
<1>4. Alike(p, g) /\ g.state = p.state /\ g.field = p.field
  BY <1>1 DEF Shape, Fields, Alike
<1>6. g.data = [p.data EXCEPT !.body = b]
  BY <1>1 DEF Shape, Fields
<1>5. Handed(p, q) /\ q.data = g.data /\ q.field = g.field
  BY <1>2, <1>3, <1>4, HandsOver, Zenon
<1> QED BY <1>4, <1>5, <1>6, Zenon DEF q, b

-----------------------------------------------------------------------------
(* From the method to the blank line                                         *)

LEMMA NewFields ==
    /\ Calm(NewParser) /\ Shape(NewParser) /\ NewParser.state = "start_req"
    /\ NewParser.upgrade = FALSE /\ NewParser.data = NewRequest /\ NewParser.mark = "none"
    /\ NewParser.text = <<>> /\ NewParser.exit = FALSE /\ NewParser.http_errno = FALSE
    /\ NewParser.finished = FALSE
<1>1. PICK v : NewParser =
         [state |-> "start_req", method |-> "GET", minor |-> "0", header_state |-> "general",
          flags |-> {}, uses_transfer_encoding |-> FALSE, content_length |-> 0,
          upgrade |-> FALSE, exit |-> FALSE, http_errno |-> FALSE,
          mark |-> "none", text |-> <<>>,
          data |-> NewRequest, field |-> v, finished |-> FALSE]
  BY Zenon DEF NewParser
<1> QED BY <1>1, NewShape DEF Calm

LEMMA Begins ==
    ASSUME NEW r, NEW q, q = Step(NewParser, Sym("method", r.method))
    PROVE  AtUrl(r, q, 0) \/ Refused(r, q)
<1> DEFINE p == NewParser
           s == Sym("method", r.method)
<1>1. Calm(p) /\ p.state = "start_req" /\ Shape(p)
  BY NewFields
<1>2. q = StartReq(p, s)
  BY <1>1, StepIs
<1>3. s.t = "method" /\ s.v = r.method
  BY DEF Sym
<1>4. CASE r.method \in Methods
  <2>1. q = [p EXCEPT !.state = "spaces_before_url", !.method = s.v, !.flags = {},
                      !.uses_transfer_encoding = FALSE, !.content_length = ULLONG_MAX]
    BY <1>2, <1>3, <1>4 DEF StartReq
  <2>2. /\ p.upgrade = FALSE /\ p.data = NewRequest /\ p.mark = "none" /\ p.text = <<>>
        /\ p.exit = FALSE /\ p.http_errno = FALSE /\ p.finished = FALSE
    BY NewFields
  <2> HIDE DEF p, s
  <2>3. Shape(q)
    BY <1>1, <2>1 DEF Shape, Fields
  <2>4. /\ q.state = "spaces_before_url" /\ q.method = s.v /\ q.flags = {}
        /\ q.uses_transfer_encoding = FALSE /\ q.content_length = ULLONG_MAX
        /\ q.upgrade = FALSE /\ q.data = NewRequest /\ q.mark = "none" /\ q.text = <<>>
        /\ q.exit = FALSE /\ q.http_errno = FALSE /\ q.finished = FALSE
    BY <1>1, <2>1, <2>2 DEF Shape, Fields
  <2>5. Calm(q)
    BY <2>3, <2>4 DEF Calm
  <2> QED BY <1>3, <1>4, <2>4, <2>5 DEF AtUrl
<1>5. CASE r.method \notin Methods
  <2>1. q = Fail(p)
    BY <1>2, <1>3, <1>5 DEF StartReq
  <2>2. Refusable(r)
    BY <1>5 DEF Refusable
  <2> QED BY <1>1, <2>1, <2>2, Refuses
<1> QED BY <1>4, <1>5

\* The first pieces of a url.
LEMMA Pieces ==
    ASSUME NEW s, s \in Seq(Range(s)), Len(s) \in Nat
    PROVE  /\ SubSeq(s, 1, Len(s)) = s
           /\ \A i \in 1 .. Len(s) : SubSeq(s, 1, i) # <<>> /\ SubSeq(s, 1, i)[1] = s[1]
           /\ Len(s) > 0 => SubSeq(s, 1, 1) = Append(<<>>, s[1])
           /\ \A i \in 1 .. Len(s) - 1 : SubSeq(s, 1, i + 1) = Append(SubSeq(s, 1, i), s[i + 1])
<1> DEFINE A == Range(s)
<1>1. s \in Seq(A)
  OBVIOUS
<1> HIDE DEF A
<1>2. SubSeq(s, 1, Len(s)) = s
  BY <1>1
<1>3. ASSUME NEW i \in 1 .. Len(s)
      PROVE  SubSeq(s, 1, i) # <<>> /\ SubSeq(s, 1, i)[1] = s[1]
  BY <1>1
<1>4. Len(s) > 0 => SubSeq(s, 1, 1) = Append(<<>>, s[1])
  <2> SUFFICES ASSUME Len(s) > 0 PROVE SubSeq(s, 1, 1) = Append(<<>>, s[1])
    OBVIOUS
  <2>1. SubSeq(s, 1, 1) \in Seq(A) /\ Len(SubSeq(s, 1, 1)) = 1 /\ SubSeq(s, 1, 1)[1] = s[1]
    BY <1>1
  <2>2. s[1] \in A
    BY <1>1
  <2>3. Append(<<>>, s[1]) \in Seq(A) /\ Len(Append(<<>>, s[1])) = 1
        /\ Append(<<>>, s[1])[1] = s[1]
    BY <2>2
  <2> DEFINE u == SubSeq(s, 1, 1)
             w == Append(<<>>, s[1])
  <2> HIDE DEF u, w
  <2>4. u \in Seq(A) /\ w \in Seq(A) /\ Len(u) = 1 /\ Len(w) = 1 /\ u[1] = w[1]
    BY <2>1, <2>3, Zenon DEF u, w
  <2>5. u = w
    BY <2>4
  <2> QED BY <2>5 DEF u, w
<1>5. ASSUME NEW i \in 1 .. Len(s) - 1
      PROVE  SubSeq(s, 1, i + 1) = Append(SubSeq(s, 1, i), s[i + 1])
  <2>1. i \in Nat /\ i + 1 <= Len(s)
    OBVIOUS
  <2>2. SubSeq(s, 1, i) \in Seq(A) /\ Len(SubSeq(s, 1, i)) = i
        /\ \A j \in 1 .. i : SubSeq(s, 1, i)[j] = s[j]
    BY <1>1
  <2>3. SubSeq(s, 1, i + 1) \in Seq(A) /\ Len(SubSeq(s, 1, i + 1)) = i + 1
        /\ \A j \in 1 .. i + 1 : SubSeq(s, 1, i + 1)[j] = s[j]
    BY <1>1
  <2>4. s[i + 1] \in A
    BY <1>1
  <2> QED BY <2>1, <2>2, <2>3, <2>4
<1> QED BY <1>2, <1>3, <1>4, <1>5

\* A url whose first piece is refused is no path and not absolute; neither is a schema
\* alone.
LEMMA OpeningIs ==
    ASSUME NEW r
    PROVE  /\ Opening(r) \in {"path", "server_start", "dead"}
           /\ Opening(r) = "dead" => r.path[1] \notin LeadingPieces \cup Schemas \cup {"*"}
           /\ Opening(r) = "server_start" => r.path[1] \notin LeadingPieces \cup {"*"}
<1>1. CASE r.method = "CONNECT"
  <2>1. Opening(r) = "path"
    BY <1>1 DEF Opening, UrlState
  <2> QED BY <2>1
<1>2. CASE r.method # "CONNECT"
  <2>1. Opening(r) = IF r.path[1] \in LeadingPieces \cup {"*"} THEN "path"
                     ELSE IF r.path[1] \in Schemas THEN "server_start" ELSE "dead"
    BY <1>2 DEF Opening, UrlState
  <2> QED BY <2>1
<1> QED BY <1>1, <1>2

LEMMA NoTarget ==
    ASSUME NEW r, ~IsPath(r.path), ~IsAbsolute(r.path)
    PROVE  Refusable(r)
BY Zenon DEF Refusable

LEMMA UrlPiece ==
    ASSUME NEW r, IsRequest(r), NEW p, NEW i \in 0 .. Len(r.path) - 1, AtUrl(r, p, i),
           NEW q, q = Step(p, Sym("url", r.path[i + 1]))
    PROVE  AtUrl(r, q, i + 1) \/ Refused(r, q)
<1> DEFINE s == Sym("url", r.path[i + 1])
           P == Len(r.path)
           state == IF i = 0 THEN Opening(r) ELSE "path"
           g == Goto(p, state)
<1>0. P \in Nat /\ r.path \in Seq(Range(r.path)) /\ i \in Nat
  BY RequestTypes DEF IsRequest
<1>1. s.t = "url" /\ s.v = r.path[i + 1]
  BY DEF Sym
<1>2. Calm(p) /\ Shape(p)
  BY DEF AtUrl, Calm
<1>3. /\ p.method = r.method /\ r.method \in Methods /\ p.flags = {}
      /\ p.uses_transfer_encoding = FALSE /\ p.content_length = ULLONG_MAX
      /\ p.upgrade = FALSE /\ p.data = NewRequest
  BY DEF AtUrl
<1>4. q = Step(p, s)
  BY Zenon DEF s
<1> HIDE DEF s
<1>5. CASE i = 0 /\ Opening(r) = "dead"
  <2>1. p.state = "spaces_before_url"
    BY <1>5 DEF AtUrl
  <2>2. q = SpacesBeforeUrl(p, s)
    BY <1>2, <1>4, <2>1, StepIs
  <2>3. UrlState(IF p.method = "CONNECT" THEN "server_start" ELSE p.state, s.v) = "dead"
    BY <1>1, <1>3, <1>5, <2>1 DEF Opening
  <2>4. q = Fail(p)
    BY <2>2, <2>3, Zenon DEF SpacesBeforeUrl
  <2>5. Refusable(r)
    <3>1. r.path[1] \notin LeadingPieces \cup Schemas \cup {"*"}
      BY <1>5, OpeningIs
    <3>2. ~IsPath(r.path) /\ ~IsAbsolute(r.path)
      BY <3>1 DEF IsPath, IsAbsolute
    <3> QED BY <3>2, NoTarget
  <2> QED BY <1>2, <2>4, <2>5, Refuses
<1>6. CASE ~(i = 0 /\ Opening(r) = "dead")
  <2>1. q = Mark(g, "url", s)
    <3>1. CASE i = 0
      <4>1. p.state = "spaces_before_url"
        BY <3>1 DEF AtUrl
      <4>2. q = SpacesBeforeUrl(p, s)
        BY <1>2, <1>4, <4>1, StepIs
      <4>3. UrlState(IF p.method = "CONNECT" THEN "server_start" ELSE p.state, s.v) = state
        BY <1>1, <1>3, <3>1, <4>1 DEF Opening
      <4>4. state # "dead"
        BY <1>6, <3>1
      <4> QED BY <1>1, <4>2, <4>3, <4>4, Zenon DEF SpacesBeforeUrl
    <3>2. CASE i # 0
      <4>1. p.state \in {"server_start", "path"}
        <5>1. Opening(r) \in {"server_start", "path"}
          BY <3>2, OpeningIs DEF AtUrl
        <5> QED BY <3>2, <5>1 DEF AtUrl
      <4>2. q = Url(p, s)
        BY <1>2, <1>4, <4>1, StepIs
      <4>3. UrlState(p.state, s.v) = state
        BY <3>2, <4>1 DEF UrlState
      <4> QED BY <1>1, <4>2, <4>3, Zenon DEF Url
    <3> QED BY <3>1, <3>2
  <2>2. /\ Calm(g) /\ Alike(p, g) /\ g.state = state /\ g.field = p.field
        /\ g.data = p.data /\ g.text = p.text
    BY <1>2, GotoFacts DEF Calm, Alike
  <2> HIDE DEF g, state
  <2>3. /\ Calm(q) /\ Alike(g, q) /\ q.state = state /\ q.data = p.data
        /\ q.mark = "url" /\ q.text = Append(g.text, s.v)
    BY <2>1, <2>2, MarkFacts
  <2>4. q.text = SubSeq(r.path, 1, i + 1)
    <3>1. q.text = Append(p.text, r.path[i + 1])
      BY <1>1, <2>2, <2>3
    <3>2. CASE i = 0
      <4>1. p.text = <<>>
        BY <3>2 DEF AtUrl
      <4>2. SubSeq(r.path, 1, 1) = Append(<<>>, r.path[1])
        BY <1>0, Pieces
      <4> QED BY <3>1, <3>2, <4>1, <4>2
    <3>3. CASE i # 0
      <4>1. i \in 1 .. P - 1
        BY <1>0, <3>3
      <4>2. SubSeq(r.path, 1, i + 1) = Append(SubSeq(r.path, 1, i), r.path[i + 1])
        BY <1>0, <4>1, Pieces
      <4>3. p.text = SubSeq(r.path, 1, i)
        BY <3>3 DEF AtUrl
      <4> QED BY <3>1, <4>2, <4>3
    <3> QED BY <3>2, <3>3
  <2>5. Opening(r) # "dead"
    BY <1>6 DEF AtUrl
  <2>6. q.state = IF i + 1 = 1 THEN Opening(r) ELSE "path"
    BY <1>0, <2>3 DEF state
  <2>7. i + 1 # 0
    BY <1>0
  <2> QED BY <1>3, <2>2, <2>3, <2>4, <2>5, <2>6, <2>7 DEF AtUrl, Alike
<1> QED BY <1>5, <1>6

LEMMA LineEnds ==
    ASSUME NEW r, IsRequest(r), NEW p, AtUrl(r, p, Len(r.path)),
           NEW q, q = Step(p, Sym("http", r.minor))
    PROVE  AtHeader(r, q, 0) \/ Refused(r, q)
<1> DEFINE s == Sym("http", r.minor)
           P == Len(r.path)
           g == Goto(p, "header_field_start")
           h == Callback(g)
<1>0. P \in Nat /\ r.path \in Seq(Range(r.path))
  BY RequestTypes DEF IsRequest
<1>1. s.t = "http" /\ s.v = r.minor
  BY DEF Sym
<1>2. Calm(p) /\ Shape(p)
  BY DEF AtUrl, Calm
<1>3. /\ p.method = r.method /\ r.method \in Methods /\ p.flags = {}
      /\ p.uses_transfer_encoding = FALSE /\ p.content_length = ULLONG_MAX
      /\ p.upgrade = FALSE /\ p.data = NewRequest
  BY DEF AtUrl
<1>4. q = Step(p, s)
  BY Zenon DEF s
<1> HIDE DEF s
<1>5. CASE P = 0
  <2>1. p.state = "spaces_before_url"
    BY <1>5 DEF AtUrl
  <2>2. q = SpacesBeforeUrl(p, s)
    BY <1>2, <1>4, <2>1, StepIs
  <2>3. q = Fail(p)
    BY <1>1, <2>2 DEF SpacesBeforeUrl
  <2>4. ~IsPath(r.path) /\ ~IsAbsolute(r.path)
    BY <1>0, <1>5 DEF IsPath, IsAbsolute
  <2> QED BY <1>2, <2>3, <2>4, NoTarget, Refuses
<1>6. CASE P # 0
  <2>1. /\ p.mark = "url" /\ p.text = SubSeq(r.path, 1, P)
        /\ p.state = IF P = 1 THEN Opening(r) ELSE "path"
        /\ Opening(r) # "dead"
    BY <1>6 DEF AtUrl
  <2>2. p.text = r.path /\ r.path # <<>>
    BY <1>0, <1>6, <2>1, Pieces
  <2>3. p.state \in {"server_start", "path"}
    BY <2>1, OpeningIs
  <2>4. q = Url(p, s)
    BY <1>2, <1>4, <2>3, StepIs
  <2>5. CASE p.state = "server_start"
    <3>1. q = Fail(p)
      BY <1>1, <2>4, <2>5 DEF Url
    <3>2. P = 1 /\ r.path[1] \notin LeadingPieces \cup {"*"}
      BY <2>1, <2>5, OpeningIs
    <3>3. ~IsPath(r.path) /\ ~IsAbsolute(r.path)
      BY <3>2 DEF IsPath, IsAbsolute
    <3> QED BY <1>2, <3>1, <3>3, NoTarget, Refuses
  <2>6. CASE p.state = "path"
    <3>1. q = IF h.http_errno THEN h ELSE [h EXCEPT !.minor = s.v]
      BY <1>1, <2>4, <2>6 DEF Url
    <3>2. /\ Shape(g) /\ Alike(p, g) /\ g.state = "header_field_start"
          /\ g.data = p.data /\ g.text = p.text /\ g.mark = "url"
      BY <1>2, <2>1, GotoFacts
    <3> HIDE DEF g
    <3>3. CASE IsPath(r.path) \/ HasHost(r.path)
      <4>1. LineServed(r)
        BY <1>3, <3>3 DEF LineServed, HasHost, IsAbsolute
      <4>2. /\ Handed(g, h)
            /\ h.data = IF ~IsPath(g.text) /\ Len(g.text) = 2 THEN g.data
                        ELSE [g.data EXCEPT !.path = PathOf(g.text)]
        BY <2>2, <3>2, <3>3, CallbackUrl
      <4> HIDE DEF h
      <4>3. Shape(h) /\ ~h.http_errno /\ ~h.exit /\ ~h.finished
        BY <1>2, <3>2, <4>2 DEF Calm, Alike, Handed
      <4>4. q = [h EXCEPT !.minor = s.v]
        BY <3>1, <4>3
      <4>5. /\ Shape(q) /\ q.minor = s.v /\ q.method = h.method /\ q.flags = h.flags
            /\ q.uses_transfer_encoding = h.uses_transfer_encoding
            /\ q.content_length = h.content_length /\ q.upgrade = h.upgrade
            /\ q.exit = h.exit /\ q.http_errno = h.http_errno
            /\ q.finished = h.finished /\ q.state = h.state
            /\ q.mark = h.mark /\ q.text = h.text /\ q.data = h.data
        BY <4>3, <4>4 DEF Shape, Fields
      <4>6. h.data = Message(r, HeadersUpTo(r, 0))
        <5>1. h.data = [NewRequest EXCEPT !.path = PathOf(r.path)]
          <6>1. CASE ~IsPath(r.path) /\ Len(r.path) = 2
            <7>1. h.data = NewRequest
              BY <1>3, <2>2, <3>2, <4>2, <6>1
            <7>2. PathOf(r.path) = <<"/">>
              BY <6>1 DEF PathOf
            <7> QED BY <7>1, <7>2 DEF NewRequest
          <6>2. CASE ~(~IsPath(r.path) /\ Len(r.path) = 2)
            BY <1>3, <2>2, <3>2, <4>2, <6>2
          <6> QED BY <6>1, <6>2
        <5>2. h.data = Message(r, <<>>)
          BY <5>1 DEF NewRequest, Message
        <5> QED BY <5>2, NoHeaders
      <4>7. Calm(q) /\ InHead(r, q, 0)
        BY <1>1, <1>3, <3>2, <4>1, <4>2, <4>3, <4>5, <4>6 DEF Calm, InHead, Alike, Handed
      <4>8. /\ q.flags = FlagsUpTo(r, 0) /\ q.uses_transfer_encoding = Encoded(r, 0)
            /\ LengthIs(r, 0, q.content_length)
        <5>1. /\ q.flags = {} /\ q.uses_transfer_encoding = FALSE
              /\ q.content_length = ULLONG_MAX
          BY <1>3, <3>2, <4>2, <4>5 DEF Alike, Handed
        <5> HIDE DEF ULLONG_MAX
        <5>2. Encoded(r, 0) = FALSE
          BY NoHeaders DEF Encoded
        <5> QED BY <5>1, <5>2, NoHeaders
      <4>9. q.state = "header_field_start" /\ q.mark = "none" /\ q.text = <<>>
        BY <3>2, <4>2, <4>5 DEF Handed
      <4> QED BY <4>7, <4>8, <4>9 DEF AtHeader
    <3>4. CASE ~IsPath(r.path) /\ ~HasHost(r.path)
      <4>1. Shape(h) /\ h.http_errno
        BY <2>2, <3>2, <3>4, CallbackBad
      <4>2. q = h
        BY <3>1, <4>1
      <4>3. ~IsAbsolute(r.path)
        BY <3>4, Zenon DEF HasHost, IsAbsolute, IsRequest
      <4>4. Refusable(r)
        BY <3>4, <4>3, NoTarget
      <4> QED BY <4>1, <4>2, <4>4 DEF Refused, Frozen, HasError
    <3> QED BY <3>3, <3>4
  <2> QED BY <2>3, <2>5, <2>6
<1> QED BY <1>5, <1>6

LEMMA StateOfHeader ==
    ASSUME NEW a
    PROVE  /\ HeaderState(a) = "content-length" <=> a = "content-length"
           /\ HeaderState(a) = "transfer-encoding" <=> a = "transfer-encoding"
           /\ HeaderState(a) = "upgrade" <=> a = "upgrade"
<1>1. CASE a \in {"connection", "content-length", "transfer-encoding", "upgrade"}
  BY <1>1 DEF HeaderState
<1>2. CASE a \notin {"connection", "content-length", "transfer-encoding", "upgrade"}
  BY <1>2 DEF HeaderState
<1> QED BY <1>1, <1>2

LEMMA EncodedNext ==
    ASSUME NEW r, NEW i \in Nat
    PROVE  Encoded(r, i + 1) = (Encoded(r, i) \/ r.headers[i + 1][1] = "transfer-encoding")
<1>1. Encoded(r, i + 1) \in BOOLEAN
  BY DEF Encoded
<1>2. Encoded(r, i + 1) <=> Encoded(r, i) \/ r.headers[i + 1][1] = "transfer-encoding"
  BY NextFlags
<1> QED BY <1>1, <1>2

LEMMA WholeOne == ASSUME NEW x PROVE <<x>> # <<>> /\ Whole(<<x>>) = x
<1>1. <<x>> # <<>> /\ Len(<<x>>) = 1 /\ <<x>>[1] = x
  OBVIOUS
<1>2. Last(<<x>>) = x
  BY <1>1 DEF Last
<1> QED BY <1>1, <1>2, Zenon DEF Whole

LEMMA Named ==
    ASSUME NEW r, IsRequest(r), NEW i \in 0 .. Len(r.headers) - 1, NEW p, AtHeader(r, p, i),
           NEW q, q = Step(p, Sym("field", r.headers[i + 1][1]))
    PROVE  AtName(r, q, i)
<1> DEFINE name == r.headers[i + 1][1]
           s == Sym("field", name)
           h == HeaderState(name)
           g == [p EXCEPT !.state = "header_field", !.header_state = h,
                          !.uses_transfer_encoding = @ \/ h = "transfer-encoding"]
<1>0. Len(r.headers) \in Nat /\ i \in Nat
  BY RequestTypes
<1>1. s.t = "field" /\ s.v = name
  BY DEF Sym
<1>2. /\ Calm(p) /\ Shape(p) /\ p.state = "header_field_start"
      /\ p.uses_transfer_encoding = Encoded(r, i) /\ p.text = <<>>
  BY DEF AtHeader, InHead, Calm
<1>3. Encoded(r, i + 1) = (Encoded(r, i) \/ h = "transfer-encoding")
  <2>1. h = "transfer-encoding" <=> name = "transfer-encoding"
    BY StateOfHeader
  <2>2. Encoded(r, i + 1) = (Encoded(r, i) \/ name = "transfer-encoding")
    BY <1>0, EncodedNext
  <2> HIDE DEF h, name
  <2> QED BY <2>1, <2>2
<1> HIDE DEF s, h
<1>4. q = HeaderFieldStart(p, s)
  BY <1>2, StepIs DEF s
<1>5. q = Mark(g, "field", s)
  BY <1>1, <1>4 DEF HeaderFieldStart, h
<1>6. g = [p EXCEPT !.state = "header_field", !.header_state = h,
                    !.uses_transfer_encoding = Encoded(r, i + 1)]
  BY <1>2, <1>3
<1> HIDE DEF g, name
<1>7. Shape(g)
  BY <1>2, <1>6 DEF Shape, Fields
<1>8. /\ g.method = p.method /\ g.minor = p.minor /\ g.header_state = h
      /\ g.flags = p.flags /\ g.uses_transfer_encoding = Encoded(r, i + 1)
      /\ g.content_length = p.content_length /\ g.upgrade = p.upgrade /\ g.exit = p.exit
      /\ g.http_errno = p.http_errno /\ g.finished = p.finished
      /\ g.state = "header_field" /\ g.data = p.data /\ g.text = p.text
  BY <1>2, <1>6 DEF Shape, Fields
<1>9. Calm(g)
  BY <1>2, <1>7, <1>8 DEF Calm
<1>10. /\ Calm(q) /\ Alike(g, q) /\ q.state = "header_field" /\ q.data = p.data
       /\ q.mark = "field" /\ q.text = Append(g.text, s.v)
  BY <1>5, <1>8, <1>9, MarkFacts
<1>11. q.text = <<name>>
  BY <1>1, <1>2, <1>8, <1>10
<1>12. InHead(r, q, i)
  BY <1>8, <1>10 DEF AtHeader, InHead, Alike
<1> QED BY <1>8, <1>10, <1>11, <1>12 DEF AtHeader, AtName, Alike, h, name

LEMMA ColonRead ==
    ASSUME NEW r, NEW i, NEW p, AtName(r, p, i), NEW s, s.t = "colon",
           NEW q, q = Step(p, s)
    PROVE  AtColon(r, q, i)
<1> DEFINE g == Goto(p, "header_value_start")
<1>2. /\ Calm(p) /\ Shape(p) /\ p.state = "header_field" /\ p.mark = "field"
      /\ p.text = <<r.headers[i + 1][1]>>
  BY DEF AtName, InHead, Calm
<1>3. q = HeaderField(p, s)
  BY <1>2, StepIs
<1>4. q = Callback(g)
  BY <1>3 DEF HeaderField
<1>5. /\ Shape(g) /\ Alike(p, g) /\ g.state = "header_value_start"
      /\ g.data = p.data /\ g.text = p.text /\ g.mark = "field"
  BY <1>2, GotoFacts
<1> HIDE DEF g
<1>6. Handed(g, q) /\ q.field = Whole(g.text) /\ q.data = g.data
  BY <1>4, <1>5, CallbackField
<1>7. q.field = r.headers[i + 1][1]
  BY <1>2, <1>5, <1>6, WholeOne
<1>8. Calm(q)
  BY <1>2, <1>5, <1>6 DEF Calm, Handed, Alike
<1>9. InHead(r, q, i)
  BY <1>5, <1>6, <1>8 DEF AtName, InHead, Handed, Alike
<1>10. /\ q.state = "header_value_start" /\ q.mark = "none" /\ q.text = <<>>
       /\ q.header_state = p.header_state /\ q.flags = p.flags
       /\ q.uses_transfer_encoding = p.uses_transfer_encoding
       /\ q.content_length = p.content_length
  BY <1>5, <1>6 DEF Handed, Alike
<1> QED BY <1>7, <1>9, <1>10, Zenon DEF AtName, AtColon

LEMMA LengthMeans ==
    ASSUME NEW r, IsRequest(r), NEW i \in 0 .. Len(r.headers) - 1,
           r.headers[i + 1][1] = "content-length",
           r.headers[i + 1][2] \notin DOMAIN Number \/ LengthsUpTo(r, i) # {}
    PROVE  Refusable(r)
<1> DEFINE bad(j) == r.headers[j][2] \notin DOMAIN Number
<1>1. Len(r.headers) \in Nat /\ i \in Nat /\ i + 1 \in 1 .. Len(r.headers)
  BY RequestTypes
<1>2. i + 1 \in Lengths(r)
  BY <1>1 DEF Lengths
<1>3. CASE bad(i + 1)
  BY <1>2, <1>3, Zenon DEF Refusable
<1>4. CASE LengthsUpTo(r, i) # {}
  <2>1. PICK j : j \in LengthsUpTo(r, i)
    BY <1>4
  <2>2. j \in 1 .. i /\ r.headers[j][1] = "content-length"
    BY <2>1 DEF LengthsUpTo
  <2>3. j \in 1 .. Len(r.headers) /\ j # i + 1
    BY <1>1, <2>2
  <2>4. j \in Lengths(r)
    BY <2>2, <2>3 DEF Lengths
  <2>5. Lengths(r) # {i + 1}
    BY <2>3, <2>4
  <2> QED BY <1>2, <2>5, Zenon DEF Refusable
<1> QED BY <1>3, <1>4

LEMMA ValueRead ==
    ASSUME NEW r, IsRequest(r), NEW i \in 0 .. Len(r.headers) - 1, NEW p, AtColon(r, p, i),
           NEW s, s.t = "value", s.v = r.headers[i + 1][2], NEW q, q = Step(p, s)
    PROVE  AtValue(r, q, i) \/ Refused(r, q)
<1> DEFINE name == r.headers[i + 1][1]
           v == r.headers[i + 1][2]
           g == Goto(p, "header_value")
           m == Mark(g, "value", s)
           Ends == {"keep-alive", "close", "chunked", "connection-upgrade"}
<1>0. Len(r.headers) \in Nat /\ i \in Nat
  BY RequestTypes
<1>1. /\ Calm(p) /\ Shape(p) /\ p.state = "header_value_start" /\ p.text = <<>>
      /\ p.field = name /\ p.header_state = HeaderState(name) /\ p.flags = FlagsUpTo(r, i)
      /\ p.uses_transfer_encoding = Encoded(r, i + 1) /\ LengthIs(r, i, p.content_length)
      /\ InHead(r, p, i)
  BY DEF AtColon, InHead, Calm
<1>2. q = HeaderValueStart(p, s)
  BY <1>1, StepIs
<1>3. q = IF p.header_state = "content-length" THEN ContentLength(m, s.v)
          ELSE [m EXCEPT !.header_state = ValueState(p.header_state, s.v),
                         !.flags = @ \cup (IF p.header_state = "upgrade"
                                           THEN {"upgrade"} ELSE {})]
  BY <1>2 DEF HeaderValueStart
<1>4. /\ Shape(g) /\ Alike(p, g) /\ g.state = "header_value" /\ g.data = p.data
      /\ g.text = p.text /\ g.field = p.field
  BY <1>1, GotoFacts
<1>5. Calm(g)
  BY <1>1, <1>4 DEF Calm, Alike
<1> HIDE DEF g
<1>6. /\ Calm(m) /\ Alike(g, m) /\ m.state = "header_value" /\ m.field = p.field
      /\ m.data = p.data /\ m.mark = "value" /\ m.text = Append(p.text, s.v)
  BY <1>4, <1>5, MarkFacts
<1> HIDE DEF m
<1>7. m.text = <<v>>
  BY <1>1, <1>6
<1>8. Shape(m) /\ Alike(p, m)
  BY <1>4, <1>6 DEF Calm, Alike
<1>9. FlagsUpTo(r, i + 1) = FlagsUpTo(r, i) \cup FlagsOf(name, v)
  BY <1>0, NextFlags
<1>10. CASE name = "content-length"
  <2>1. p.header_state = "content-length"
    BY <1>1, <1>10 DEF HeaderState
  <2>2. q = ContentLength(m, v)
    BY <1>3, <2>1
  <2>3. CASE v \notin DOMAIN Number \/ "contentlength" \in m.flags
    <3>1. q = Fail(m)
      BY <2>2, <2>3 DEF ContentLength
    <3>2. m.flags = FlagsUpTo(r, i)
      BY <1>1, <1>8 DEF Alike
    <3>3. v \notin DOMAIN Number \/ LengthsUpTo(r, i) # {}
      BY <1>0, <2>3, <3>2, FlagsMean
    <3>4. Refusable(r)
      BY <1>10, <3>3, LengthMeans
    <3> QED BY <1>8, <3>1, <3>4, Refuses
  <2>4. CASE v \in DOMAIN Number /\ "contentlength" \notin m.flags
    <3> DEFINE n == Number[v]
    <3>1. q = [m EXCEPT !.flags = @ \cup {"contentlength"}, !.content_length = n]
      BY <2>2, <2>4 DEF ContentLength
    <3> HIDE DEF n, name, v
    <3>2. /\ Shape(q) /\ q.flags = m.flags \cup {"contentlength"} /\ q.content_length = n
          /\ q.method = m.method /\ q.minor = m.minor /\ q.header_state = m.header_state
          /\ q.uses_transfer_encoding = m.uses_transfer_encoding /\ q.upgrade = m.upgrade
          /\ q.exit = m.exit /\ q.http_errno = m.http_errno /\ q.finished = m.finished
          /\ q.state = m.state /\ q.mark = m.mark /\ q.text = m.text /\ q.field = m.field
          /\ q.data = m.data
      BY <1>8, <3>1 DEF Shape, Fields
    <3>3. Calm(q)
      BY <1>6, <3>2 DEF Calm
    <3>4. InHead(r, q, i)
      BY <1>1, <1>6, <1>8, <3>2, <3>3 DEF InHead, Alike
    <3>5. FlagsOf(name, v) = {"contentlength"}
      BY <1>10 DEF FlagsOf
    <3>6. q.flags \cup ({q.header_state} \cap Ends) = FlagsUpTo(r, i + 1)
      BY <1>1, <1>8, <1>9, <2>1, <3>2, <3>5 DEF Alike
    <3>7. LengthsUpTo(r, i) = {}
      BY <1>0, <1>1, <1>8, <2>4, FlagsMean DEF Alike
    <3>8. LengthIs(r, i + 1, q.content_length)
      BY <1>0, <1>1, <1>10, <2>4, <3>2, <3>7, NextLength DEF n, name, v
    <3>9. q.uses_transfer_encoding = Encoded(r, i + 1)
      BY <1>1, <1>8, <3>2 DEF Alike
    <3> QED BY <1>1, <1>6, <1>7, <3>2, <3>4, <3>6, <3>8, <3>9 DEF AtValue, name, v
  <2> QED BY <2>3, <2>4
<1>11. CASE name # "content-length"
  <2> DEFINE h == HeaderState(name)
             w == ValueState(h, v)
             u == IF name = "upgrade" THEN {"upgrade"} ELSE {}
  <2>1. p.header_state # "content-length"
        /\ (IF p.header_state = "upgrade" THEN {"upgrade"} ELSE {}) = u
    BY <1>1, <1>11, StateOfHeader
  <2>2. q = [m EXCEPT !.header_state = w, !.flags = @ \cup u]
    BY <1>1, <1>3, <2>1
  <2>3. FlagsOf(name, v) = u \cup ({w} \cap Ends)
    BY <1>11 DEF FlagsOf
  <2> HIDE DEF h, w, u, name, v
  <2>4. /\ Shape(q) /\ q.flags = m.flags \cup u /\ q.content_length = m.content_length
        /\ q.method = m.method /\ q.minor = m.minor /\ q.header_state = w
        /\ q.uses_transfer_encoding = m.uses_transfer_encoding /\ q.upgrade = m.upgrade
        /\ q.exit = m.exit /\ q.http_errno = m.http_errno /\ q.finished = m.finished
        /\ q.state = m.state /\ q.mark = m.mark /\ q.text = m.text /\ q.field = m.field
        /\ q.data = m.data
    BY <1>8, <2>2 DEF Shape, Fields
  <2>5. Calm(q)
    BY <1>6, <2>4 DEF Calm
  <2>6. InHead(r, q, i)
    BY <1>1, <1>6, <1>8, <2>4, <2>5 DEF InHead, Alike
  <2>7. q.flags \cup ({q.header_state} \cap Ends) = FlagsUpTo(r, i + 1)
    <3> HIDE DEF Ends
    <3> QED BY <1>1, <1>8, <1>9, <2>3, <2>4 DEF Alike
  <2>8. LengthIs(r, i + 1, q.content_length)
    BY <1>0, <1>1, <1>8, <1>11, <2>4, NextLength DEF Alike, name
  <2>9. q.uses_transfer_encoding = Encoded(r, i + 1)
    BY <1>1, <1>8, <2>4 DEF Alike
  <2> QED BY <1>1, <1>6, <1>7, <2>4, <2>6, <2>7, <2>8, <2>9 DEF AtValue, name, v
<1> QED BY <1>10, <1>11

LEMMA HeaderEnds ==
    ASSUME NEW r, IsRequest(r), NEW i \in 0 .. Len(r.headers) - 1, NEW p, AtValue(r, p, i),
           NEW s, s.t = "crlf", NEW q, q = Step(p, s)
    PROVE  AtHeader(r, q, i + 1)
<1> DEFINE name == r.headers[i + 1][1]
           v == r.headers[i + 1][2]
           g == Goto(p, "header_field_start")
           c == Callback(g)
           Ends == {"keep-alive", "close", "chunked", "connection-upgrade"}
<1>0. Len(r.headers) \in Nat /\ i \in Nat
  BY RequestTypes
<1>1. /\ Calm(p) /\ Shape(p) /\ p.state = "header_value" /\ p.mark = "value"
      /\ p.text = <<v>> /\ p.field = name /\ InHead(r, p, i)
      /\ p.flags \cup ({p.header_state} \cap Ends) = FlagsUpTo(r, i + 1)
      /\ p.uses_transfer_encoding = Encoded(r, i + 1)
      /\ LengthIs(r, i + 1, p.content_length)
  BY DEF AtValue, InHead, Calm
<1>2. q = HeaderValue(p, s)
  BY <1>1, StepIs
<1>3. q = [c EXCEPT !.flags = @ \cup ({p.header_state} \cap Ends)]
  BY <1>2 DEF HeaderValue
<1>4. /\ Shape(g) /\ Alike(p, g) /\ g.state = "header_field_start" /\ g.data = p.data
      /\ g.text = p.text /\ g.field = p.field /\ g.mark = "value"
  BY <1>1, GotoFacts
<1> HIDE DEF g, Ends, name, v
<1> DEFINE H == With(g.data.headers, g.field, Whole(g.text))
<1>5. Handed(g, c) /\ c.data = [g.data EXCEPT !.headers = H]
  BY <1>4, CallbackValue
<1> HIDE DEF c
<1>6. H = HeadersUpTo(r, i + 1)
  <2>1. p.data.headers = HeadersUpTo(r, i)
    BY <1>1 DEF InHead, Message
  <2>2. H = With(HeadersUpTo(r, i), name, v)
    BY <1>1, <1>4, <2>1, WholeOne
  <2> HIDE DEF H
  <2>3. HeadersUpTo(r, i + 1) = With(HeadersUpTo(r, i), name, v)
    BY <1>0, NextHeader, Zenon DEF name, v
  <2> QED BY <2>2, <2>3, Zenon
<1> HIDE DEF H
<1>7. c.data = Message(r, HeadersUpTo(r, i + 1))
  <2>1. g.data = Message(r, HeadersUpTo(r, i))
    BY <1>1, <1>4 DEF InHead
  <2> QED BY <1>5, <1>6, <2>1 DEF Message
<1>8. /\ Shape(q) /\ q.flags = c.flags \cup ({p.header_state} \cap Ends)
      /\ q.content_length = c.content_length
      /\ q.method = c.method /\ q.minor = c.minor
      /\ q.uses_transfer_encoding = c.uses_transfer_encoding /\ q.upgrade = c.upgrade
      /\ q.exit = c.exit /\ q.http_errno = c.http_errno /\ q.finished = c.finished
      /\ q.state = c.state /\ q.mark = c.mark /\ q.text = c.text /\ q.data = c.data
  BY <1>3, <1>5 DEF Shape, Fields, Handed
<1>9. Alike(p, c) /\ c.state = "header_field_start" /\ c.mark = "none" /\ c.text = <<>>
  BY <1>4, <1>5 DEF Alike, Handed
<1>10. Calm(q)
  BY <1>1, <1>8, <1>9 DEF Calm, Alike
<1>11. InHead(r, q, i + 1)
  BY <1>1, <1>7, <1>8, <1>9, <1>10 DEF InHead, Alike
<1>12. q.flags = FlagsUpTo(r, i + 1)
  BY <1>1, <1>8, <1>9 DEF Alike
<1>13. LengthIs(r, i + 1, q.content_length) /\ q.uses_transfer_encoding = Encoded(r, i + 1)
  BY <1>1, <1>8, <1>9 DEF Alike
<1> QED BY <1>8, <1>9, <1>11, <1>12, <1>13 DEF AtHeader

-----------------------------------------------------------------------------
(* The blank line                                                            *)

LEMMA CompleteFacts ==
    ASSUME NEW p, Shape(p), NEW q, q = Complete(p)
    PROVE  /\ Shape(q) /\ q.finished = TRUE /\ q.exit = p.upgrade /\ q.upgrade = p.upgrade
           /\ q.http_errno = p.http_errno /\ q.data = p.data
           /\ q.mark = p.mark /\ q.text = p.text
<1> DEFINE state == IF KeepAlive(p) THEN "start_req" ELSE "dead"
           g == Goto(p, state)
           h == OnMessageComplete(g)
<1>1. q = [h EXCEPT !.exit = p.upgrade]
  BY DEF Complete
<1>2. h = [g EXCEPT !.finished = TRUE]
  BY DEF OnMessageComplete
<1> HIDE DEF state
<1>3. /\ Shape(g) /\ Alike(p, g) /\ g.data = p.data /\ g.mark = p.mark /\ g.text = p.text
  BY GotoFacts
<1> HIDE DEF g, h
<1>4. /\ Shape(h) /\ h.finished = TRUE /\ h.upgrade = g.upgrade
      /\ h.http_errno = g.http_errno /\ h.data = g.data /\ h.mark = g.mark /\ h.text = g.text
  BY <1>2, <1>3 DEF Shape, Fields
<1>5. /\ Shape(q) /\ q.finished = TRUE /\ q.upgrade = h.upgrade /\ q.exit = p.upgrade
      /\ q.http_errno = h.http_errno /\ q.data = h.data /\ q.mark = h.mark /\ q.text = h.text
  BY <1>1, <1>4 DEF Shape, Fields
<1> QED BY <1>3, <1>4, <1>5 DEF Alike

LEMMA ServedOrRefused ==
    ASSUME NEW r
    PROVE  /\ Upgrades(r) => Refusable(r)
           /\ (HeadServed(r) /\ ~Upgrades(r)) => ~Refusable(r)
<1>1. Upgrades(r) => Refusable(r)
  BY Zenon DEF Upgrades, Refusable
<1>2. ASSUME HeadServed(r), ~Upgrades(r) PROVE ~Refusable(r)
  <2>1. r.method \in Methods /\ r.method # "CONNECT"
    BY <1>2, Zenon DEF HeadServed, LineServed, Upgrades
  <2>2. IsPath(r.path) \/ IsAbsolute(r.path)
    BY <1>2, Zenon DEF HeadServed, LineServed
  <2>3. ~(HasHeader(r, "upgrade") /\ HasHeaderValue(r, "connection", "upgrade"))
    BY <1>2, Zenon DEF Upgrades
  <2>4. ~Ambiguous(r) /\ (HasHeader(r, "transfer-encoding") =>
                             HasHeaderValue(r, "transfer-encoding", "chunked"))
    BY <1>2, Zenon DEF HeadServed
  <2>5. \A i \in Lengths(r) : r.headers[i][2] \in DOMAIN Number /\ Lengths(r) = {i}
    BY <1>2, Zenon DEF HeadServed
  <2> QED BY <2>1, <2>2, <2>3, <2>4, <2>5, Zenon DEF Refusable
<1> QED BY <1>1, <1>2

\* Behind the blank line.
HeadIs(r, c) ==
    /\ Calm(c) /\ LineServed(r) /\ c.upgrade = Upgrades(r) /\ c.method = r.method
    /\ c.data = WithBody(r, <<>>) /\ c.mark = "none" /\ c.text = <<>>
    /\ c.flags = FlagsUpTo(r, Len(r.headers))
    /\ c.uses_transfer_encoding = Encoded(r, Len(r.headers))
    /\ LengthIs(r, Len(r.headers), c.content_length)

\* The blank line refuses the request or ends the head.
HeadLeads(r, q) ==
    Refused(r, q) \/ (~Ambiguous(r) /\ \E c : HeadIs(r, c) /\ q = HeadersDone(c))

LEMMA HeadComplete ==
    ASSUME NEW r, IsRequest(r), NEW p, AtHeader(r, p, Len(r.headers)),
           NEW s, s.t = "crlf", NEW q, q = Step(p, s)
    PROVE  HeadLeads(r, q)
<1> SUFFICES Refused(r, q) \/ (~Ambiguous(r) /\ \E c : HeadIs(r, c) /\ q = HeadersDone(c))
  BY Zenon DEF HeadLeads
<1> DEFINE n == Len(r.headers)
           up == {"upgrade", "connection-upgrade"} \subseteq p.flags \/ p.method = "CONNECT"
           u == [p EXCEPT !.upgrade = up]
           c == OnHeadersComplete(u)
<1>1. /\ Calm(p) /\ Shape(p) /\ p.state = "header_field_start"
      /\ p.method = r.method /\ p.minor = r.minor /\ LineServed(r)
      /\ p.data = Message(r, HeadersUpTo(r, n)) /\ p.mark = "none" /\ p.text = <<>>
      /\ p.flags = FlagsUpTo(r, n) /\ p.uses_transfer_encoding = Encoded(r, n)
      /\ LengthIs(r, n, p.content_length)
  BY DEF AtHeader, InHead, Calm
<1>2. q = HeadersAlmostDone(p)
  <2>1. q = HeaderFieldStart(p, s)
    BY <1>1, StepIs
  <2> QED BY <2>1 DEF HeaderFieldStart
<1>3. /\ "trailing" \notin p.flags
      /\ "contentlength" \in p.flags <=> HasHeader(r, "content-length")
      /\ p.uses_transfer_encoding <=> HasHeader(r, "transfer-encoding")
      /\ {"upgrade", "connection-upgrade"} \subseteq p.flags <=>
            HasHeader(r, "upgrade") /\ HasHeaderValue(r, "connection", "upgrade")
  BY <1>1, HeadersMean
<1>4. CASE Ambiguous(r)
  <2>1. q = Fail(p)
    BY <1>2, <1>3, <1>4 DEF HeadersAlmostDone, Ambiguous
  <2>2. Refusable(r)
    BY <1>4, Zenon DEF Refusable
  <2> QED BY <1>1, <2>1, <2>2, Refuses
<1>5. CASE ~Ambiguous(r)
  <2>1. q = HeadersDone(c)
    <3>1. ~(p.uses_transfer_encoding /\ "contentlength" \in p.flags)
      BY <1>3, <1>5 DEF Ambiguous
    <3> QED BY <1>2, <1>3, <3>1, Zenon DEF HeadersAlmostDone
  <2>2. up = Upgrades(r)
    <3>1. up \in BOOLEAN /\ Upgrades(r) \in BOOLEAN
      BY DEF Upgrades
    <3>2. up <=> Upgrades(r)
      BY <1>1, <1>3, Zenon DEF Upgrades
    <3> HIDE DEF up
    <3> QED BY <3>1, <3>2
  <2> HIDE DEF up
  <2>3. /\ Shape(u) /\ u.upgrade = up
        /\ u.method = p.method /\ u.minor = p.minor /\ u.flags = p.flags
        /\ u.uses_transfer_encoding = p.uses_transfer_encoding
        /\ u.content_length = p.content_length /\ u.exit = p.exit
        /\ u.http_errno = p.http_errno /\ u.finished = p.finished
        /\ u.mark = p.mark /\ u.text = p.text /\ u.data = p.data
    BY <1>1 DEF Shape, Fields
  <2> HIDE DEF u
  <2>4. c = [u EXCEPT !.data = [u.data EXCEPT !.version = u.minor, !.method = u.method]]
    <3>1. c = [[u EXCEPT !.data = [u.data EXCEPT !.version = u.minor]]
                  EXCEPT !.data = [@ EXCEPT !.method = u.method]]
      BY DEF OnHeadersComplete
    <3> HIDE DEF c
    <3> QED BY <2>3, <3>1 DEF Shape, Fields
  <2> HIDE DEF c
  <2>5. /\ Shape(c) /\ c.upgrade = u.upgrade
        /\ c.method = u.method /\ c.minor = u.minor /\ c.flags = u.flags
        /\ c.uses_transfer_encoding = u.uses_transfer_encoding
        /\ c.content_length = u.content_length /\ c.exit = u.exit
        /\ c.http_errno = u.http_errno /\ c.finished = u.finished
        /\ c.mark = u.mark /\ c.text = u.text
    BY <2>3, <2>4 DEF Shape, Fields
  <2>6. c.data = [u.data EXCEPT !.version = u.minor, !.method = u.method]
    BY <2>3, <2>4 DEF Shape, Fields
  <2>7. c.data = WithBody(r, <<>>)
    <3> DEFINE H == HeadersUpTo(r, n)
    <3>1. c.data = [Message(r, H) EXCEPT !.version = r.minor, !.method = r.method]
      BY <1>1, <2>3, <2>6
    <3>2. WithBody(r, <<>>) = [method |-> r.method, version |-> r.minor,
                               path |-> PathOf(r.path), headers |-> H, body |-> <<>>]
      BY DEF WithBody
    <3> HIDE DEF H
    <3> QED BY <3>1, <3>2 DEF Message
  <2>8. HeadIs(r, c)
    BY <1>1, <2>2, <2>3, <2>5, <2>7 DEF HeadIs, Calm
  <2> QED BY <1>5, <2>1, <2>8
<1> QED BY <1>4, <1>5

LEMMA NoBytesYet ==
    ASSUME NEW r, IsRequest(r)
    PROVE  /\ <<>> \in Seq(Range(r.body)) /\ <<>> \o <<>> = SubSeq(r.body, 1, 0)
           /\ Len(r.body) = 0 => r.body = <<>>
<1> DEFINE A == Range(r.body)
<1>1. r.body \in Seq(A)
  BY DEF IsRequest
<1> HIDE DEF A
<1>2. <<>> \in Seq(A) /\ <<>> \o <<>> = SubSeq(r.body, 1, 0) /\ (Len(r.body) = 0 => r.body = <<>>)
  BY <1>1
<1> QED BY <1>2 DEF A

LEMMA HeadOver ==
    ASSUME NEW r, IsRequest(r), Framed(r), ~Ambiguous(r), NEW c, HeadIs(r, c),
           NEW q, q = HeadersDone(c)
    PROVE  \/ Refused(r, q) \/ (r.body = <<>> /\ ~r.chunked /\ Parsed(r, q))
           \/ r.chunked /\ AtChunk(r, q, 0)
           \/ ~r.chunked /\ Len(r.body) > 0 /\ AtByte(r, q, 0)
<1> DEFINE n == Len(r.headers)
           TE == HasHeaderValue(r, "transfer-encoding", "chunked")
           hasBody == "chunked" \in c.flags \/ c.content_length > 0
<1>1. /\ Calm(c) /\ Shape(c) /\ LineServed(r) /\ c.upgrade = Upgrades(r)
      /\ c.method = r.method /\ c.data = WithBody(r, <<>>) /\ c.mark = "none"
      /\ c.text = <<>> /\ LengthIs(r, n, c.content_length)
  BY DEF HeadIs, Calm
<1>2. /\ "chunked" \in c.flags <=> TE
      /\ c.uses_transfer_encoding <=> HasHeader(r, "transfer-encoding")
      /\ LengthsUpTo(r, n) = Lengths(r)
  BY HeadersMean DEF HeadIs
<1>3. TE => HasHeader(r, "transfer-encoding")
  <2>1. TE <=> \E i \in 1 .. n : r.headers[i] = <<"transfer-encoding", "chunked">>
    BY Zenon DEF HasHeaderValue
  <2>2. HasHeader(r, "transfer-encoding")
           <=> \E i \in 1 .. n : r.headers[i][1] = "transfer-encoding"
    BY Zenon DEF HasHeader
  <2>3. \A i \in 1 .. n : r.headers[i] = <<"transfer-encoding", "chunked">>
                             => r.headers[i][1] = "transfer-encoding"
    OBVIOUS
  <2> HIDE DEF TE
  <2> QED BY <2>1, <2>2, <2>3, Zenon
<1>4. Lengths(r) # {} => HasHeader(r, "content-length")
  BY DEF Lengths, HasHeader
<1>5. c.data.body = <<>>
  BY <1>1 DEF WithBody
<1>6. ASSUME NEW g, Calm(g), HeadServed(r), g.upgrade = c.upgrade, g.data = c.data,
             g.text = <<>>, g.mark = "none"
      PROVE  InBody(r, g, 0)
  <2>1. g.data.body = <<>> /\ g.data = WithBody(r, g.data.body)
    BY <1>1, <1>5, <1>6, Zenon
  <2>2. g.data.body \in Seq(Range(r.body)) /\ g.text \in Seq(Range(r.body))
        /\ g.data.body \o g.text = SubSeq(r.body, 1, 0)
    BY <1>6, <2>1, NoBytesYet, Zenon
  <2> QED BY <1>1, <1>6, <2>1, <2>2, Zenon DEF InBody
<1>7. CASE c.upgrade /\ (c.method = "CONNECT" \/ ~hasBody)
  <2>1. q = Complete(c)
    BY <1>7 DEF HeadersDone
  <2>2. q.exit /\ q.upgrade
    BY <1>1, <1>7, <2>1, CompleteFacts
  <2>3. Refusable(r)
    BY <1>1, <1>7, ServedOrRefused
  <2> QED BY <2>2, <2>3 DEF Refused, Frozen, HasError
<1>8. CASE ~(c.upgrade /\ (c.method = "CONNECT" \/ ~hasBody)) /\ "chunked" \in c.flags
  <2>1. q = Goto(c, "chunk_size_start")
    BY <1>8 DEF HeadersDone
  <2>2. /\ Shape(q) /\ Alike(c, q) /\ q.state = "chunk_size_start"
        /\ q.data = c.data /\ q.mark = c.mark /\ q.text = c.text
    BY <1>1, <2>1, GotoFacts
  <2>3. Calm(q)
    BY <1>1, <2>2 DEF Calm, Alike
  <2>4. TE /\ HasHeader(r, "transfer-encoding") /\ r.chunked
    BY <1>2, <1>3, <1>8, Zenon DEF Framed
  <2>5. Lengths(r) = {}
    BY <1>4, <2>4 DEF Ambiguous
  <2>6. HeadServed(r)
    BY <1>1, <2>4, <2>5, Zenon DEF HeadServed
  <2>7. InBody(r, q, 0)
    BY <1>1, <1>6, <2>2, <2>3, <2>6 DEF Alike
  <2> QED BY <1>1, <2>2, <2>4, <2>7 DEF AtChunk
<1>9. CASE /\ ~(c.upgrade /\ (c.method = "CONNECT" \/ ~hasBody)) /\ "chunked" \notin c.flags
           /\ c.uses_transfer_encoding
  <2>1. q = Fail(c)
    BY <1>9 DEF HeadersDone
  <2>2. Refusable(r)
    BY <1>2, <1>9, Zenon DEF Refusable
  <2> QED BY <1>1, <2>1, <2>2, Refuses
<1>10. CASE /\ ~(c.upgrade /\ (c.method = "CONNECT" \/ ~hasBody)) /\ "chunked" \notin c.flags
            /\ ~c.uses_transfer_encoding
  <2>1. ~TE /\ ~HasHeader(r, "transfer-encoding") /\ ~r.chunked
    <3>1. ~TE /\ ~HasHeader(r, "transfer-encoding")
      BY <1>2, <1>10, Zenon
    <3> HIDE DEF TE
    <3>2. r.chunked => TE
      BY Zenon DEF Framed, TE
    <3> QED BY <3>1, <3>2, Zenon
  <2>2. \/ Lengths(r) = {} /\ c.content_length = ULLONG_MAX
        \/ \E j \in 1 .. n : /\ Lengths(r) = {j} /\ r.headers[j][2] \in DOMAIN Number
                             /\ c.content_length = Number[r.headers[j][2]]
    BY <1>1, <1>2, Zenon DEF LengthIs
  <2>3. \A i \in Lengths(r) : r.headers[i][2] \in DOMAIN Number /\ Lengths(r) = {i}
    <3> HIDE DEF Number, n
    <3> QED BY <2>2
  <2>4. HeadServed(r)
    BY <1>1, <2>1, <2>3, Zenon DEF HeadServed
  <2>5. /\ Lengths(r) = {} => r.body = <<>>
        /\ \A i \in Lengths(r) :
              r.headers[i][2] \in DOMAIN Number => Len(r.body) = Number[r.headers[i][2]]
    BY <2>1, Zenon DEF Framed
  <2>6. \/ c.content_length = ULLONG_MAX /\ r.body = <<>>
        \/ c.content_length = Len(r.body)
    <3> HIDE DEF Number, n, ULLONG_MAX
    <3> QED BY <2>2, <2>5
  <2>7. Len(r.body) \in Nat
    BY RequestTypes
  <2>8. CASE c.content_length > 0
    <3>1. c.content_length = Len(r.body)
      BY <2>6, <2>8 DEF ULLONG_MAX
    <3>2. q = Goto(c, "body_identity")
      BY <1>10, <2>8 DEF HeadersDone
    <3>3. /\ Shape(q) /\ Alike(c, q) /\ q.state = "body_identity"
          /\ q.data = c.data /\ q.mark = c.mark /\ q.text = c.text
      BY <1>1, <3>2, GotoFacts
    <3>4. Calm(q)
      BY <1>1, <3>3 DEF Calm, Alike
    <3>5. InBody(r, q, 0)
      BY <1>1, <1>6, <2>4, <3>3, <3>4 DEF Alike
    <3>6. q.content_length = Len(r.body) - 0
      BY <2>7, <3>1, <3>3 DEF Alike
    <3> QED BY <2>1, <2>8, <3>1, <3>3, <3>5, <3>6 DEF AtByte
  <2>9. CASE ~(c.content_length > 0)
    <3>1. r.body = <<>>
      BY <2>6, <2>7, <2>9, NoBytesYet
    <3>2. q = Complete(c)
      BY <1>10, <2>9 DEF HeadersDone
    <3>3. ~c.upgrade /\ ~Upgrades(r)
      BY <1>1, <1>10, <2>9
    <3>4. /\ Shape(q) /\ q.finished = TRUE /\ q.exit = c.upgrade /\ q.upgrade = c.upgrade
          /\ q.http_errno = c.http_errno /\ q.data = c.data
          /\ q.mark = c.mark /\ q.text = c.text
      BY <1>1, <3>2, CompleteFacts
    <3>5. q.data = Kept(r)
      BY <1>1, <3>1, <3>4, Zenon DEF Kept
    <3>6. ~Refusable(r)
      BY <2>4, <3>3, ServedOrRefused
    <3>7. Parsed(r, q)
      BY <1>1, <3>3, <3>4, <3>5, <3>6 DEF Parsed, Calm
    <3> QED BY <2>1, <3>1, <3>7, Zenon
  <2> QED BY <2>8, <2>9
<1> QED BY <1>7, <1>8, <1>9, <1>10, Zenon

-----------------------------------------------------------------------------
(* The body                                                                  *)

\* Of the bytes b the first j are read: d was handed over, t was not yet.
BytesRead(A, b, j, d, t) ==
    b \in Seq(A) /\ d \in Seq(A) /\ t \in Seq(A) /\ d \o t = SubSeq(b, 1, j)

LEMMA NextByte ==
    ASSUME NEW A, NEW b, NEW j \in 0 .. Len(b) - 1, NEW d, NEW t, BytesRead(A, b, j, d, t)
    PROVE  BytesRead(A, b, j + 1, d, Append(t, b[j + 1]))
<1>0. b \in Seq(A) /\ d \in Seq(A) /\ t \in Seq(A) /\ d \o t = SubSeq(b, 1, j)
  BY Zenon DEF BytesRead
<1> DEFINE v == b[j + 1]
           u == Append(t, v)
           w == SubSeq(b, 1, j)
           x == SubSeq(b, 1, j + 1)
           m == Len(d)
           n == Len(t)
<1>1. v \in A /\ m \in Nat /\ n \in Nat /\ j \in Nat
  BY <1>0
<1>2. u \in Seq(A) /\ Len(u) = n + 1 /\ u[n + 1] = v /\ \A i \in 1 .. n : u[i] = t[i]
  BY <1>0, <1>1
<1>3. w \in Seq(A) /\ Len(w) = j /\ \A i \in 1 .. j : w[i] = b[i]
  BY <1>0
<1>4. x \in Seq(A) /\ Len(x) = j + 1 /\ \A i \in 1 .. j + 1 : x[i] = b[i]
  BY <1>0
<1> DEFINE y == d \o t
           z == d \o u
<1>5. Joined(A, d, m, t, n, y)
  BY <1>0, <1>1, Join, Zenon
<1>6. n + 1 \in Nat
  BY <1>1
<1>7. y = w
  BY <1>0
<1> HIDE DEF v, u, w, x, y, m, n
<1>8. Joined(A, d, m, u, n + 1, z)
  BY <1>0, <1>1, <1>2, <1>6, Join, Zenon DEF m
<1> HIDE DEF z
<1>9. m + n = j
  BY <1>3, <1>5, <1>7 DEF Joined
<1>10. \A i \in 1 .. j + 1 : z[i] = x[i]
  <2>1. ASSUME NEW i \in 1 .. m PROVE z[i] = x[i]
    <3>1. z[i] = d[i] /\ y[i] = d[i]
      BY <1>5, <1>8, Zenon DEF Joined
    <3>2. i \in 1 .. j /\ i \in 1 .. j + 1
      BY <1>1, <1>9
    <3> QED BY <1>3, <1>4, <1>7, <3>1, <3>2, Zenon
  <2>2. ASSUME NEW i \in 1 .. n PROVE z[m + i] = x[m + i]
    <3>1. i \in 1 .. n + 1
      BY <1>1
    <3>2. z[m + i] = u[i] /\ u[i] = t[i] /\ y[m + i] = t[i]
      BY <1>2, <1>5, <1>8, <3>1, Zenon DEF Joined
    <3>3. m + i \in 1 .. j /\ m + i \in 1 .. j + 1
      BY <1>1, <1>9
    <3> QED BY <1>3, <1>4, <1>7, <3>2, <3>3, Zenon
  <2>3. z[j + 1] = x[j + 1]
    <3>1. n + 1 \in 1 .. n + 1 /\ m + (n + 1) = j + 1 /\ j + 1 \in 1 .. j + 1
      BY <1>1, <1>9
    <3>2. z[m + (n + 1)] = u[n + 1]
      BY <1>8, <3>1, Zenon DEF Joined
    <3> QED BY <1>2, <1>4, <3>1, <3>2, Zenon DEF v
  <2>4. ASSUME NEW i \in 1 .. j + 1 PROVE z[i] = x[i]
    <3>1. i \in 1 .. m \/ (i - m \in 1 .. n /\ i = m + (i - m)) \/ i = j + 1
      BY <1>1, <1>9
    <3>2. CASE i \in 1 .. m
      BY <2>1, <3>2
    <3>3. CASE i - m \in 1 .. n /\ i = m + (i - m)
      BY <2>2, <3>3
    <3>4. CASE i = j + 1
      BY <2>3, <3>4
    <3> QED BY <3>1, <3>2, <3>3, <3>4
  <2> QED BY <2>4
<1>11. z \in Seq(A) /\ Len(z) = j + 1
  BY <1>1, <1>8, <1>9 DEF Joined
<1>12. z = x
  BY <1>4, <1>10, <1>11, SeqEqual
<1> QED BY <1>0, <1>2, <1>12, Zenon DEF u, v, x, z, BytesRead

\* One more byte of a body is marked.
Marks(r, p, j, s, q) ==
    /\ IsRequest(r) /\ j \in 0 .. Len(r.body) - 1 /\ InBody(r, p, j) /\ s.v = r.body[j + 1]
    /\ q = [Mark(p, "body", s) EXCEPT !.content_length = @ - 1]

Marked(r, p, j, q) ==
    /\ InBody(r, q, j + 1) /\ q.content_length = p.content_length - 1
    /\ q.state = p.state /\ q.mark = "body"

LEMMA ByteMarked ==
    ASSUME NEW r, NEW p, NEW j, NEW s, NEW q, Marks(r, p, j, s, q)
    PROVE  Marked(r, p, j, q)
<1> DEFINE n == p.content_length
<1>0. /\ IsRequest(r) /\ j \in 0 .. Len(r.body) - 1 /\ InBody(r, p, j) /\ s.v = r.body[j + 1]
      /\ q = [Mark(p, "body", s) EXCEPT !.content_length = @ - 1]
  BY Zenon DEF Marks
<1> DEFINE m == Mark(p, "body", s)
           A == Range(r.body)
<1>1. /\ Calm(p) /\ Shape(p) /\ HeadServed(r) /\ p.upgrade = Upgrades(r)
      /\ p.data = WithBody(r, p.data.body) /\ p.data.body \in Seq(A) /\ p.text \in Seq(A)
      /\ p.data.body \o p.text = SubSeq(r.body, 1, j)
  BY <1>0 DEF InBody, Calm
<1>2. /\ Calm(m) /\ Shape(m) /\ Alike(p, m) /\ m.state = p.state /\ m.data = p.data
      /\ m.mark = "body" /\ m.text = Append(p.text, s.v)
  <2>1. Calm(m) /\ Alike(p, m)
    BY <1>1, MarkFacts
  <2>2. m.state = p.state /\ m.data = p.data
    BY <1>1, MarkFacts
  <2>3. m.mark = "body" /\ m.text = Append(p.text, s.v)
    BY <1>1, MarkFacts
  <2> HIDE DEF m
  <2>4. Shape(m)
    BY <2>1 DEF Calm
  <2> QED BY <2>1, <2>2, <2>3, <2>4
<1> HIDE DEF m
<1>3. m.content_length = n
  BY <1>2, Zenon DEF Alike
<1>4. q = [m EXCEPT !.content_length = n - 1]
  BY <1>0, <1>2, <1>3 DEF m
<1>5. /\ Shape(q) /\ q.content_length = n - 1 /\ q.state = m.state /\ q.upgrade = m.upgrade
      /\ q.exit = m.exit /\ q.http_errno = m.http_errno /\ q.finished = m.finished
      /\ q.data = m.data /\ q.mark = m.mark /\ q.text = m.text
  BY <1>2, <1>4 DEF Shape, Fields
<1>6. Calm(q)
  BY <1>2, <1>5 DEF Calm
<1>7. r.body \in Seq(A)
  BY <1>0 DEF IsRequest
<1> HIDE DEF A
<1>8. q.text \in Seq(A) /\ q.data.body \o q.text = SubSeq(r.body, 1, j + 1)
  <2>1. q.text = Append(p.text, r.body[j + 1]) /\ q.data.body = p.data.body
    BY <1>0, <1>2, <1>5, Zenon
  <2> DEFINE d == p.data.body
             t == p.text
             b == r.body
  <2>2. BytesRead(A, b, j, d, t) /\ j \in 0 .. Len(b) - 1
    BY <1>0, <1>1, <1>7, Zenon DEF BytesRead
  <2> HIDE DEF d, t, b
  <2>3. BytesRead(A, b, j + 1, d, Append(t, b[j + 1]))
    BY <2>2, NextByte, Zenon
  <2> QED BY <2>1, <2>3, Zenon DEF BytesRead, d, t, b
<1>9. q.data = WithBody(r, q.data.body) /\ q.data.body \in Seq(A) /\ q.upgrade = Upgrades(r)
  BY <1>1, <1>2, <1>5, Zenon DEF Alike
<1>10. q.mark = "body" /\ q.state = p.state
  BY <1>2, <1>5, Zenon
<1>11. InBody(r, q, j + 1)
  BY <1>1, <1>6, <1>8, <1>9, <1>10, Zenon DEF InBody, A
<1> QED BY <1>5, <1>10, <1>11, Zenon DEF Marked, n

LEMMA BodyHanded ==
    ASSUME NEW r, NEW j, NEW p, InBody(r, p, j), NEW q, q = Callback(p)
    PROVE  InBody(r, q, j) /\ q.state = p.state /\ q.mark = "none" /\ q.text = <<>>
           /\ q.content_length = p.content_length /\ q.flags = p.flags
<1> DEFINE A == Range(r.body)
<1>1. /\ Calm(p) /\ Shape(p) /\ HeadServed(r) /\ p.upgrade = Upgrades(r)
      /\ p.data = WithBody(r, p.data.body) /\ p.data.body \in Seq(A) /\ p.text \in Seq(A)
      /\ p.data.body \o p.text = SubSeq(r.body, 1, j)
  BY DEF InBody, Calm
<1>2. CASE p.mark = "body"
  <2> DEFINE b == p.data.body \o p.text
  <2>1. Handed(p, q) /\ q.data = [p.data EXCEPT !.body = b]
    BY <1>1, <1>2, CallbackBody
  <2>2. b \in Seq(A)
    <3> HIDE DEF A
    <3>1. p.data.body \in Seq(A) /\ p.text \in Seq(A)
      BY <1>1, Zenon
    <3> QED BY <3>1, ConcatProperties, Zenon
  <2> HIDE DEF A
  <2>3. b \o <<>> = b
    BY <2>2
  <2> HIDE DEF b
  <2>4. q.data = WithBody(r, b)
    BY <1>1, <2>1 DEF WithBody
  <2>5. q.data.body = b
    BY <2>4 DEF WithBody
  <2>6. /\ Shape(q) /\ Alike(p, q) /\ q.state = p.state /\ q.mark = "none" /\ q.text = <<>>
    BY <2>1 DEF Handed
  <2>7. Calm(q)
    BY <1>1, <2>6 DEF Calm, Alike
  <2>8. q.text \in Seq(A) /\ q.data.body \o q.text = SubSeq(r.body, 1, j)
    <3>1. <<>> \in Seq(A)
      OBVIOUS
    <3>2. q.data.body \o q.text = b
      BY <2>3, <2>5, <2>6, Zenon
    <3> QED BY <1>1, <2>6, <3>1, <3>2, Zenon DEF b
  <2>9. InBody(r, q, j)
    BY <1>1, <2>2, <2>4, <2>5, <2>6, <2>7, <2>8, Zenon DEF InBody, Alike, A
  <2> QED BY <2>6, <2>9, Zenon DEF Alike
<1>3. CASE p.mark # "body"
  <2>1. p.mark = "none" /\ p.text = <<>>
    BY <1>3 DEF InBody
  <2>2. q = p
    BY <1>1, <2>1, CallbackNone
  <2> QED BY <2>1, <2>2
<1> QED BY <1>2, <1>3

LEMMA BodyOver ==
    ASSUME NEW r, IsRequest(r), NEW p, InBody(r, p, Len(r.body)), p.mark = "none",
           p.text = <<>>, NEW q, q = Complete(p)
    PROVE  Parsed(r, q) \/ Refused(r, q)
<1> DEFINE A == Range(r.body)
<1>1. /\ Calm(p) /\ Shape(p) /\ HeadServed(r) /\ p.upgrade = Upgrades(r)
      /\ p.data = WithBody(r, p.data.body) /\ p.data.body \in Seq(A)
      /\ p.data.body \o <<>> = SubSeq(r.body, 1, Len(r.body))
  BY DEF InBody, Calm
<1>2. p.data = Kept(r)
  <2>1. r.body \in Seq(A)
    BY DEF IsRequest
  <2> HIDE DEF A
  <2>2. p.data.body = r.body
    <3>1. p.data.body \o <<>> = p.data.body
      BY <1>1
    <3>2. SubSeq(r.body, 1, Len(r.body)) = r.body
      BY <2>1
    <3> QED BY <1>1, <3>1, <3>2
  <2> QED BY <1>1, <2>2, Zenon DEF Kept
<1>3. /\ Shape(q) /\ q.finished = TRUE /\ q.exit = p.upgrade /\ q.upgrade = p.upgrade
      /\ q.http_errno = p.http_errno /\ q.data = p.data /\ q.mark = "none" /\ q.text = <<>>
  BY <1>1, CompleteFacts
<1>4. CASE Upgrades(r)
  <2>1. Refusable(r)
    BY <1>4, ServedOrRefused
  <2> QED BY <1>1, <1>3, <1>4, <2>1 DEF Refused, Frozen, HasError
<1>5. CASE ~Upgrades(r)
  <2>1. ~Refusable(r)
    BY <1>1, <1>5, ServedOrRefused
  <2> QED BY <1>1, <1>2, <1>3, <1>5, <2>1 DEF Parsed, Calm
<1> QED BY <1>4, <1>5

LEMMA BodyMoves ==
    ASSUME NEW r, NEW j, NEW p, InBody(r, p, j), NEW q, Shape(q),
           q.upgrade = p.upgrade, q.exit = p.exit, q.http_errno = p.http_errno,
           q.finished = p.finished, q.data = p.data, q.mark = p.mark, q.text = p.text
    PROVE  InBody(r, q, j)
<1>1. Calm(q)
  BY DEF InBody, Calm
<1> QED BY <1>1, Zenon DEF InBody

LEMMA ByteRead ==
    ASSUME NEW r, IsRequest(r), NEW j \in 0 .. Len(r.body) - 1, NEW p, AtByte(r, p, j),
           NEW s, s.v = r.body[j + 1], NEW q, q = Step(p, s)
    PROVE  \/ j + 1 < Len(r.body) /\ AtByte(r, q, j + 1)
           \/ j + 1 = Len(r.body) /\ (Parsed(r, q) \/ Refused(r, q))
<1> DEFINE B == Len(r.body)
           m == [Mark(p, "body", s) EXCEPT !.content_length = @ - 1]
           n == B - j
<1>0. B \in Nat /\ j \in Nat
  BY RequestTypes
<1>1. InBody(r, p, j) /\ p.state = "body_identity" /\ p.content_length = n /\ Calm(p)
  BY DEF AtByte, InBody
<1>2. q = BodyIdentity(p, s)
  BY <1>1, StepIs
<1>3. q = IF m.content_length = 0 THEN Complete(Callback(m)) ELSE m
  BY <1>2 DEF BodyIdentity
<1> HIDE DEF n
<1>4. /\ InBody(r, m, j + 1) /\ m.content_length = n - 1 /\ m.state = "body_identity"
  <2>0. Marks(r, p, j, s, m)
    BY <1>1, Zenon DEF Marks
  <2> HIDE DEF m
  <2>1. /\ InBody(r, m, j + 1) /\ m.content_length = p.content_length - 1
        /\ m.state = p.state
    <3>1. Marked(r, p, j, m)
      BY <2>0, ByteMarked, Zenon
    <3> QED BY <3>1, Zenon DEF Marked
  <2> QED BY <1>1, <2>1, Zenon
<1> HIDE DEF m
<1>5. CASE j + 1 = B
  <2>1. m.content_length = 0
    BY <1>0, <1>4, <1>5 DEF n
  <2> DEFINE c == Callback(m)
  <2>2. q = Complete(c)
    BY <1>3, <2>1
  <2>3. InBody(r, c, B) /\ c.mark = "none" /\ c.text = <<>>
    BY <1>4, <1>5, BodyHanded
  <2> HIDE DEF c
  <2>4. Parsed(r, q) \/ Refused(r, q)
    BY <2>2, <2>3, BodyOver, Zenon
  <2> QED BY <1>5, <2>4
<1>6. CASE j + 1 # B
  <2>1. m.content_length # 0 /\ m.content_length = B - (j + 1) /\ j + 1 < B
    BY <1>0, <1>4, <1>6 DEF n
  <2>2. q = m
    BY <1>3, <2>1
  <2> QED BY <1>4, <2>1, <2>2 DEF AtByte
<1> QED BY <1>5, <1>6

LEMMA SizeRead ==
    ASSUME NEW r, NEW j, NEW p, AtChunk(r, p, j), NEW s, s.t = "size",
           NEW v, s.v = v, v \in DOMAIN Number, NEW q, q = Step(p, s)
    PROVE  AtSize(r, q, j, Number[v])
<1> DEFINE n == Number[v]
<1>1. InBody(r, p, j) /\ p.state = "chunk_size_start" /\ p.mark = "none" /\ Calm(p) /\ Shape(p)
  BY DEF AtChunk, InBody, Calm
<1>2. q = ChunkSize(p, s)
  BY <1>1, StepIs
<1>3. q = [p EXCEPT !.content_length = n, !.state = "chunk_size_almost_done"]
  BY <1>2 DEF ChunkSize
<1> HIDE DEF n
<1>4. /\ Shape(q) /\ q.content_length = n /\ q.state = "chunk_size_almost_done"
      /\ q.upgrade = p.upgrade /\ q.exit = p.exit /\ q.http_errno = p.http_errno
      /\ q.finished = p.finished /\ q.data = p.data /\ q.mark = p.mark /\ q.text = p.text
  BY <1>1, <1>3 DEF Shape, Fields
<1>5. InBody(r, q, j)
  BY <1>1, <1>4, BodyMoves
<1> QED BY <1>1, <1>4, <1>5 DEF AtSize, n

LEMMA SizeEnds ==
    ASSUME NEW r, NEW j, NEW p, AtSize(r, p, j, 1), NEW s, s.t = "crlf", NEW q, q = Step(p, s)
    PROVE  AtData(r, q, j)
<1>1. /\ InBody(r, p, j) /\ p.state = "chunk_size_almost_done" /\ p.mark = "none"
      /\ p.content_length = 1 /\ Calm(p) /\ Shape(p)
  BY DEF AtSize, InBody, Calm
<1>2. q = ChunkSizeAlmostDone(p, s)
  BY <1>1, StepIs
<1>3. q = Goto(p, "chunk_data")
  BY <1>1, <1>2 DEF ChunkSizeAlmostDone
<1>4. /\ Shape(q) /\ Alike(p, q) /\ q.state = "chunk_data" /\ q.data = p.data
      /\ q.mark = p.mark /\ q.text = p.text
  BY <1>1, <1>3, GotoFacts
<1>5. InBody(r, q, j)
  BY <1>1, <1>4, BodyMoves DEF Alike
<1> QED BY <1>1, <1>4, <1>5 DEF AtData, Alike

LEMMA LastSizeEnds ==
    ASSUME NEW r, NEW p, AtSize(r, p, Len(r.body), 0), NEW s, s.t = "crlf",
           NEW q, q = Step(p, s)
    PROVE  AtTrailer(r, q)
<1>1. /\ InBody(r, p, Len(r.body)) /\ p.state = "chunk_size_almost_done" /\ p.mark = "none"
      /\ p.content_length = 0 /\ Calm(p) /\ Shape(p)
  BY DEF AtSize, InBody, Calm
<1>2. q = ChunkSizeAlmostDone(p, s)
  BY <1>1, StepIs
<1>3. q = [p EXCEPT !.flags = @ \cup {"trailing"}, !.state = "header_field_start"]
  BY <1>1, <1>2 DEF ChunkSizeAlmostDone
<1>4. /\ Shape(q) /\ q.flags = p.flags \cup {"trailing"} /\ q.state = "header_field_start"
      /\ q.upgrade = p.upgrade /\ q.exit = p.exit /\ q.http_errno = p.http_errno
      /\ q.finished = p.finished /\ q.data = p.data /\ q.mark = p.mark /\ q.text = p.text
  BY <1>1, <1>3 DEF Shape, Fields
<1>5. InBody(r, q, Len(r.body))
  BY <1>1, <1>4, BodyMoves
<1> QED BY <1>1, <1>4, <1>5 DEF AtTrailer

LEMMA DataRead ==
    ASSUME NEW r, IsRequest(r), NEW j \in 0 .. Len(r.body) - 1, NEW p, AtData(r, p, j),
           NEW s, s.v = r.body[j + 1], NEW q, q = Step(p, s)
    PROVE  AtDataEnd(r, q, j + 1)
<1> DEFINE m == [Mark(p, "body", s) EXCEPT !.content_length = @ - 1]
<1>1. InBody(r, p, j) /\ p.state = "chunk_data" /\ p.content_length = 1 /\ Calm(p)
  BY DEF AtData, InBody
<1>2. q = ChunkData(p, s)
  BY <1>1, StepIs
<1>3. q = IF m.content_length = 0 THEN Goto(m, "chunk_data_almost_done") ELSE m
  BY <1>2 DEF ChunkData
<1>4. InBody(r, m, j + 1) /\ m.content_length = 1 - 1
  <2>0. Marks(r, p, j, s, m)
    BY <1>1, Zenon DEF Marks
  <2> HIDE DEF m
  <2>1. InBody(r, m, j + 1) /\ m.content_length = p.content_length - 1
    <3>1. Marked(r, p, j, m)
      BY <2>0, ByteMarked, Zenon
    <3> QED BY <3>1, Zenon DEF Marked
  <2> QED BY <1>1, <2>1
<1> HIDE DEF m
<1>5. q = Goto(m, "chunk_data_almost_done")
  BY <1>3, <1>4
<1>6. Shape(m)
  BY <1>4 DEF InBody, Calm
<1>7. /\ Shape(q) /\ Alike(m, q) /\ q.state = "chunk_data_almost_done" /\ q.data = m.data
      /\ q.mark = m.mark /\ q.text = m.text
  BY <1>5, <1>6, GotoFacts
<1>8. InBody(r, q, j + 1)
  BY <1>4, <1>7, BodyMoves DEF Alike
<1> QED BY <1>7, <1>8 DEF AtDataEnd

LEMMA DataEnds ==
    ASSUME NEW r, NEW j, NEW p, AtDataEnd(r, p, j), NEW s, s.t = "crlf", NEW q, q = Step(p, s)
    PROVE  AtChunk(r, q, j)
<1> DEFINE g == Goto(p, "chunk_size_start")
<1>1. InBody(r, p, j) /\ p.state = "chunk_data_almost_done" /\ Calm(p) /\ Shape(p)
  BY DEF AtDataEnd, InBody, Calm
<1>2. q = ChunkDataDone(p, s)
  BY <1>1, StepIs
<1>3. q = Callback(g)
  BY <1>2 DEF ChunkDataDone
<1>4. /\ Shape(g) /\ Alike(p, g) /\ g.state = "chunk_size_start" /\ g.data = p.data
      /\ g.mark = p.mark /\ g.text = p.text
  BY <1>1, GotoFacts
<1> HIDE DEF g
<1>5. InBody(r, g, j)
  BY <1>1, <1>4, BodyMoves DEF Alike
<1>6. InBody(r, q, j) /\ q.state = g.state /\ q.mark = "none"
  BY <1>3, <1>5, BodyHanded
<1> QED BY <1>4, <1>6 DEF AtChunk

LEMMA TrailerEnds ==
    ASSUME NEW r, IsRequest(r), NEW p, AtTrailer(r, p), NEW s, s.t = "crlf",
           NEW q, q = Step(p, s)
    PROVE  Parsed(r, q) \/ Refused(r, q)
<1>1. /\ InBody(r, p, Len(r.body)) /\ p.state = "header_field_start" /\ p.mark = "none"
      /\ "trailing" \in p.flags /\ Calm(p)
  BY DEF AtTrailer, InBody
<1>2. p.text = <<>>
  BY <1>1 DEF InBody
<1>3. q = HeaderFieldStart(p, s)
  BY <1>1, StepIs
<1>4. q = HeadersAlmostDone(p)
  BY <1>3 DEF HeaderFieldStart
<1>5. q = Complete(p)
  BY <1>1, <1>4 DEF HeadersAlmostDone
<1> QED BY <1>1, <1>2, <1>5, BodyOver, Zenon

-----------------------------------------------------------------------------
(* One symbol of a request                                                   *)

\* What a symbol of a request brings a parser to.
Onward(r, q, k) ==
    \/ At(r, q, k) \/ Refused(r, q)
    \/ k = HeadEnd(r) + BodySize(r) /\ Parsed(r, q)

LEMMA PlacesInHead ==
    ASSUME NEW r, NEW q
    PROVE  /\ \A i \in 0 .. Len(r.path) : AtUrl(r, q, i) => HeadAt(r, q, 1 + i)
           /\ \A i \in 0 .. Len(r.headers) :
                 AtHeader(r, q, i) => HeadAt(r, q, Len(r.path) + 2 + 4 * i)
           /\ \A i \in 0 .. Len(r.headers) - 1 :
                 /\ AtName(r, q, i) => HeadAt(r, q, Len(r.path) + 3 + 4 * i)
                 /\ AtColon(r, q, i) => HeadAt(r, q, Len(r.path) + 4 + 4 * i)
                 /\ AtValue(r, q, i) => HeadAt(r, q, Len(r.path) + 5 + 4 * i)
BY Zenon DEF HeadAt

LEMMA PlacesInBody ==
    ASSUME NEW r, NEW q
    PROVE  /\ \A j \in 0 .. Len(r.body) - 1 :
                 ~r.chunked /\ AtByte(r, q, j) => BodyAt(r, q, HeadEnd(r) + j)
           /\ \A j \in 0 .. Len(r.body) :
                 r.chunked /\ AtChunk(r, q, j) => BodyAt(r, q, HeadEnd(r) + 4 * j)
           /\ \A j \in 0 .. Len(r.body) - 1 :
                 /\ r.chunked /\ AtSize(r, q, j, 1) => BodyAt(r, q, HeadEnd(r) + 4 * j + 1)
                 /\ r.chunked /\ AtData(r, q, j) => BodyAt(r, q, HeadEnd(r) + 4 * j + 2)
                 /\ r.chunked /\ AtDataEnd(r, q, j + 1) => BodyAt(r, q, HeadEnd(r) + 4 * j + 3)
           /\ r.chunked /\ AtSize(r, q, Len(r.body), 0)
                 => BodyAt(r, q, HeadEnd(r) + 4 * Len(r.body) + 1)
           /\ r.chunked /\ AtTrailer(r, q) => BodyAt(r, q, HeadEnd(r) + 4 * Len(r.body) + 2)
<1>1. \A j \in 0 .. Len(r.body) - 1 :
         ~r.chunked /\ AtByte(r, q, j) => BodyAt(r, q, HeadEnd(r) + j)
  BY Zenon DEF BodyAt
<1>2. \A j \in 0 .. Len(r.body) :
         r.chunked /\ AtChunk(r, q, j) => BodyAt(r, q, HeadEnd(r) + 4 * j)
  BY Zenon DEF BodyAt
<1>3. ASSUME NEW j \in 0 .. Len(r.body) - 1
      PROVE  /\ r.chunked /\ AtSize(r, q, j, 1) => BodyAt(r, q, HeadEnd(r) + 4 * j + 1)
             /\ r.chunked /\ AtData(r, q, j) => BodyAt(r, q, HeadEnd(r) + 4 * j + 2)
             /\ r.chunked /\ AtDataEnd(r, q, j + 1) => BodyAt(r, q, HeadEnd(r) + 4 * j + 3)
  BY <1>3, Zenon DEF BodyAt
<1>4. /\ r.chunked /\ AtSize(r, q, Len(r.body), 0)
            => BodyAt(r, q, HeadEnd(r) + 4 * Len(r.body) + 1)
      /\ r.chunked /\ AtTrailer(r, q) => BodyAt(r, q, HeadEnd(r) + 4 * Len(r.body) + 2)
  BY Zenon DEF BodyAt
<1> QED BY <1>1, <1>2, <1>3, <1>4, Zenon

LEMMA HeadStep ==
    ASSUME NEW r, IsRequest(r), Framed(r), NEW E, HeadCoded(r, E), NEW k \in Nat,
           NEW p, HeadAt(r, p, k), NEW q, q = Step(p, E[k + 1])
    PROVE  Onward(r, q, k + 1)
<1> DEFINE P == Len(r.path)
           n == Len(r.headers)
           B == Len(r.body)
<1>0. P \in Nat /\ n \in Nat /\ B \in Nat /\ HeadEnd(r) = P + 4 * n + 3
      /\ (~r.chunked => BodySize(r) = B)
  BY RequestTypes DEF HeadEnd, BodySize
<1>c. /\ E[1] = Sym("method", r.method)
      /\ \A i \in 1 .. P : E[1 + i] = Sym("url", r.path[i])
      /\ E[P + 2] = Sym("http", r.minor)
      /\ \A i \in 0 .. n - 1 :
            /\ E[P + 2 + 4 * i + 1] = Sym("field", r.headers[i + 1][1])
            /\ E[P + 2 + 4 * i + 2].t = "colon"
            /\ E[P + 2 + 4 * i + 3] = Sym("value", r.headers[i + 1][2])
            /\ E[P + 2 + 4 * i + 4].t = "crlf"
      /\ E[HeadEnd(r)].t = "crlf"
  <2>1. Sym("colon", "").t = "colon" /\ Crlf.t = "crlf"
    BY Zenon DEF Sym, Crlf
  <2> QED BY <2>1, Zenon DEF HeadCoded
<1>h. HeadAt(r, q, k + 1) => Onward(r, q, k + 1)
  BY Zenon DEF At, Onward
<1>b. BodyAt(r, q, k + 1) => Onward(r, q, k + 1)
  BY Zenon DEF At, Onward
<1>r. Refused(r, q) => Onward(r, q, k + 1)
  BY Zenon DEF Onward
<1>s. \A t, v : Sym(t, v).t = t /\ Sym(t, v).v = v
  BY DEF Sym
<1> HIDE DEF P, n, B
<1>1. CASE k = 0 /\ p = NewParser
  <2>1. k + 1 = 1 /\ 1 + 0 = 1 /\ 0 \in 0 .. P
    BY <1>0, <1>1
  <2>2. q = Step(NewParser, Sym("method", r.method))
    BY <1>c, <1>1, <2>1, Zenon
  <2>3. AtUrl(r, q, 0) \/ Refused(r, q)
    BY <2>2, Begins, Zenon
  <2>4. AtUrl(r, q, 0) => HeadAt(r, q, k + 1)
    BY <2>1, PlacesInHead, Zenon DEF P
  <2> QED BY <1>h, <1>r, <2>3, <2>4, Zenon
<1>2. ASSUME NEW i \in 0 .. P, k = 1 + i, AtUrl(r, p, i) PROVE Onward(r, q, k + 1)
  <2>1. CASE i = P
    <3>1. k + 1 = P + 2 /\ P + 2 = P + 2 + 4 * 0 /\ 0 \in 0 .. n
      BY <1>0, <1>2, <2>1
    <3>2. q = Step(p, Sym("http", r.minor))
      BY <1>c, <3>1, Zenon
    <3>3. AtHeader(r, q, 0) \/ Refused(r, q)
      BY <1>2, <2>1, <3>2, LineEnds, Zenon DEF P
    <3>4. AtHeader(r, q, 0) => HeadAt(r, q, k + 1)
      BY <3>1, PlacesInHead, Zenon DEF P, n
    <3> QED BY <1>h, <1>r, <3>3, <3>4, Zenon
  <2>2. CASE i # P
    <3>1. i + 1 \in 1 .. P /\ i + 1 \in 0 .. P /\ k + 1 = 1 + (i + 1) /\ i \in 0 .. P - 1
      BY <1>0, <1>2, <2>2
    <3>2. q = Step(p, Sym("url", r.path[i + 1]))
      BY <1>c, <3>1, Zenon
    <3>3. AtUrl(r, q, i + 1) \/ Refused(r, q)
      BY <1>2, <3>1, <3>2, UrlPiece, Zenon DEF P
    <3>4. AtUrl(r, q, i + 1) => HeadAt(r, q, k + 1)
      BY <3>1, PlacesInHead, Zenon DEF P
    <3> QED BY <1>h, <1>r, <3>3, <3>4, Zenon
  <2> QED BY <2>1, <2>2
<1>3. ASSUME NEW i \in 0 .. n, k = P + 2 + 4 * i, AtHeader(r, p, i) PROVE Onward(r, q, k + 1)
  <2>1. CASE i = n
    <3>1. k + 1 = HeadEnd(r)
      BY <1>0, <1>3, <2>1
    <3> DEFINE s == E[k + 1]
    <3>2. s.t = "crlf" /\ q = Step(p, s)
      BY <1>c, <3>1, Zenon
    <3> HIDE DEF s
    <3>3. AtHeader(r, p, Len(r.headers))
      BY <1>3, <2>1, Zenon DEF n
    <3>4. Refused(r, q) \/ (~Ambiguous(r) /\ \E c : HeadIs(r, c) /\ q = HeadersDone(c))
      <4>1. HeadLeads(r, q)
        BY <3>2, <3>3, HeadComplete, Zenon
      <4> QED BY <4>1, Zenon DEF HeadLeads
    <3>5. CASE Refused(r, q)
      BY <1>r, <3>5
    <3>6. ASSUME ~Ambiguous(r), NEW c, HeadIs(r, c), q = HeadersDone(c)
          PROVE  Onward(r, q, k + 1)
      <4>1. \/ Refused(r, q) \/ (r.body = <<>> /\ ~r.chunked /\ Parsed(r, q))
            \/ r.chunked /\ AtChunk(r, q, 0)
            \/ ~r.chunked /\ Len(r.body) > 0 /\ AtByte(r, q, 0)
        BY <3>6, HeadOver, Zenon
      <4>2. CASE Refused(r, q)
        BY <1>r, <4>2
      <4>3. CASE r.body = <<>> /\ ~r.chunked /\ Parsed(r, q)
        <5>1. B = 0
          BY <4>3 DEF B
        <5>2. k + 1 = HeadEnd(r) + BodySize(r)
          BY <1>0, <3>1, <4>3, <5>1
        <5> QED BY <4>3, <5>2, Zenon DEF Onward
      <4>4. CASE r.chunked /\ AtChunk(r, q, 0)
        <5>1. k + 1 = HeadEnd(r) + 4 * 0 /\ 0 \in 0 .. B
          BY <1>0, <3>1
        <5>2. BodyAt(r, q, k + 1)
          BY <4>4, <5>1, PlacesInBody, Zenon DEF B
        <5> QED BY <1>b, <5>2
      <4>5. CASE ~r.chunked /\ Len(r.body) > 0 /\ AtByte(r, q, 0)
        <5>1. k + 1 = HeadEnd(r) + 0 /\ 0 \in 0 .. B - 1
          BY <1>0, <3>1, <4>5 DEF B
        <5>2. BodyAt(r, q, k + 1)
          BY <4>5, <5>1, PlacesInBody, Zenon DEF B
        <5> QED BY <1>b, <5>2
      <4> QED BY <4>1, <4>2, <4>3, <4>4, <4>5, Zenon
    <3> QED BY <3>4, <3>5, <3>6, Zenon
  <2>2. CASE i # n
    <3>1. /\ i \in 0 .. n - 1 /\ k + 1 = P + 2 + 4 * i + 1
          /\ P + 3 + 4 * i = P + 2 + 4 * i + 1
      BY <1>0, <1>3, <2>2
    <3>2. q = Step(p, Sym("field", r.headers[i + 1][1]))
      BY <1>c, <3>1, Zenon
    <3>3. AtName(r, q, i)
      BY <1>3, <3>1, <3>2, Named, Zenon DEF n
    <3>4. HeadAt(r, q, k + 1)
      BY <3>1, <3>3, PlacesInHead, Zenon DEF P, n
    <3> QED BY <1>h, <3>4
  <2> QED BY <2>1, <2>2
<1>4. ASSUME NEW i \in 0 .. n - 1, k = P + 3 + 4 * i, AtName(r, p, i)
      PROVE  Onward(r, q, k + 1)
  <2>1. k + 1 = P + 2 + 4 * i + 2 /\ k + 1 = P + 4 + 4 * i
    BY <1>0, <1>4
  <2> DEFINE s == E[k + 1]
  <2>2. s.t = "colon" /\ q = Step(p, s)
    BY <1>c, <2>1, Zenon
  <2> HIDE DEF s
  <2>3. AtColon(r, q, i)
    BY <1>4, <2>2, ColonRead, Zenon
  <2>4. HeadAt(r, q, k + 1)
    BY <2>1, <2>3, PlacesInHead, Zenon DEF P, n
  <2> QED BY <1>h, <2>4
<1>5. ASSUME NEW i \in 0 .. n - 1, k = P + 4 + 4 * i, AtColon(r, p, i)
      PROVE  Onward(r, q, k + 1)
  <2>1. k + 1 = P + 2 + 4 * i + 3 /\ k + 1 = P + 5 + 4 * i
    BY <1>0, <1>5
  <2> DEFINE s == E[k + 1]
  <2>2. s.t = "value" /\ s.v = r.headers[i + 1][2] /\ q = Step(p, s)
    <3>1. s = Sym("value", r.headers[i + 1][2]) /\ q = Step(p, s)
      BY <1>c, <2>1, Zenon
    <3> HIDE DEF s
    <3> QED BY <1>s, <3>1
  <2> HIDE DEF s
  <2>3. AtValue(r, q, i) \/ Refused(r, q)
    BY <1>5, <2>2, ValueRead, Zenon DEF n
  <2>4. AtValue(r, q, i) => HeadAt(r, q, k + 1)
    BY <2>1, PlacesInHead, Zenon DEF P, n
  <2> QED BY <1>h, <1>r, <2>3, <2>4, Zenon
<1>6. ASSUME NEW i \in 0 .. n - 1, k = P + 5 + 4 * i, AtValue(r, p, i)
      PROVE  Onward(r, q, k + 1)
  <2>1. /\ k + 1 = P + 2 + 4 * i + 4 /\ k + 1 = P + 2 + 4 * (i + 1) /\ i + 1 \in 0 .. n
    BY <1>0, <1>6
  <2> DEFINE s == E[k + 1]
  <2>2. s.t = "crlf" /\ q = Step(p, s)
    BY <1>c, <2>1, Zenon
  <2> HIDE DEF s
  <2>3. AtHeader(r, q, i + 1)
    BY <1>6, <2>2, HeaderEnds, Zenon DEF n
  <2>4. HeadAt(r, q, k + 1)
    BY <2>1, <2>3, PlacesInHead, Zenon DEF P, n
  <2> QED BY <1>h, <2>4
<1>7. \/ k = 0 /\ p = NewParser
      \/ \E i \in 0 .. P : k = 1 + i /\ AtUrl(r, p, i)
      \/ \E i \in 0 .. n : k = P + 2 + 4 * i /\ AtHeader(r, p, i)
      \/ \E i \in 0 .. n - 1 :
            \/ k = P + 3 + 4 * i /\ AtName(r, p, i)
            \/ k = P + 4 + 4 * i /\ AtColon(r, p, i)
            \/ k = P + 5 + 4 * i /\ AtValue(r, p, i)
  BY Zenon DEF HeadAt, P, n
<1> QED BY <1>1, <1>2, <1>3, <1>4, <1>5, <1>6, <1>7, Zenon

LEMMA BodyStep ==
    ASSUME NEW r, IsRequest(r), NEW E, BodyCoded(r, E), NEW k \in Nat,
           NEW p, BodyAt(r, p, k), NEW q, q = Step(p, E[k + 1])
    PROVE  Onward(r, q, k + 1)
<1> DEFINE K == HeadEnd(r)
           B == Len(r.body)
           s == E[k + 1]
<1>0. K \in Nat /\ B \in Nat
      /\ (~r.chunked => BodySize(r) = B) /\ (r.chunked => BodySize(r) = 4 * B + 3)
  <2>1. K \in Nat /\ B \in Nat
    <3> DEFINE P == Len(r.path)
               n == Len(r.headers)
    <3>1. P \in Nat /\ n \in Nat /\ B \in Nat
      BY RequestTypes, Zenon
    <3>2. K = P + 4 * n + 3
      BY DEF HeadEnd
    <3> HIDE DEF K, B, P, n
    <3> QED BY <3>1, <3>2
  <2>2. (~r.chunked => BodySize(r) = B) /\ (r.chunked => BodySize(r) = 4 * B + 3)
    BY Zenon DEF BodySize
  <2> QED BY <2>1, <2>2
<1>c. /\ ~r.chunked => \A j \in 1 .. B : E[K + j].v = r.body[j]
      /\ r.chunked =>
            /\ \A j \in 0 .. B - 1 :
                  /\ E[K + 4 * j + 1].t = "size" /\ E[K + 4 * j + 1].v = "1"
                  /\ E[K + 4 * j + 2].t = "crlf" /\ E[K + 4 * j + 3].v = r.body[j + 1]
                  /\ E[K + 4 * j + 4].t = "crlf"
            /\ E[K + 4 * B + 1].t = "size" /\ E[K + 4 * B + 1].v = "0"
            /\ E[K + 4 * B + 2].t = "crlf" /\ E[K + 4 * B + 3].t = "crlf"
  <2>1. \A t, v : Sym(t, v).t = t /\ Sym(t, v).v = v
    BY DEF Sym
  <2>2. Crlf.t = "crlf"
    BY <2>1, Zenon DEF Crlf
  <2>3. CASE ~r.chunked
    <3>1. \A j \in 1 .. B : E[K + j] = Sym("byte", r.body[j])
      BY <2>3, Zenon DEF BodyCoded
    <3> QED BY <2>1, <2>3, <3>1
  <2>4. CASE r.chunked
    <3>1. /\ \A j \in 0 .. B - 1 :
                /\ E[K + 4 * j + 1] = Sym("size", "1") /\ E[K + 4 * j + 2] = Crlf
                /\ E[K + 4 * j + 3] = Sym("byte", r.body[j + 1]) /\ E[K + 4 * j + 4] = Crlf
          /\ E[K + 4 * B + 1] = Sym("size", "0")
          /\ E[K + 4 * B + 2] = Crlf /\ E[K + 4 * B + 3] = Crlf
      BY <2>4, Zenon DEF BodyCoded
    <3> HIDE DEF K, B
    <3> QED BY <2>1, <2>2, <2>4, <3>1
  <2> QED BY <2>3, <2>4
<1>b. BodyAt(r, q, k + 1) => Onward(r, q, k + 1)
  BY Zenon DEF At, Onward
<1>e. k + 1 = K + BodySize(r) /\ (Parsed(r, q) \/ Refused(r, q)) => Onward(r, q, k + 1)
  BY Zenon DEF Onward
<1>q. q = Step(p, s)
  OBVIOUS
<1>s. s = E[k + 1]
  OBVIOUS
<1>n. "0" \in DOMAIN Number /\ "1" \in DOMAIN Number /\ Number["0"] = 0 /\ Number["1"] = 1
  BY DEF Number
<1> HIDE DEF K, B, s
<1>1. ASSUME ~r.chunked, NEW j \in 0 .. B - 1, k = K + j, AtByte(r, p, j)
      PROVE  Onward(r, q, k + 1)
  <2>1. k + 1 = K + (j + 1) /\ j + 1 \in 1 .. B
    BY <1>0, <1>1
  <2>2. s.v = r.body[j + 1]
    BY <1>1, <1>c, <1>s, <2>1, Zenon
  <2>3. \/ j + 1 < Len(r.body) /\ AtByte(r, q, j + 1)
        \/ j + 1 = Len(r.body) /\ (Parsed(r, q) \/ Refused(r, q))
    BY <1>1, <1>q, <2>2, ByteRead, Zenon DEF B
  <2>4. CASE j + 1 < B /\ AtByte(r, q, j + 1)
    <3>1. j + 1 \in 0 .. B - 1
      BY <1>0, <2>1, <2>4
    <3>2. BodyAt(r, q, k + 1)
      BY <1>1, <2>1, <2>4, <3>1, PlacesInBody, Zenon DEF K, B
    <3> QED BY <1>b, <3>2
  <2>5. CASE j + 1 = B /\ (Parsed(r, q) \/ Refused(r, q))
    <3>1. k + 1 = K + BodySize(r)
      BY <1>0, <1>1, <2>1, <2>5
    <3> QED BY <1>e, <2>5, <3>1, Zenon
  <2> QED BY <2>3, <2>4, <2>5, Zenon DEF B
<1>2. ASSUME r.chunked, NEW j \in 0 .. B, k = K + 4 * j, AtChunk(r, p, j)
      PROVE  Onward(r, q, k + 1)
  <2>1. CASE j = B
    <3>1. k + 1 = K + 4 * B + 1
      BY <1>0, <1>2, <2>1
    <3>2. s.t = "size" /\ s.v = "0"
      BY <1>2, <1>c, <1>s, <3>1, Zenon
    <3>3. AtSize(r, q, j, Number["0"])
      BY <1>2, <1>n, <1>q, <3>2, SizeRead, Zenon
    <3>4. AtSize(r, q, B, 0)
      BY <1>n, <2>1, <3>3, Zenon
    <3>5. BodyAt(r, q, k + 1)
      BY <1>2, <3>1, <3>4, PlacesInBody, Zenon DEF K, B
    <3> QED BY <1>b, <3>5
  <2>2. CASE j # B
    <3>1. k + 1 = K + 4 * j + 1 /\ j \in 0 .. B - 1
      BY <1>0, <1>2, <2>2
    <3>2. s.t = "size" /\ s.v = "1"
      BY <1>2, <1>c, <1>s, <3>1, Zenon
    <3>3. AtSize(r, q, j, Number["1"])
      BY <1>2, <1>n, <1>q, <3>2, SizeRead, Zenon
    <3>4. AtSize(r, q, j, 1)
      BY <1>n, <3>3, Zenon
    <3>5. BodyAt(r, q, k + 1)
      BY <1>2, <3>1, <3>4, PlacesInBody, Zenon DEF K, B
    <3> QED BY <1>b, <3>5
  <2> QED BY <2>1, <2>2
<1>3. ASSUME r.chunked, NEW j \in 0 .. B - 1, k = K + 4 * j + 1, AtSize(r, p, j, 1)
      PROVE  Onward(r, q, k + 1)
  <2>1. k + 1 = K + 4 * j + 2
    BY <1>0, <1>3
  <2>2. s.t = "crlf"
    <3>1. E[K + 4 * j + 2].t = "crlf"
      BY <1>3, <1>c, Zenon
    <3> QED BY <1>s, <2>1, <3>1, Zenon
  <2>3. AtData(r, q, j)
    BY <1>3, <1>q, <2>2, SizeEnds, Zenon
  <2>4. BodyAt(r, q, k + 1)
    BY <1>3, <2>1, <2>3, PlacesInBody, Zenon DEF K, B
  <2> QED BY <1>b, <2>4
<1>4. ASSUME r.chunked, NEW j \in 0 .. B - 1, k = K + 4 * j + 2, AtData(r, p, j)
      PROVE  Onward(r, q, k + 1)
  <2>1. k + 1 = K + 4 * j + 3
    BY <1>0, <1>4
  <2>2. s.v = r.body[j + 1]
    <3>1. E[K + 4 * j + 3].v = r.body[j + 1]
      BY <1>4, <1>c, Zenon
    <3> QED BY <1>s, <2>1, <3>1, Zenon
  <2>3. AtDataEnd(r, q, j + 1)
    BY <1>4, <1>q, <2>2, DataRead, Zenon DEF B
  <2>4. BodyAt(r, q, k + 1)
    BY <1>4, <2>1, <2>3, PlacesInBody, Zenon DEF K, B
  <2> QED BY <1>b, <2>4
<1>5. ASSUME r.chunked, NEW j \in 0 .. B - 1, k = K + 4 * j + 3, AtDataEnd(r, p, j + 1)
      PROVE  Onward(r, q, k + 1)
  <2>1. k + 1 = K + 4 * j + 4 /\ k + 1 = K + 4 * (j + 1) /\ j + 1 \in 0 .. B
    BY <1>0, <1>5
  <2>2. s.t = "crlf"
    <3>1. E[K + 4 * j + 4].t = "crlf"
      BY <1>5, <1>c, Zenon
    <3> QED BY <1>s, <2>1, <3>1, Zenon
  <2>3. AtChunk(r, q, j + 1)
    BY <1>5, <1>q, <2>2, DataEnds, Zenon
  <2>4. BodyAt(r, q, k + 1)
    BY <1>5, <2>1, <2>3, PlacesInBody, Zenon DEF K, B
  <2> QED BY <1>b, <2>4
<1>6. ASSUME r.chunked, k = K + 4 * B + 1, AtSize(r, p, B, 0)
      PROVE  Onward(r, q, k + 1)
  <2>1. k + 1 = K + 4 * B + 2
    BY <1>0, <1>6
  <2>2. s.t = "crlf"
    BY <1>6, <1>c, <1>s, <2>1, Zenon
  <2>3. AtTrailer(r, q)
    BY <1>6, <1>q, <2>2, LastSizeEnds, Zenon DEF B
  <2>4. BodyAt(r, q, k + 1)
    BY <1>6, <2>1, <2>3, PlacesInBody, Zenon DEF K, B
  <2> QED BY <1>b, <2>4
<1>7. ASSUME r.chunked, k = K + 4 * B + 2, AtTrailer(r, p)
      PROVE  Onward(r, q, k + 1)
  <2>1. k + 1 = K + 4 * B + 3 /\ k + 1 = K + BodySize(r)
    BY <1>0, <1>7
  <2>2. s.t = "crlf"
    BY <1>7, <1>c, <1>s, <2>1, Zenon
  <2>3. Parsed(r, q) \/ Refused(r, q)
    BY <1>7, <1>q, <2>2, TrailerEnds, Zenon
  <2> QED BY <1>e, <2>1, <2>3, Zenon
<1>8. \/ ~r.chunked /\ \E j \in 0 .. B - 1 : k = K + j /\ AtByte(r, p, j)
      \/ /\ r.chunked
         /\ \/ \E j \in 0 .. B : k = K + 4 * j /\ AtChunk(r, p, j)
            \/ \E j \in 0 .. B - 1 :
                  \/ k = K + 4 * j + 1 /\ AtSize(r, p, j, 1)
                  \/ k = K + 4 * j + 2 /\ AtData(r, p, j)
                  \/ k = K + 4 * j + 3 /\ AtDataEnd(r, p, j + 1)
            \/ k = K + 4 * B + 1 /\ AtSize(r, p, B, 0)
            \/ k = K + 4 * B + 2 /\ AtTrailer(r, p)
  BY Zenon DEF BodyAt, K, B
<1> QED BY <1>1, <1>2, <1>3, <1>4, <1>5, <1>6, <1>7, <1>8, Zenon

LEMMA Advances ==
    ASSUME NEW r, IsRequest(r), Framed(r), NEW E, E = Encode(r), NEW k \in Nat,
           NEW p, At(r, p, k), NEW q, q = Step(p, E[k + 1])
    PROVE  Onward(r, q, k + 1)
<1>1. HeadCoded(r, E) /\ BodyCoded(r, E)
  BY RequestCoded, Zenon
<1>2. CASE HeadAt(r, p, k)
  BY <1>1, <1>2, HeadStep, Zenon
<1>3. CASE BodyAt(r, p, k)
  BY <1>1, <1>3, BodyStep, Zenon
<1> QED BY <1>2, <1>3, Zenon DEF At

-----------------------------------------------------------------------------
(* The reads                                                                 *)

\* Where a read that ends cuts a request.
Cut == {"server_start", "path", "header_field", "header_value"}

\* Nothing is marked, and the next read marks nothing.
Rested(p) == Shape(p) /\ p.exit = FALSE /\ p.mark = "none" /\ p.text = <<>> /\ p.state \notin Cut

LEMMA RestedResumes == ASSUME NEW p, Rested(p) PROVE Resume(p) = p
<1> DEFINE q == Resume(p)
<1>1. q = [p EXCEPT !.exit = FALSE, !.mark = "none"]
  BY DEF Resume, Rested, Cut
<1> HIDE DEF q
<1>2. q = [f \in Fields |-> q[f]]
  BY <1>1 DEF Rested, Shape, Fields
<1>3. \A f \in Fields : q[f] = p[f]
  BY <1>1 DEF Rested, Shape
<1>4. q = p
  BY <1>2, <1>3 DEF Rested, Shape
<1> QED BY <1>4 DEF q

LEMMA NewRests == Rested(NewParser)
BY NewFields DEF Rested, Cut

\* A parser that goes on and has nothing marked.
LEMMA UnmarkedRests ==
    ASSUME NEW q, Calm(q), q.mark = "none", q.text = <<>>, q.state \notin Cut,
           NEW p, p = Callback(q)
    PROVE  p = q /\ Rested(p)
<1>1. Shape(q) /\ q.exit = FALSE
  BY DEF Calm
<1>2. p = q
  BY <1>1, CallbackNone
<1> QED BY <1>1, <1>2 DEF Rested

\* Behind a read that ended in the head, and the parser q there.
HeadRest(p, q) ==
    \/ q.state \in Cut
    \/ ~p.finished /\ ~p.http_errno /\ ~HasError(p) /\ p = q /\ Rested(p)

LEMMA HeadRests ==
    ASSUME NEW r, IsRequest(r), NEW k, NEW q, HeadAt(r, q, k), NEW p, p = Callback(q)
    PROVE  HeadRest(p, q)
<1> DEFINE P == Len(r.path)
           n == Len(r.headers)
<1>0. ASSUME Calm(q), q.upgrade = FALSE, q.mark = "none", q.text = <<>>, q.state \notin Cut
      PROVE  HeadRest(p, q)
  <2>1. p = q /\ Rested(p)
    BY <1>0, UnmarkedRests
  <2> QED BY <1>0, <2>1 DEF Calm, HasError, HeadRest
<1>1. CASE q = NewParser
  <2>1. Calm(q) /\ q.upgrade = FALSE /\ q.mark = "none" /\ q.text = <<>> /\ q.state \notin Cut
    BY <1>1, NewFields DEF Cut
  <2> QED BY <1>0, <2>1
<1>2. ASSUME NEW i \in 0 .. P, AtUrl(r, q, i) PROVE HeadRest(p, q)
  <2>1. CASE i = 0
    BY <1>0, <1>2, <2>1 DEF AtUrl, Cut
  <2>2. CASE i # 0
    <3>1. q.state \in {Opening(r), "path"} /\ Opening(r) # "dead"
      BY <1>2, <2>2 DEF AtUrl
    <3> QED BY <3>1, OpeningIs DEF HeadRest, Cut
  <2> QED BY <2>1, <2>2
<1>3. ASSUME NEW i, AtHeader(r, q, i) PROVE HeadRest(p, q)
  BY <1>0, <1>3 DEF AtHeader, InHead, Cut
<1>4. ASSUME NEW i, AtName(r, q, i) PROVE HeadRest(p, q)
  BY <1>4 DEF AtName, HeadRest, Cut
<1>5. ASSUME NEW i, AtColon(r, q, i) PROVE HeadRest(p, q)
  BY <1>0, <1>5 DEF AtColon, InHead, Cut
<1>6. ASSUME NEW i, AtValue(r, q, i) PROVE HeadRest(p, q)
  BY <1>6 DEF AtValue, HeadRest, Cut
<1> QED BY <1>1, <1>2, <1>3, <1>4, <1>5, <1>6, Zenon DEF HeadAt

\* Behind a read that ended in the body.
BodyRest(r, p, k) ==
    /\ ~p.finished /\ ~p.http_errno /\ (HasError(p) => Refusable(r))
    /\ BodyAt(r, p, k) /\ Rested(p)

LEMMA BodyRests ==
    ASSUME NEW r, NEW k, NEW q, BodyAt(r, q, k), NEW p, p = Callback(q)
    PROVE  BodyRest(r, p, k)
<1>1. ASSUME NEW j, InBody(r, q, j), q.state \notin Cut
      PROVE  /\ ~p.finished /\ ~p.http_errno /\ (HasError(p) => Refusable(r)) /\ Rested(p)
             /\ InBody(r, p, j) /\ p.state = q.state /\ p.mark = "none"
             /\ p.content_length = q.content_length /\ p.flags = q.flags
  <2>1. /\ InBody(r, p, j) /\ p.state = q.state /\ p.mark = "none" /\ p.text = <<>>
        /\ p.content_length = q.content_length /\ p.flags = q.flags
    BY <1>1, BodyHanded
  <2>2. Shape(p) /\ p.exit = FALSE /\ ~p.finished /\ ~p.http_errno /\ p.upgrade = Upgrades(r)
    BY <2>1 DEF InBody, Calm
  <2>3. HasError(p) => Refusable(r)
    BY <2>2, ServedOrRefused DEF HasError
  <2> QED BY <1>1, <2>1, <2>2, <2>3 DEF Rested
<1> DEFINE K == HeadEnd(r)
           B == Len(r.body)
           Going == /\ ~p.finished /\ ~p.http_errno /\ (HasError(p) => Refusable(r)) /\ Rested(p)
<1>2. \A j : AtByte(r, q, j) => AtByte(r, p, j) /\ Going
  BY <1>1 DEF AtByte, Cut
<1>3. \A j : AtChunk(r, q, j) => AtChunk(r, p, j) /\ Going
  BY <1>1 DEF AtChunk, Cut
<1>4. \A j, n : AtSize(r, q, j, n) => AtSize(r, p, j, n) /\ Going
  BY <1>1 DEF AtSize, Cut
<1>5. \A j : AtData(r, q, j) => AtData(r, p, j) /\ Going
  BY <1>1 DEF AtData, Cut
<1>6. \A j : AtDataEnd(r, q, j) => AtDataEnd(r, p, j) /\ Going
  BY <1>1 DEF AtDataEnd, Cut
<1>7. AtTrailer(r, q) => AtTrailer(r, p) /\ Going
  BY <1>1 DEF AtTrailer, Cut
<1> HIDE DEF Going
<1>8. BodyAt(r, p, k) /\ Going
  BY <1>2, <1>3, <1>4, <1>5, <1>6, <1>7, Zenon DEF BodyAt
<1> QED BY <1>8, Zenon DEF BodyRest, Going

\* Neither in the head nor in the body has the parser failed.
LEMMA HeadGoesOn == ASSUME NEW r, NEW q, NEW k, HeadAt(r, q, k) PROVE Calm(q)
<1>1. CASE q = NewParser
  BY <1>1, NewFields, Zenon
<1> QED BY <1>1, Zenon DEF HeadAt, AtUrl, AtHeader, AtName, AtColon, AtValue, InHead

LEMMA BodyGoesOn == ASSUME NEW r, NEW q, NEW k, BodyAt(r, q, k) PROVE Calm(q)
BY Zenon DEF BodyAt, AtByte, AtChunk, AtSize, AtData, AtDataEnd, AtTrailer, InBody

\* A parser is behind the last symbol only when the request is over.
LEMMA BeforeEnd ==
    ASSUME NEW r, IsRequest(r), NEW p, NEW k \in Nat, At(r, p, k)
    PROVE  /\ HeadEnd(r) + BodySize(r) \in Nat /\ k < HeadEnd(r) + BodySize(r)
           /\ HeadAt(r, p, k) => k < HeadEnd(r)
<1> DEFINE P == Len(r.path)
           n == Len(r.headers)
           B == Len(r.body)
           K == HeadEnd(r)
           Z == BodySize(r)
<1>0. P \in Nat /\ n \in Nat /\ B \in Nat /\ r.chunked \in BOOLEAN /\ K = P + 4 * n + 3
  BY RequestTypes, Zenon DEF HeadEnd
<1>1. (~r.chunked => Z = B) /\ (r.chunked => Z = 4 * B + 3)
  BY Zenon DEF BodySize
<1>2. ASSUME HeadAt(r, p, k)
      PROVE  \/ k = 0 \/ \E i \in 0 .. P : k = 1 + i
             \/ \E i \in 0 .. n : k = P + 2 + 4 * i
             \/ \E i \in 0 .. n - 1 :
                   k = P + 3 + 4 * i \/ k = P + 4 + 4 * i \/ k = P + 5 + 4 * i
  BY <1>2, Zenon DEF HeadAt
<1>3. ASSUME BodyAt(r, p, k)
      PROVE  \/ ~r.chunked /\ \E j \in 0 .. B - 1 : k = K + j
             \/ /\ r.chunked
                /\ \/ \E j \in 0 .. B : k = K + 4 * j
                   \/ \E j \in 0 .. B - 1 :
                         k = K + 4 * j + 1 \/ k = K + 4 * j + 2 \/ k = K + 4 * j + 3
                   \/ k = K + 4 * B + 1 \/ k = K + 4 * B + 2
  BY <1>3, Zenon DEF BodyAt
<1> HIDE DEF P, n, B, K, Z
<1>4. Z \in Nat /\ K \in Nat /\ K + Z \in Nat
  BY <1>0, <1>1
<1>5. HeadAt(r, p, k) => k < K
  BY <1>0, <1>2
<1>6. BodyAt(r, p, k) => k < K + Z
  BY <1>0, <1>1, <1>3
<1>7. k < K => k < K + Z
  BY <1>0, <1>4
<1> QED BY <1>4, <1>5, <1>6, <1>7, Zenon DEF At, K, Z

\* What is left of a sequence behind k of its elements.
Left(E, k, rst) == k \in 0 .. Len(E) - 1 /\ rst = SubSeq(E, k + 1, Len(E))

LEMMA LeftFacts ==
    ASSUME NEW A, NEW E \in Seq(A), NEW k, NEW rst, Left(E, k, rst)
    PROVE  /\ rst # <<>> /\ Head(rst) = E[k + 1] /\ Len(rst) = Len(E) - k
           /\ k + 1 < Len(E) => Left(E, k + 1, Tail(rst))
<1>1. k \in 0 .. Len(E) - 1 /\ rst = SubSeq(E, k + 1, Len(E)) /\ Len(E) \in Nat
  BY DEF Left
<1>2. rst \in Seq(A) /\ Len(rst) = Len(E) - k /\ \A i \in 1 .. Len(E) - k : rst[i] = E[k + i]
  BY <1>1
<1>3. Len(rst) > 0 /\ rst # <<>> /\ Head(rst) = E[k + 1]
  <2>1. Len(E) - k \in Nat /\ Len(E) - k > 0 /\ 1 \in 1 .. Len(E) - k
    BY <1>1
  <2>2. rst[1] = E[k + 1]
    BY <1>2, <2>1
  <2>3. rst \in Seq(A) /\ Len(rst) > 0
    BY <1>2, <2>1
  <2> QED BY <2>2, <2>3
<1>4. ASSUME k + 1 < Len(E) PROVE Left(E, k + 1, Tail(rst))
  <2> DEFINE t == Tail(rst)
             u == SubSeq(E, k + 2, Len(E))
             m == Len(E) - (k + 1)
  <2>1. t \in Seq(A) /\ Len(t) = m /\ \A i \in 1 .. m : t[i] = rst[i + 1]
    BY <1>1, <1>2, <1>3
  <2>2. u \in Seq(A) /\ Len(u) = m /\ \A i \in 1 .. m : u[i] = E[k + 1 + i]
    BY <1>1, <1>4
  <2>3. m \in Nat /\ \A i \in 1 .. m : i + 1 \in 1 .. Len(E) - k /\ k + (i + 1) = k + 1 + i
    BY <1>1, <1>4
  <2>4. \A i \in 1 .. m : t[i] = u[i]
    <3> HIDE DEF t, u, m
    <3> TAKE i \in 1 .. m
    <3>1. i + 1 \in 1 .. Len(E) - k /\ k + (i + 1) = k + 1 + i
      BY <2>3
    <3>2. rst[i + 1] = E[k + (i + 1)]
      BY <1>2, <3>1, Zenon
    <3> QED BY <2>1, <2>2, <3>1, <3>2, Zenon
  <2>5. t = u
    <3> HIDE DEF t, u, m
    <3> QED BY <2>1, <2>2, <2>3, <2>4, SeqEqual
  <2> QED BY <1>1, <1>4, <2>5 DEF Left
<1> QED BY <1>2, <1>3, <1>4

\* A session that reads a request: k of its symbols are parsed, or it is refused in the
\* middle of a read.
Reading(r, p, mid, rst) ==
    \/ mid = TRUE /\ Refused(r, p)
    \/ \E k \in Nat : /\ At(r, p, k) /\ Left(Encode(r), k, rst)
                      /\ mid = TRUE \/ (mid = FALSE /\ Rested(p))

\* The parser q behind the next symbol of a read.
Follows(p, mid, rst, q) == q = Parse(p, ~mid, Head(rst))

LEMMA ReadsOn ==
    ASSUME NEW r, IsRequest(r), Framed(r), NEW p, NEW mid, NEW rst, Reading(r, p, mid, rst),
           Len(rst) > 1, NEW q, Follows(p, mid, rst, q)
    PROVE  Reading(r, q, TRUE, Tail(rst))
<1> DEFINE E == Encode(r)
<1>0. q = Parse(p, ~mid, Head(rst))
  BY DEF Follows
<1>1. CASE mid = TRUE /\ Refused(r, p)
  <2>1. q = Step(p, Head(rst))
    BY <1>0, <1>1 DEF Parse
  <2>2. q = p
    BY <1>1, <2>1, FrozenStays, Zenon DEF Refused
  <2> QED BY <1>1, <2>2, Zenon DEF Reading
<1>2. ASSUME NEW k \in Nat, At(r, p, k), Left(E, k, rst),
             mid = TRUE \/ (mid = FALSE /\ Rested(p))
      PROVE  Reading(r, q, TRUE, Tail(rst))
  <2>1. /\ E \in Seq(Symbols(r)) /\ Len(E) = HeadEnd(r) + BodySize(r) /\ Len(E) \in Nat
    BY BeforeEnd, RequestCoded, <1>2, Zenon
  <2>2. /\ Head(rst) = E[k + 1] /\ Len(rst) = Len(E) - k
        /\ k + 1 < Len(E) => Left(E, k + 1, Tail(rst))
    BY <1>2, <2>1, LeftFacts, Zenon
  <2>3. q = Step(p, E[k + 1])
    <3>1. CASE mid = TRUE
      BY <1>0, <2>2, <3>1 DEF Parse
    <3>2. CASE mid = FALSE /\ Rested(p)
      <4>1. q = Step(Resume(p), Head(rst))
        BY <1>0, <3>2 DEF Parse
      <4> HIDE DEF E
      <4> QED BY <2>2, <3>2, <4>1, RestedResumes
    <3> QED BY <1>2, <3>1, <3>2
  <2> HIDE DEF E
  <2>4. Onward(r, q, k + 1)
    BY <1>2, <2>3, Advances, Zenon DEF E
  <2>5. k + 1 # Len(E) /\ k + 1 < Len(E) /\ k + 1 \in Nat
    BY <1>2, <2>1, <2>2
  <2>6. At(r, q, k + 1) \/ Refused(r, q)
    BY <2>1, <2>4, <2>5, Zenon DEF Onward
  <2> QED BY <2>2, <2>5, <2>6, Zenon DEF Reading, E
<1> QED BY <1>1, <1>2, Zenon DEF Reading, E

\* A read ended in the url or in a header.
CutAt(q) == ~q.http_errno /\ q.state \in Cut

\* What the end of a read leads to: q is the parser behind the last symbol, p what it is
\* when that is handed over.
Verdict(r, q, p, rst) ==
    ~CutAt(q) =>
        /\ HasError(p) => Refusable(r)
        /\ ~HasError(p) /\ p.finished => p.data = Kept(r) /\ ~Refusable(r)
        /\ ~HasError(p) /\ ~p.finished => Reading(r, p, FALSE, rst)

LEMMA ReadsOut ==
    ASSUME NEW r, IsRequest(r), Framed(r), NEW p, NEW mid, NEW rst, Reading(r, p, mid, rst),
           NEW q, Follows(p, mid, rst, q), NEW o, o = EndOfChunk(q)
    PROVE  Verdict(r, q, o, Tail(rst))
<1> DEFINE E == Encode(r)
           R == Tail(rst)
<1>0. o = IF q.http_errno \/ q.exit THEN q ELSE Callback(q)
  BY DEF EndOfChunk
<1>q. q = Parse(p, ~mid, Head(rst))
  BY DEF Follows
<1>r. ASSUME Refused(r, q) PROVE Verdict(r, q, o, R)
  <2>1. o = q /\ HasError(q) /\ Refusable(r)
    BY <1>0, <1>r, Zenon DEF Refused, Frozen
  <2> HIDE DEF R
  <2>2. q.http_errno \/ q.exit
    BY <1>r, Zenon DEF Refused, Frozen
  <2> QED BY <1>r, <2>1, <2>2 DEF Verdict, Refused
<1>1. CASE mid = TRUE /\ Refused(r, p)
  <2>1. q = Step(p, Head(rst))
    BY <1>1, <1>q DEF Parse
  <2>2. q = p
    BY <1>1, <2>1, FrozenStays, Zenon DEF Refused
  <2> QED BY <1>r, <1>1, <2>2
<1>2. ASSUME NEW k \in Nat, At(r, p, k), Left(E, k, rst),
             mid = TRUE \/ (mid = FALSE /\ Rested(p))
      PROVE  Verdict(r, q, o, R)
  <2>1. /\ E \in Seq(Symbols(r)) /\ Len(E) = HeadEnd(r) + BodySize(r) /\ Len(E) \in Nat
    BY BeforeEnd, RequestCoded, <1>2, Zenon
  <2>2. /\ Head(rst) = E[k + 1] /\ Len(rst) = Len(E) - k
        /\ k + 1 < Len(E) => Left(E, k + 1, R)
    BY <1>2, <2>1, LeftFacts, Zenon
  <2>3. q = Step(p, E[k + 1])
    <3>1. CASE mid = TRUE
      BY <1>q, <2>2, <3>1 DEF Parse
    <3>2. CASE mid = FALSE /\ Rested(p)
      <4>1. q = Step(Resume(p), Head(rst))
        BY <1>q, <3>2 DEF Parse
      <4> HIDE DEF E, R
      <4> QED BY <2>2, <3>2, <4>1, RestedResumes
    <3> QED BY <1>2, <3>1, <3>2
  <2> HIDE DEF E, R
  <2>4. Onward(r, q, k + 1)
    BY <1>2, <2>3, Advances, Zenon DEF E
  <2>5. k + 1 \in Nat
    OBVIOUS
  <2>6. ASSUME At(r, q, k + 1), Rested(q) PROVE Reading(r, q, FALSE, R)
    <3>1. k + 1 < HeadEnd(r) + BodySize(r)
      BY <2>5, <2>6, BeforeEnd, Zenon
    <3>2. Left(E, k + 1, R)
      BY <2>1, <2>2, <3>1, Zenon
    <3> QED BY <2>5, <2>6, <3>2, Zenon DEF Reading, E
  <2>7. CASE HeadAt(r, q, k + 1)
    <3>1. HeadRest(Callback(q), q)
      BY <2>7, HeadRests, Zenon
    <3>2. ~(q.http_errno \/ q.exit)
      BY <2>7, HeadGoesOn, Zenon DEF Calm
    <3>3. o = Callback(q)
      BY <1>0, <3>2, Zenon
    <3>4. At(r, q, k + 1)
      BY <2>7, Zenon DEF At
    <3>5. CASE q.state \in Cut
      BY <3>2, <3>5, Zenon DEF Verdict, CutAt
    <3>6. CASE q.state \notin Cut
      <4>1. ~o.finished /\ ~HasError(o) /\ o = q /\ Rested(q)
        BY <3>1, <3>3, <3>6, Zenon DEF HeadRest
      <4>2. Reading(r, o, FALSE, R)
        BY <2>6, <3>4, <4>1, Zenon
      <4> QED BY <4>1, <4>2, Zenon DEF Verdict
    <3> QED BY <3>5, <3>6
  <2>8. CASE BodyAt(r, q, k + 1)
    <3>1. ~(q.http_errno \/ q.exit)
      BY <2>8, BodyGoesOn, Zenon DEF Calm
    <3>2. o = Callback(q)
      BY <1>0, <3>1, Zenon
    <3>3. BodyRest(r, o, k + 1)
      BY <2>8, <3>2, BodyRests, Zenon
    <3>4. /\ ~o.finished /\ ~o.http_errno /\ (HasError(o) => Refusable(r))
          /\ BodyAt(r, o, k + 1) /\ Rested(o)
      BY <3>3, Zenon DEF BodyRest
    <3>5. Reading(r, o, FALSE, R)
      <4>1. At(r, o, k + 1)
        BY <3>4, Zenon DEF At
      <4>2. k + 1 < HeadEnd(r) + BodySize(r)
        BY <2>5, <4>1, BeforeEnd, Zenon
      <4>3. Left(E, k + 1, R)
        BY <2>1, <2>2, <4>2, Zenon
      <4> QED BY <2>5, <3>4, <4>1, <4>3, Zenon DEF Reading, E
    <3> QED BY <3>4, <3>5, Zenon DEF Verdict
  <2>9. CASE Parsed(r, q)
    <3>1. /\ Shape(q) /\ q.finished /\ ~(q.http_errno \/ q.exit) /\ ~HasError(q)
          /\ q.mark = "none" /\ q.text = <<>> /\ q.data = Kept(r) /\ ~Refusable(r)
      BY <2>9 DEF Parsed, HasError
    <3>2. o = q
      BY <1>0, <3>1, CallbackNone, Zenon
    <3> QED BY <3>1, <3>2, Zenon DEF Verdict
  <2> QED BY <1>r, <2>4, <2>7, <2>8, <2>9, Zenon DEF Onward, At
<1> QED BY <1>1, <1>2, Zenon DEF Reading, E, R

-----------------------------------------------------------------------------
(* A connection's life                                                       *)

\* What is true of a connection whose client sends the one request r: hk is whether there
\* are hooks, at its place, rst what it has not read, gone whether the client went away, p
\* its parser, mid whether it is in the middle of a read, ans its answers.
Accords(r, hk, at, rst, gone, p, mid, ans) ==
    /\ at = "backlog" => rst = Encode(r)
    /\ at = "recv" => ans = <<>> /\ (gone => rst = <<>>) /\ (~gone => Reading(r, p, mid, rst))
    /\ at \in {"handle", "respond"} => ans = <<>> /\ p.data = Kept(r) /\ ~Refusable(r)
    /\ at \in {"refused", "stuck"} => ans = <<>>
    /\ at = "over" =>
          \/ ans = <<>> /\ (Refusable(r) \/ gone \/ ~hk)
          \/ Len(ans) = 1 /\ ans[1].request = Kept(r) /\ ~Refusable(r)

\* What is true of every connection: snt is what its client sends, ct whether a read ended
\* in the url or in a header.
Consistent(c, hk, at, rst, snt, gone, p, mid, ct, ans) ==
    /\ at = "out" => snt = <<>>
    /\ at # "out" => snt \in StreamsOf[c]
    /\ at \in {"out", "backlog"} => p = NewParser /\ mid = FALSE /\ ~gone /\ ans = <<>>
    /\ Len(snt) = 1 /\ Framed(snt[1]) /\ ~ct => Accords(snt[1], hk, at, rst, gone, p, mid, ans)

LEMMA NothingSent ==
    ASSUME NEW c, NEW hk, NEW rst, NEW ct
    PROVE  Consistent(c, hk, "out", rst, <<>>, FALSE, NewParser, FALSE, ct, <<>>)
BY DEF Consistent

LEMMA OneRequest ==
    ASSUME NEW c \in Clients, NEW snt \in StreamsOf[c], Len(snt) = 1
    PROVE  IsRequest(snt[1]) /\ EncodeAll(snt) = Encode(snt[1])
<1>1. snt \in Seq(Range(snt)) /\ \A r \in Range(snt) : IsRequest(r)
  BY HttpServerAssumption, Zenon
<1>2. snt[1] \in Range(snt)
  BY <1>1 DEF Range
<1>3. EncodeAll(snt) = FlattenSeq([i \in 1 .. 1 |-> Encode(snt[i])])
  BY DEF EncodeAll
<1> DEFINE s == Encode(snt[1])
<1>4. [i \in 1 .. 1 |-> Encode(snt[i])] = <<s>>
  <2>1. \A i \in 1 .. 1 : Encode(snt[i]) = s
    <3> TAKE i \in 1 .. 1
    <3>1. i = 1
      OBVIOUS
    <3> QED BY <3>1
  <2> HIDE DEF s
  <2>2. [i \in 1 .. 1 |-> Encode(snt[i])] = [i \in 1 .. 1 |-> s]
    BY <2>1, Zenon
  <2>3. [i \in 1 .. 1 |-> s] = <<s>>
    OBVIOUS
  <2> QED BY <2>2, <2>3, Zenon
<1>5. EncodeAll(snt) = s
  BY <1>3, <1>4, FlattenOne, Zenon
<1> QED BY <1>1, <1>2, <1>5, Zenon

LEMMA Arrives ==
    ASSUME NEW c \in Clients, NEW hk, NEW snt \in StreamsOf[c], NEW ct
    PROVE  Consistent(c, hk, "backlog", EncodeAll(snt), snt, FALSE, NewParser, FALSE, ct, <<>>)
<1>1. Len(snt) = 1 => EncodeAll(snt) = Encode(snt[1])
  BY OneRequest, Zenon
<1> QED BY <1>1 DEF Consistent, Accords

LEMMA Accepted ==
    ASSUME NEW c \in Clients, NEW hk, NEW rst, NEW snt, NEW gone, NEW p, NEW mid, NEW ct,
           NEW ans,
           Consistent(c, hk, "backlog", rst, snt, gone, p, mid, ct, ans)
    PROVE  Consistent(c, hk, "recv", rst, snt, gone, p, mid, ct, ans)
<1>1. /\ snt \in StreamsOf[c] /\ p = NewParser /\ mid = FALSE /\ ~gone /\ ans = <<>>
      /\ Len(snt) = 1 /\ Framed(snt[1]) /\ ~ct => rst = Encode(snt[1])
  BY DEF Consistent, Accords
<1>2. ASSUME Len(snt) = 1, Framed(snt[1]), ~ct PROVE Reading(snt[1], p, mid, rst)
  <2> DEFINE r == snt[1]
             E == Encode(r)
  <2>1. IsRequest(r)
    BY <1>1, <1>2, OneRequest, Zenon
  <2> HIDE DEF r
  <2>2. At(r, p, 0) /\ 0 \in Nat
    BY <1>1 DEF At, HeadAt
  <2>3. E \in Seq(Symbols(r)) /\ Len(E) = HeadEnd(r) + BodySize(r)
    BY <2>1, RequestCoded, Zenon
  <2>4. 0 < HeadEnd(r) + BodySize(r)
    BY <2>1, <2>2, BeforeEnd, Zenon
  <2> HIDE DEF E
  <2>5. SubSeq(E, 0 + 1, Len(E)) = E /\ 0 \in 0 .. Len(E) - 1
    BY <2>3, <2>4
  <2>6. Left(E, 0, rst)
    BY <1>1, <1>2, <2>5, Zenon DEF Left, E, r
  <2>7. Rested(p)
    BY <1>1, NewRests, Zenon
  <2>8. Reading(r, p, mid, rst)
    BY <1>1, <2>2, <2>6, <2>7, Zenon DEF Reading, E
  <2> QED BY <2>8 DEF r
<1> QED BY <1>1, <1>2 DEF Consistent, Accords

LEMMA Closed ==
    ASSUME NEW c, NEW hk, NEW rst, NEW snt, NEW gone, NEW p, NEW mid, NEW ct, NEW ans,
           Consistent(c, hk, "backlog", rst, snt, gone, p, mid, ct, ans)
    PROVE  Consistent(c, hk, "refused", rst, snt, gone, p, mid, ct, ans)
BY DEF Consistent, Accords

\* A client goes away while its connection is at.
Leaves(at, gone, left) == at \in {"recv", "handle", "respond"} /\ ~gone /\ left = TRUE

LEMMA Aborts ==
    ASSUME NEW c, NEW at, NEW hk, NEW rst, NEW snt, NEW gone, NEW p, NEW mid, NEW ct, NEW ans,
           Consistent(c, hk, at, rst, snt, gone, p, mid, ct, ans),
           NEW left, Leaves(at, gone, left)
    PROVE  Consistent(c, hk, at, <<>>, snt, left, p, mid, ct, ans)
<1>0. at \in {"recv", "handle", "respond"} /\ ~gone /\ left = TRUE
  BY DEF Leaves
<1>1. snt \in StreamsOf[c] /\ at \notin {"out", "backlog", "refused", "stuck", "over"}
  BY <1>0 DEF Consistent
<1>2. ASSUME Len(snt) = 1, Framed(snt[1]), ~ct
      PROVE  Accords(snt[1], hk, at, <<>>, left, p, mid, ans)
  <2>1. Accords(snt[1], hk, at, rst, gone, p, mid, ans)
    BY <1>2, Zenon DEF Consistent
  <2> QED BY <1>0, <1>1, <2>1 DEF Accords
<1> QED BY <1>1, <1>2, Zenon DEF Consistent

LEMMA ParsesOn ==
    ASSUME NEW c \in Clients, NEW hk, NEW rst, NEW snt, NEW gone, NEW p, NEW mid, NEW ct,
           NEW ans,
           Consistent(c, hk, "recv", rst, snt, gone, p, mid, ct, ans), Len(rst) > 1,
           NEW q, Follows(p, mid, rst, q)
    PROVE  Consistent(c, hk, "recv", Tail(rst), snt, gone, q, TRUE, ct, ans)
<1> DEFINE R == Tail(rst)
<1>1. snt \in StreamsOf[c]
  BY DEF Consistent
<1>2. ASSUME Len(snt) = 1, Framed(snt[1]), ~ct
      PROVE  Accords(snt[1], hk, "recv", R, gone, q, TRUE, ans)
  <2>1. Accords(snt[1], hk, "recv", rst, gone, p, mid, ans)
    BY <1>2, Zenon DEF Consistent
  <2>2. ans = <<>> /\ (gone => rst = <<>>) /\ (~gone => Reading(snt[1], p, mid, rst))
    BY <2>1 DEF Accords
  <2>3. ~gone
    BY <2>2
  <2>4. IsRequest(snt[1])
    BY <1>1, <1>2, OneRequest, Zenon
  <2>5. Reading(snt[1], q, TRUE, R)
    BY <1>2, <2>2, <2>3, <2>4, ReadsOn, Zenon
  <2> HIDE DEF R
  <2> QED BY <2>2, <2>3, <2>5 DEF Accords
<1> HIDE DEF R
<1>3. Consistent(c, hk, "recv", R, snt, gone, q, TRUE, ct, ans)
  BY <1>1, <1>2 DEF Consistent
<1> QED BY <1>3 DEF R

\* Where the end of a read brings a connection, and whether it was cut.
Ruled(o, at) == at = IF HasError(o) THEN "over" ELSE IF o.finished THEN "handle" ELSE "recv"

CutBy(ct, q, cut1) == cut1 = (ct \/ CutAt(q))

LEMMA ParsesOut ==
    ASSUME NEW c \in Clients, NEW hk, NEW rst, NEW snt, NEW gone, NEW p, NEW mid, NEW ct,
           NEW ans, Consistent(c, hk, "recv", rst, snt, gone, p, mid, ct, ans), rst # <<>>,
           NEW q, Follows(p, mid, rst, q), NEW o, o = EndOfChunk(q),
           NEW at, Ruled(o, at), NEW cut1, CutBy(ct, q, cut1)
    PROVE  Consistent(c, hk, at, Tail(rst), snt, gone, o, FALSE, cut1, ans)
<1> DEFINE R == Tail(rst)
<1>0. /\ at = IF HasError(o) THEN "over" ELSE IF o.finished THEN "handle" ELSE "recv"
      /\ cut1 = (ct \/ CutAt(q))
  BY DEF Ruled, CutBy
<1>1. snt \in StreamsOf[c] /\ at \in {"over", "handle", "recv"}
  BY <1>0 DEF Consistent
<1>2. ASSUME Len(snt) = 1, Framed(snt[1]), ~cut1
      PROVE  Accords(snt[1], hk, at, R, gone, o, FALSE, ans)
  <2>0. ~ct /\ ~CutAt(q)
    BY <1>0, <1>2, Zenon
  <2>1. Accords(snt[1], hk, "recv", rst, gone, p, mid, ans)
    BY <1>2, <2>0, Zenon DEF Consistent
  <2>2. ans = <<>> /\ ~gone /\ Reading(snt[1], p, mid, rst)
    BY <2>1 DEF Accords
  <2>3. IsRequest(snt[1])
    BY <1>1, <1>2, OneRequest, Zenon
  <2>4. Verdict(snt[1], q, o, R)
    BY <1>2, <2>2, <2>3, ReadsOut, Zenon
  <2> HIDE DEF R
  <2>5. /\ HasError(o) => Refusable(snt[1])
        /\ ~HasError(o) /\ o.finished => o.data = Kept(snt[1]) /\ ~Refusable(snt[1])
        /\ ~HasError(o) /\ ~o.finished => Reading(snt[1], o, FALSE, R)
    BY <2>0, <2>4, Zenon DEF Verdict
  <2>6. CASE HasError(o)
    <3>1. at = "over"
      BY <1>0, <2>6
    <3> QED BY <2>2, <2>5, <2>6, <3>1 DEF Accords
  <2>7. CASE ~HasError(o) /\ o.finished
    <3>1. at = "handle"
      BY <1>0, <2>7
    <3> QED BY <2>2, <2>5, <2>7, <3>1 DEF Accords
  <2>8. CASE ~HasError(o) /\ ~o.finished
    <3>1. at = "recv"
      BY <1>0, <2>8
    <3> QED BY <2>2, <2>5, <2>8, <3>1 DEF Accords
  <2> QED BY <2>6, <2>7, <2>8
<1> HIDE DEF R
<1>3. Consistent(c, hk, at, R, snt, gone, o, FALSE, cut1, ans)
  BY <1>0, <1>1, <1>2 DEF Consistent
<1> QED BY <1>3 DEF R

\* recvRequest's read ends with nothing, or without hooks before there is anything.
LEMMA Ends ==
    ASSUME NEW c \in Clients, NEW hk, NEW rst, NEW snt, NEW gone, NEW p, NEW mid, NEW ct,
           NEW ans, Consistent(c, hk, "recv", rst, snt, gone, p, mid, ct, ans), ~mid,
           rst = <<>> \/ ~hk
    PROVE  Consistent(c, hk, "over", rst, snt, gone, p, mid, ct, ans)
<1>1. snt \in StreamsOf[c]
  BY DEF Consistent
<1>2. ASSUME Len(snt) = 1, Framed(snt[1]), ~ct
      PROVE  Accords(snt[1], hk, "over", rst, gone, p, mid, ans)
  <2> DEFINE r == snt[1]
             E == Encode(r)
  <2>1. Accords(r, hk, "recv", rst, gone, p, mid, ans)
    BY <1>2, Zenon DEF Consistent
  <2>2. IsRequest(r)
    BY <1>1, <1>2, OneRequest, Zenon
  <2> HIDE DEF r
  <2>3. ans = <<>> /\ (~gone => Reading(r, p, mid, rst))
    BY <2>1 DEF Accords
  <2>4. ASSUME ~gone, hk PROVE FALSE
    <3>0. rst = <<>>
      BY <2>4
    <3>1. PICK k \in Nat : Left(E, k, <<>>)
      BY <2>3, <2>4, <3>0, Zenon DEF Reading, E
    <3>2. E \in Seq(Symbols(r))
      BY <2>2, RequestCoded, Zenon
    <3> HIDE DEF E
    <3> QED BY <3>1, <3>2, LeftFacts, Zenon
  <2>5. Accords(r, hk, "over", rst, gone, p, mid, ans)
    BY <2>3, <2>4 DEF Accords
  <2> QED BY <2>5 DEF r
<1> QED BY <1>1, <1>2 DEF Consistent

LEMMA Dispatched ==
    ASSUME NEW c, NEW hk, NEW rst, NEW snt, NEW gone, NEW p, NEW mid, NEW ct, NEW ans,
           Consistent(c, hk, "handle", rst, snt, gone, p, mid, ct, ans)
    PROVE  Consistent(c, hk, "respond", rst, snt, gone, p, mid, ct, ans)
BY DEF Consistent, Accords

LEMMA Stuck ==
    ASSUME NEW c, NEW hk, NEW rst, NEW snt, NEW gone, NEW p, NEW mid, NEW ct, NEW ans,
           Consistent(c, hk, "respond", rst, snt, gone, p, mid, ct, ans)
    PROVE  Consistent(c, hk, "stuck", rst, snt, gone, p, mid, ct, ans)
BY DEF Consistent, Accords

LEMMA Responds ==
    ASSUME NEW c, NEW hk, NEW rst, NEW snt, NEW gone, NEW p, NEW mid, NEW ct, NEW ans,
           Consistent(c, hk, "respond", rst, snt, gone, p, mid, ct, ans), NEW v
    PROVE  Consistent(c, hk, "over", rst, snt, gone, NewParser, mid, ct,
                      Append(ans, [servlet |-> v, request |-> p.data]))
<1> DEFINE e == [servlet |-> v, request |-> p.data]
           one == Append(ans, e)
<1>1. snt \in StreamsOf[c]
  BY DEF Consistent
<1>2. ASSUME Len(snt) = 1, Framed(snt[1]), ~ct
      PROVE  Accords(snt[1], hk, "over", rst, gone, NewParser, mid, one)
  <2>1. Accords(snt[1], hk, "respond", rst, gone, p, mid, ans)
    BY <1>2, Zenon DEF Consistent
  <2>2. ans = <<>> /\ p.data = Kept(snt[1]) /\ ~Refusable(snt[1])
    BY <2>1 DEF Accords
  <2>3. e.request = p.data
    OBVIOUS
  <2> HIDE DEF e
  <2>4. Len(one) = 1 /\ one[1] = e
    BY <2>2
  <2> HIDE DEF one
  <2> QED BY <2>2, <2>3, <2>4 DEF Accords
<1> HIDE DEF one
<1>3. Consistent(c, hk, "over", rst, snt, gone, NewParser, mid, ct, one)
  BY <1>1, <1>2 DEF Consistent
<1> QED BY <1>3 DEF one

\* Every session is closed behind its response: m_close is never cleared.
LEMMA AlwaysCloses == \A r : IsClose(r)
BY Zenon DEF IsClose

-----------------------------------------------------------------------------
(* Requests reach the servlets as they were sent, and are answered once      *)

Connection(c) ==
    Consistent(c, hooked, pc[c], rest[c], sent[c], aborted[c], parser[c], chunk[c], cut[c],
               answers[c])

Total == DOMAIN rest = Clients /\ DOMAIN sent = Clients /\ DOMAIN parser = Clients

\* Who is in a backlog waits, and is in it once.
Waiting ==
    /\ \A a \in Addrs : \A i \in 1 .. Len(backlog[a]) : pc[backlog[a][i]] = "backlog"
    /\ \A a, b \in Addrs : \A i \in 1 .. Len(backlog[a]), j \in 1 .. Len(backlog[b]) :
          backlog[a][i] = backlog[b][j] => a = b /\ i = j

\* The closing fiber has a socket to close.
Closes == stopper.pc \in {"cancel", "hook", "close"} => stopper.todo # {}

ServingInv == TypeOK /\ Total /\ Closes /\ Waiting /\ \A c \in Clients : Connection(c)

LEMMA InitServes == Init => ServingInv
<1> SUFFICES ASSUME Init PROVE ServingInv
  OBVIOUS
<1>1. TypeOK
  BY InitTypes
<1>2. Total /\ Closes
  BY DEF Init, Total, Closes
<1>3. Waiting
  <2>1. \A a \in Addrs : backlog[a] = <<>>
    BY DEF Init
  <2>2. \A a \in Addrs : 1 .. Len(backlog[a]) = {}
    BY <2>1
  <2> QED BY <2>2 DEF Waiting
<1>4. ASSUME NEW c \in Clients PROVE Connection(c)
  <2>1. /\ pc[c] = "out" /\ sent[c] = <<>> /\ aborted[c] = FALSE /\ parser[c] = NewParser
        /\ chunk[c] = FALSE /\ answers[c] = <<>>
    BY DEF Init
  <2> QED BY <2>1, NothingSent, Zenon DEF Connection
<1> QED BY <1>1, <1>2, <1>3, <1>4 DEF ServingInv

\* Nothing happens to a connection.
SameAt(d) ==
    /\ hooked' = hooked /\ pc'[d] = pc[d] /\ rest'[d] = rest[d] /\ sent'[d] = sent[d]
    /\ aborted'[d] = aborted[d] /\ parser'[d] = parser[d] /\ chunk'[d] = chunk[d]
    /\ cut'[d] = cut[d] /\ answers'[d] = answers[d]

LEMMA SameStays == ASSUME NEW d, Connection(d), SameAt(d) PROVE Connection(d)'
BY DEF Connection, SameAt

\* A step of one connection that is in no backlog.
Moves(c) ==
    /\ backlog' = backlog /\ hooked' = hooked
    /\ pc[c] # "backlog" /\ Connection(c)'
    /\ \A d \in Clients : d # c => SameAt(d)

LEMMA MovesKeep ==
    ASSUME ServingInv, NEW c \in Clients, Moves(c)
    PROVE  Waiting' /\ \A d \in Clients : Connection(d)'
<1>1. \A d \in Clients : Connection(d)'
  BY SameStays, Zenon DEF ServingInv, Moves
<1>2. ASSUME NEW a \in Addrs, NEW i \in 1 .. Len(backlog[a])
      PROVE  pc'[backlog[a][i]] = "backlog"
  <2> DEFINE d == backlog[a][i]
  <2>1. d \in Clients
    <3>1. backlog[a] \in Seq(Clients)
      BY DEF ServingInv, TypeOK
    <3> QED BY <3>1
  <2>2. pc[d] = "backlog"
    BY Zenon DEF ServingInv, Waiting
  <2> HIDE DEF d
  <2>3. pc'[d] = "backlog"
    BY <2>1, <2>2, Zenon DEF Moves, SameAt
  <2> QED BY <2>3 DEF d
<1>3. Waiting'
  <2>1. backlog' = backlog
    BY DEF Moves
  <2>2. \A a, b \in Addrs : \A i \in 1 .. Len(backlog[a]), j \in 1 .. Len(backlog[b]) :
           backlog[a][i] = backlog[b][j] => a = b /\ i = j
    BY DEF ServingInv, Waiting
  <2> QED BY <1>2, <2>1, <2>2 DEF Waiting
<1> QED BY <1>1, <1>3

\* The variables of the connections are functions.
LEMMA ConnectionVariables ==
    ASSUME ServingInv
    PROVE  /\ DOMAIN pc = Clients /\ DOMAIN rest = Clients /\ DOMAIN sent = Clients
           /\ DOMAIN aborted = Clients /\ DOMAIN parser = Clients /\ DOMAIN chunk = Clients
           /\ DOMAIN cut = Clients /\ DOMAIN answers = Clients /\ DOMAIN backlog = Addrs
BY DEF ServingInv, TypeOK, Total

LEMMA HandlerMoves ==
    ASSUME ServingInv, NEW c \in Clients,
           \/ Parsing(c) \/ RecvFails(c) \/ Handle(c) \/ Respond(c)
           \/ RespondFails(c) \/ (~chunk[c] /\ Abort(c))
    PROVE  Moves(c) /\ Total'
<1>1. Connection(c)
  BY DEF ServingInv
<1>2. ASSUME Parses(c) PROVE Moves(c) /\ Total'
  <2> DEFINE p == parser'[c]
  <2>1. /\ pc[c] = "recv" /\ Len(rest[c]) > 1 /\ rest'[c] = Tail(rest[c]) /\ chunk'[c] = TRUE
        /\ pc'[c] = pc[c] /\ sent'[c] = sent[c] /\ aborted'[c] = aborted[c]
        /\ cut'[c] = cut[c] /\ answers'[c] = answers[c] /\ backlog' = backlog /\ hooked' = hooked
    BY <1>2, ConnectionVariables DEF Parses, serverVars
  <2>2. \A d \in Clients : d # c => SameAt(d)
    BY <1>2, ConnectionVariables DEF Parses, serverVars, SameAt
  <2>3. Total'
    BY <1>2, ConnectionVariables DEF Parses, Total
  <2>4. Follows(parser[c], chunk[c], rest[c], p)
    BY <1>2, ConnectionVariables DEF Parses, Follows
  <2>5. Connection(c)'
    <3> HIDE DEF p
    <3>1. Consistent(c, hooked, "recv", rest[c], sent[c], aborted[c], parser[c], chunk[c],
                     cut[c], answers[c])
      BY <1>1, <2>1, Zenon DEF Connection
    <3>2. Consistent(c, hooked, "recv", Tail(rest[c]), sent[c], aborted[c], p, TRUE, cut[c],
                     answers[c])
      BY <2>1, <2>4, <3>1, ParsesOn, Zenon
    <3> QED BY <2>1, <3>2, Zenon DEF Connection, p
  <2> QED BY <2>1, <2>2, <2>3, <2>5 DEF Moves
<1>3. ASSUME ParsesLast(c) PROVE Moves(c) /\ Total'
  <2> DEFINE p == parser'[c]
             at == pc'[c]
             cut1 == cut'[c]
  <2>1. /\ pc[c] = "recv" /\ rest[c] # <<>> /\ rest'[c] = Tail(rest[c]) /\ chunk'[c] = FALSE
        /\ sent'[c] = sent[c] /\ aborted'[c] = aborted[c]
        /\ answers'[c] = answers[c] /\ backlog' = backlog /\ hooked' = hooked
    BY <1>3, ConnectionVariables DEF ParsesLast, serverVars
  <2>2. PICK q : /\ q = Parse(parser[c], ~chunk[c], Head(rest[c])) /\ p = EndOfChunk(q)
                 /\ Ruled(p, at) /\ CutBy(cut[c], q, cut1)
    <3>1. PICK q, o : /\ q = Parse(parser[c], ~chunk[c], Head(rest[c])) /\ o = EndOfChunk(q)
                      /\ parser' = [parser EXCEPT ![c] = o]
                      /\ cut' = [cut EXCEPT ![c] = @ \/ (~q.http_errno /\ q.state \in
                                   {"server_start", "path", "header_field", "header_value"})]
                      /\ pc' = [pc EXCEPT ![c] = IF HasError(o) THEN "over"
                                                 ELSE IF o.finished THEN "handle" ELSE "recv"]
      BY <1>3, Zenon DEF ParsesLast
    <3>2. p = o
      BY <3>1, ConnectionVariables
    <3>3. Ruled(p, at) /\ CutBy(cut[c], q, cut1)
      BY <3>1, <3>2, ConnectionVariables DEF Ruled, CutBy, CutAt, Cut
    <3> QED BY <3>1, <3>2, <3>3, Zenon
  <2>4. \A d \in Clients : d # c => SameAt(d)
    BY <1>3, ConnectionVariables DEF ParsesLast, serverVars, SameAt
  <2>5. Total'
    BY <1>3, ConnectionVariables DEF ParsesLast, Total
  <2>6. Follows(parser[c], chunk[c], rest[c], q)
    BY <2>2, Zenon DEF Follows
  <2>7. Connection(c)'
    <3>1. Consistent(c, hooked, "recv", rest[c], sent[c], aborted[c], parser[c], chunk[c],
                     cut[c], answers[c])
      BY <1>1, <2>1, Zenon DEF Connection
    <3> HIDE DEF p, at, cut1
    <3>2. rest[c] # <<>> /\ p = EndOfChunk(q) /\ Ruled(p, at) /\ CutBy(cut[c], q, cut1)
      BY <2>1, <2>2, Zenon
    <3>3. Consistent(c, hooked, at, Tail(rest[c]), sent[c], aborted[c], p, FALSE, cut1,
                     answers[c])
      BY <2>6, <3>1, <3>2, ParsesOut, ZenonT(60)
    <3> QED BY <2>1, <3>3, Zenon DEF Connection, p, at, cut1
  <2> QED BY <2>1, <2>4, <2>5, <2>7 DEF Moves
<1>4. ASSUME RecvFails(c) PROVE Moves(c) /\ Total'
  <2>1. /\ pc[c] = "recv" /\ ~chunk[c] /\ (rest[c] = <<>> \/ ~hooked)
        /\ pc'[c] = "over" /\ rest' = rest
        /\ chunk' = chunk /\ sent' = sent /\ aborted' = aborted /\ parser' = parser
        /\ cut' = cut /\ answers' = answers /\ backlog' = backlog /\ hooked' = hooked
        /\ \A d \in Clients : d # c => pc'[d] = pc[d]
    BY <1>4, ConnectionVariables DEF RecvFails, serverVars
  <2>2. Connection(c)'
    <3>1. Consistent(c, hooked, "recv", rest[c], sent[c], aborted[c], parser[c], chunk[c],
                     cut[c], answers[c])
      BY <1>1, <2>1, Zenon DEF Connection
    <3>2. Consistent(c, hooked, "over", rest[c], sent[c], aborted[c], parser[c], chunk[c],
                     cut[c], answers[c])
      BY <2>1, <3>1, Ends, Zenon
    <3> QED BY <2>1, <3>2, Zenon DEF Connection
  <2> QED BY <2>1, <2>2 DEF Moves, SameAt, Total, ServingInv
<1>5. ASSUME Handle(c) PROVE Moves(c) /\ Total'
  <2>1. /\ pc[c] = "handle" /\ pc'[c] = "respond" /\ rest' = rest
        /\ chunk' = chunk /\ sent' = sent /\ aborted' = aborted /\ parser' = parser
        /\ cut' = cut /\ answers' = answers /\ backlog' = backlog /\ hooked' = hooked
        /\ \A d \in Clients : d # c => pc'[d] = pc[d]
    BY <1>5, ConnectionVariables DEF Handle, serverVars
  <2>2. Connection(c)'
    <3>1. Consistent(c, hooked, "handle", rest[c], sent[c], aborted[c], parser[c], chunk[c],
                     cut[c], answers[c])
      BY <1>1, <2>1, Zenon DEF Connection
    <3>2. Consistent(c, hooked, "respond", rest[c], sent[c], aborted[c], parser[c], chunk[c],
                     cut[c], answers[c])
      BY <3>1, Dispatched, Zenon
    <3> QED BY <2>1, <3>2, Zenon DEF Connection
  <2> QED BY <2>1, <2>2 DEF Moves, SameAt, Total, ServingInv
<1>6. ASSUME RespondFails(c) PROVE Moves(c) /\ Total'
  <2>1. /\ pc[c] = "respond" /\ pc'[c] = "stuck" /\ rest' = rest
        /\ chunk' = chunk /\ sent' = sent /\ aborted' = aborted /\ parser' = parser
        /\ cut' = cut /\ answers' = answers /\ backlog' = backlog /\ hooked' = hooked
        /\ \A d \in Clients : d # c => pc'[d] = pc[d]
    BY <1>6, ConnectionVariables DEF RespondFails, serverVars
  <2>2. Connection(c)'
    <3>1. Consistent(c, hooked, "respond", rest[c], sent[c], aborted[c], parser[c], chunk[c],
                     cut[c], answers[c])
      BY <1>1, <2>1, Zenon DEF Connection
    <3>2. Consistent(c, hooked, "stuck", rest[c], sent[c], aborted[c], parser[c], chunk[c],
                     cut[c], answers[c])
      BY <3>1, Stuck, Zenon
    <3> QED BY <2>1, <3>2, Zenon DEF Connection
  <2> QED BY <2>1, <2>2 DEF Moves, SameAt, Total, ServingInv
<1>7. ASSUME Respond(c) PROVE Moves(c) /\ Total'
  <2> DEFINE e == [servlet |-> servlet[c], request |-> parser[c].data]
  <2>1. IsClose(parser[c].data)
    BY AlwaysCloses, Zenon
  <2>2. /\ pc[c] = "respond" /\ pc'[c] = "over" /\ rest' = rest
        /\ chunk' = chunk /\ sent' = sent /\ aborted' = aborted /\ parser'[c] = NewParser
        /\ cut' = cut /\ answers'[c] = Append(answers[c], e) /\ backlog' = backlog
        /\ hooked' = hooked
    BY <1>7, <2>1, ConnectionVariables DEF Respond, serverVars
  <2>3. /\ \A d \in Clients : d # c => /\ pc'[d] = pc[d] /\ parser'[d] = parser[d]
                                       /\ answers'[d] = answers[d]
        /\ DOMAIN parser' = Clients
    BY <1>7, ConnectionVariables DEF Respond
  <2>4. Connection(c)'
    <3>1. Consistent(c, hooked, "respond", rest[c], sent[c], aborted[c], parser[c], chunk[c],
                     cut[c], answers[c])
      BY <1>1, <2>2, Zenon DEF Connection
    <3>2. Consistent(c, hooked, "over", rest[c], sent[c], aborted[c], NewParser, chunk[c],
                     cut[c], Append(answers[c], e))
      BY <3>1, Responds, Zenon
    <3> HIDE DEF e
    <3> QED BY <2>2, <3>2, Zenon DEF Connection
  <2> QED BY <2>2, <2>3, <2>4 DEF Moves, SameAt, Total, ServingInv
<1>8. ASSUME ~chunk[c], Abort(c) PROVE Moves(c) /\ Total'
  <2>1. /\ pc[c] \in {"recv", "handle", "respond"} /\ ~aborted[c]
        /\ aborted'[c] = TRUE /\ rest'[c] = <<>> /\ pc' = pc
        /\ chunk' = chunk /\ sent' = sent /\ parser' = parser
        /\ cut' = cut /\ answers' = answers /\ backlog' = backlog /\ hooked' = hooked
    BY <1>8, ConnectionVariables DEF Abort, serverVars
  <2>2. /\ \A d \in Clients : d # c => aborted'[d] = aborted[d] /\ rest'[d] = rest[d]
        /\ DOMAIN rest' = Clients
    BY <1>8, ConnectionVariables DEF Abort
  <2>3. Connection(c)'
    <3>1. Consistent(c, hooked, pc[c], rest[c], sent[c], aborted[c], parser[c], chunk[c],
                     cut[c], answers[c])
      BY <1>1, Zenon DEF Connection
    <3>2. Leaves(pc[c], aborted[c], aborted'[c])
      BY <2>1, Zenon DEF Leaves
    <3>3. Consistent(c, hooked, pc[c], <<>>, sent[c], aborted'[c], parser[c], chunk[c],
                     cut[c], answers[c])
      BY <3>1, <3>2, Aborts, Zenon
    <3> QED BY <2>1, <3>3, Zenon DEF Connection
  <2> QED BY <2>1, <2>2, <2>3 DEF Moves, SameAt, Total, ServingInv
<1> QED BY <1>2, <1>3, <1>4, <1>5, <1>6, <1>7, <1>8 DEF Parsing

LEMMA IdleServes ==
    ASSUME ServingInv, UNCHANGED clientVars, backlog' = backlog, hooked' = hooked
    PROVE  Total' /\ Waiting' /\ \A d \in Clients : Connection(d)'
<1>1. /\ pc' = pc /\ rest' = rest /\ sent' = sent /\ aborted' = aborted /\ parser' = parser
      /\ chunk' = chunk /\ cut' = cut /\ answers' = answers
  BY DEF clientVars
<1>2. Total' /\ Waiting'
  BY <1>1 DEF ServingInv, Total, Waiting
<1>3. \A d \in Clients : SameAt(d)
  BY <1>1 DEF SameAt
<1>4. \A d \in Clients : Connection(d)'
  BY <1>3, SameStays, Zenon DEF ServingInv
<1> QED BY <1>2, <1>4

LEMMA ArriveServes ==
    ASSUME ServingInv, NEW c \in Clients, NEW a \in Addrs, NEW stream \in StreamsOf[c],
           Arrive(c, a, stream)
    PROVE  Total' /\ Waiting' /\ \A d \in Clients : Connection(d)'
<1>1. /\ pc[c] = "out" /\ pc'[c] = "backlog" /\ sent'[c] = stream
      /\ rest'[c] = EncodeAll(stream)
      /\ UNCHANGED <<hooked, aborted, parser, chunk, cut, answers>>
  BY ConnectionVariables DEF Arrive
<1>2. \A d \in Clients : d # c => SameAt(d)
  BY ConnectionVariables DEF Arrive, SameAt
<1>3. Total'
  BY ConnectionVariables DEF Arrive, Total
<1>4. Connection(c)'
  <2>1. /\ parser[c] = NewParser /\ chunk[c] = FALSE /\ ~aborted[c] /\ answers[c] = <<>>
    BY <1>1 DEF ServingInv, Connection, Consistent
  <2>2. aborted[c] = FALSE
    BY <2>1 DEF ServingInv, TypeOK
  <2>3. Consistent(c, hooked, "backlog", EncodeAll(stream), stream, FALSE, NewParser, FALSE,
                   cut[c], <<>>)
    BY Arrives, Zenon
  <2>4. Consistent(c, hooked, pc'[c], rest'[c], sent'[c], aborted[c], parser[c], chunk[c],
                   cut[c], answers[c])
    BY <1>1, <2>1, <2>2, <2>3, Zenon
  <2> QED BY <1>1, <2>4, Zenon DEF Connection
<1>5. \A d \in Clients : Connection(d)'
  BY <1>2, <1>4, SameStays, Zenon DEF ServingInv
<1>6. Waiting'
  <2> DEFINE n(b) == Len(backlog[b])
             m(b) == Len(backlog'[b])
  <2>1. \A b \in Addrs : backlog[b] \in Seq(Clients)
    BY DEF ServingInv, TypeOK
  <2>2. backlog' = [backlog EXCEPT ![a] = Append(@, c)]
    BY DEF Arrive
  <2>3. /\ backlog'[a] = Append(backlog[a], c)
        /\ \A b \in Addrs : b # a => backlog'[b] = backlog[b]
    BY <2>2, ConnectionVariables
  <2>4. \A b \in Addrs : \A i \in 1 .. n(b) :
           /\ backlog[b][i] \in Clients /\ pc[backlog[b][i]] = "backlog"
           /\ backlog[b][i] # c /\ pc'[backlog[b][i]] = "backlog"
    <3> TAKE b \in Addrs
    <3> TAKE i \in 1 .. n(b)
    <3> DEFINE d == backlog[b][i]
    <3>1. d \in Clients
      BY <2>1
    <3>2. pc[d] = "backlog"
      BY Zenon DEF ServingInv, Waiting
    <3> HIDE DEF d
    <3>3. d # c /\ pc'[d] = "backlog"
      BY <1>1, <1>2, <3>1, <3>2 DEF SameAt
    <3> QED BY <3>1, <3>2, <3>3 DEF d
  <2>5. ASSUME NEW b \in Addrs, NEW i \in 1 .. m(b)
        PROVE  \/ i \in 1 .. n(b) /\ backlog'[b][i] = backlog[b][i]
               \/ b = a /\ i = n(a) + 1 /\ backlog'[b][i] = c
    <3>1. CASE b = a
      BY <2>1, <2>3, <3>1
    <3>2. CASE b # a
      BY <2>3, <3>2
    <3> QED BY <3>1, <3>2
  <2>6. \A b, e \in Addrs : \A i \in 1 .. n(b), j \in 1 .. n(e) :
           backlog[b][i] = backlog[e][j] => b = e /\ i = j
    BY DEF ServingInv, Waiting
  <2> HIDE DEF n, m
  <2>7. ASSUME NEW b \in Addrs, NEW i \in 1 .. m(b) PROVE pc'[backlog'[b][i]] = "backlog"
    BY <1>1, <2>4, <2>5
  <2>8. ASSUME NEW b \in Addrs, NEW e \in Addrs, NEW i \in 1 .. m(b), NEW j \in 1 .. m(e),
               backlog'[b][i] = backlog'[e][j]
        PROVE  b = e /\ i = j
    <3>1. \/ i \in 1 .. n(b) /\ backlog'[b][i] = backlog[b][i] /\ backlog[b][i] # c
          \/ b = a /\ i = n(a) + 1 /\ backlog'[b][i] = c
      BY <2>4, <2>5
    <3>2. \/ j \in 1 .. n(e) /\ backlog'[e][j] = backlog[e][j] /\ backlog[e][j] # c
          \/ e = a /\ j = n(a) + 1 /\ backlog'[e][j] = c
      BY <2>4, <2>5
    <3>3. CASE i \in 1 .. n(b) /\ j \in 1 .. n(e) /\ backlog[b][i] = backlog[e][j]
      BY <2>6, <3>3
    <3>4. CASE b = a /\ i = n(a) + 1 /\ e = a /\ j = n(a) + 1
      BY <3>4
    <3> QED BY <2>8, <3>1, <3>2, <3>3, <3>4
  <2> QED BY <2>7, <2>8, Zenon DEF Waiting, m
<1> QED BY <1>3, <1>5, <1>6

LEMMA AcceptServes ==
    ASSUME ServingInv, NEW a \in Addrs, Accept(a)
    PROVE  Total' /\ Waiting' /\ \A d \in Clients : Connection(d)'
<1> DEFINE s == backlog[a]
<1>1. /\ s \in Seq(Clients) /\ s # <<>> /\ Len(s) \in Nat /\ 1 \in 1 .. Len(s)
      /\ Head(s) \in Clients /\ Head(s) = s[1]
  BY DEF ServingInv, TypeOK, Accept
<1>2. PICK c \in Clients : c = Head(s)
  BY <1>1
<1> DEFINE late == loop[a] = "late"
           gone == IF late THEN Tail(s) ELSE <<>>
           In(d) == late /\ \E i \in 1 .. Len(s) - 1 : s[i + 1] = d
<1>3. /\ pc' = [Reset(gone) EXCEPT ![c] = "recv"]
      /\ backlog' = [backlog EXCEPT ![a] = IF late THEN <<>> ELSE Tail(s)]
      /\ UNCHANGED <<hooked, rest, sent, aborted, parser, chunk, cut, answers>>
  BY <1>2 DEF Accept
<1>4. s = backlog[a] /\ c = s[1]
  BY <1>1, <1>2
<1>p. pc[c] = "backlog"
  <2>1. pc[backlog[a][1]] = "backlog"
    BY <1>1, Zenon DEF ServingInv, Waiting
  <2> QED BY <1>4, <2>1, Zenon
<1>g. \A d \in Clients : (\E i \in 1 .. Len(gone) : gone[i] = d) <=> In(d)
  <2>1. CASE late
    <3>1. Len(Tail(s)) = Len(s) - 1 /\ \A k \in 1 .. Len(s) - 1 : Tail(s)[k] = s[k + 1]
      BY <1>1
    <3>2. gone = Tail(s)
      BY <2>1
    <3> HIDE DEF s, gone, late
    <3> QED BY <2>1, <3>1, <3>2
  <2>2. CASE ~late
    BY <2>2
  <2> QED BY <2>1, <2>2
<1> HIDE DEF s, gone
<1>5. /\ pc'[c] = "recv"
      /\ \A d \in Clients : d # c => pc'[d] = IF In(d) THEN "refused" ELSE pc[d]
      /\ backlog'[a] = IF late THEN <<>> ELSE Tail(s)
      /\ \A b \in Addrs : b # a => backlog'[b] = backlog[b]
  <2>1. backlog'[a] = IF late THEN <<>> ELSE Tail(s)
    BY <1>3, ConnectionVariables
  <2>2. \A b \in Addrs : b # a => backlog'[b] = backlog[b]
    BY <1>3, ConnectionVariables
  <2>3. Reset(gone) = [d \in Clients |-> IF In(d) THEN "refused" ELSE pc[d]]
    BY <1>g DEF Reset
  <2> HIDE DEF In, late
  <2>4. pc'[c] = "recv" /\ \A d \in Clients : d # c => pc'[d] = IF In(d) THEN "refused" ELSE pc[d]
    BY <1>3, <2>3
  <2> QED BY <2>1, <2>2, <2>4
<1>r. ASSUME NEW d \in Clients, d # c, In(d) PROVE Connection(d)'
  <2>1. PICK i \in 1 .. Len(s) - 1 : s[i + 1] = d
    BY <1>r
  <2>2. i + 1 \in 1 .. Len(backlog[a]) /\ backlog[a][i + 1] = d
    BY <1>1, <1>4, <2>1
  <2>3. pc[d] = "backlog"
    BY <2>2, Zenon DEF ServingInv, Waiting
  <2>4. Consistent(d, hooked, "backlog", rest[d], sent[d], aborted[d], parser[d], chunk[d],
                   cut[d], answers[d])
    BY <2>3, Zenon DEF ServingInv, Connection
  <2>5. Consistent(d, hooked, "refused", rest[d], sent[d], aborted[d], parser[d], chunk[d],
                   cut[d], answers[d])
    BY <2>4, Closed, Zenon
  <2>6. pc'[d] = "refused"
    BY <1>5, <1>r
  <2> QED BY <1>3, <2>5, <2>6, Zenon DEF Connection
<1>6. \A d \in Clients : d # c /\ ~In(d) => SameAt(d)
  <2> HIDE DEF In
  <2> QED BY <1>3, <1>5 DEF SameAt
<1>7. Total'
  BY <1>3 DEF ServingInv, Total
<1>8. Connection(c)'
  <2>1. Consistent(c, hooked, "backlog", rest[c], sent[c], aborted[c], parser[c], chunk[c],
                   cut[c], answers[c])
    BY <1>p, Zenon DEF ServingInv, Connection
  <2>2. Consistent(c, hooked, "recv", rest[c], sent[c], aborted[c], parser[c], chunk[c],
                   cut[c], answers[c])
    BY <2>1, Accepted, Zenon
  <2> QED BY <1>3, <1>5, <2>2, Zenon DEF Connection
<1>9. \A d \in Clients : Connection(d)'
  <2> HIDE DEF In
  <2> QED BY <1>6, <1>8, <1>r, SameStays, Zenon DEF ServingInv
<1>10. Waiting'
  <2> DEFINE n(b) == Len(backlog[b])
             m(b) == Len(backlog'[b])
             was(b, i) == IF b = a THEN i + 1 ELSE i
  <2>1. \A b \in Addrs : backlog[b] \in Seq(Clients)
    BY DEF ServingInv, TypeOK
  <2>2. \A b, e \in Addrs : \A i \in 1 .. n(b), j \in 1 .. n(e) :
           backlog[b][i] = backlog[e][j] => b = e /\ i = j
    BY DEF ServingInv, Waiting
  <2>3. ASSUME NEW b \in Addrs, NEW i \in 1 .. m(b)
        PROVE  /\ was(b, i) \in 1 .. n(b) /\ backlog'[b][i] = backlog[b][was(b, i)]
               /\ ~(b = a /\ was(b, i) = 1) /\ i \in Nat /\ ~(b = a /\ late)
    <3>0. CASE b = a /\ late
      <4>1. backlog'[b] = <<>>
        BY <1>5, <3>0
      <4> QED BY <4>1
    <3>1. CASE b = a /\ ~late
      <4>1. Len(Tail(s)) = Len(s) - 1 /\ \A k \in 1 .. Len(s) - 1 : Tail(s)[k] = s[k + 1]
        BY <1>1
      <4>2. m(b) = Len(s) - 1 /\ n(b) = Len(s) /\ was(b, i) = i + 1
            /\ backlog'[b] = Tail(s) /\ backlog[b] = s
        BY <1>4, <1>5, <3>1, <4>1
      <4> HIDE DEF n, m, was
      <4>3. i \in 1 .. Len(s) - 1 /\ i + 1 \in 1 .. Len(s) /\ i + 1 # 1 /\ i \in Nat
        BY <1>1, <4>2
      <4> HIDE DEF late
      <4> QED BY <3>1, <4>1, <4>2, <4>3
    <3>2. CASE b # a
      BY <1>5, <3>2
    <3> QED BY <3>0, <3>1, <3>2
  <2>4. \A b \in Addrs : \A i, j \in Nat : was(b, i) = was(b, j) => i = j
    OBVIOUS
  <2> HIDE DEF n, m, was
  <2>5. ASSUME NEW b \in Addrs, NEW i \in 1 .. m(b) PROVE pc'[backlog'[b][i]] = "backlog"
    <3> DEFINE d == backlog[b][was(b, i)]
    <3>1. was(b, i) \in 1 .. n(b)
      BY <2>3, Zenon
    <3>2. d \in Clients
      BY <2>1, <3>1 DEF n
    <3>3. pc[d] = "backlog"
      BY <3>1, Zenon DEF ServingInv, Waiting, n
    <3>4. d # c
      <4>1. s[1] = backlog[a][1] /\ 1 \in 1 .. n(a)
        BY <1>1, <1>4 DEF n
      <4>2. ASSUME d = c PROVE FALSE
        <5>1. backlog[b][was(b, i)] = backlog[a][1]
          BY <1>4, <4>1, <4>2, Zenon
        <5>2. b = a /\ was(b, i) = 1
          BY <2>2, <3>1, <4>1, <5>1, Zenon
        <5> QED BY <2>3, <5>2, Zenon
      <4> QED BY <4>2
    <3>n. ~In(d)
      <4>1. ASSUME In(d) PROVE FALSE
        <5>1. PICK k \in 1 .. Len(s) - 1 : s[k + 1] = d
          BY <4>1
        <5>2. k + 1 \in 1 .. n(a) /\ backlog[a][k + 1] = d
          BY <1>1, <1>4, <5>1 DEF n
        <5>3. b = a
          BY <2>2, <3>1, <5>2, Zenon
        <5> QED BY <2>3, <4>1, <5>3, Zenon
      <4> QED BY <4>1
    <3>5. backlog'[b][i] = d
      BY <2>3, Zenon
    <3> HIDE DEF d, In
    <3>6. pc'[d] = "backlog"
      BY <1>5, <3>2, <3>3, <3>4, <3>n, Zenon
    <3> QED BY <3>5, <3>6, Zenon
  <2>6. ASSUME NEW b \in Addrs, NEW e \in Addrs, NEW i \in 1 .. m(b), NEW j \in 1 .. m(e),
               backlog'[b][i] = backlog'[e][j]
        PROVE  b = e /\ i = j
    <3>1. /\ was(b, i) \in 1 .. n(b) /\ was(e, j) \in 1 .. n(e) /\ i \in Nat /\ j \in Nat
          /\ backlog[b][was(b, i)] = backlog[e][was(e, j)]
      BY <2>3, <2>6, Zenon
    <3>2. b = e /\ was(b, i) = was(e, j)
      BY <2>2, <3>1, Zenon
    <3> QED BY <2>4, <3>1, <3>2, Zenon
  <2> QED BY <2>5, <2>6, Zenon DEF Waiting, m
<1> QED BY <1>7, <1>9, <1>10

LEMMA ClosingIsOpen == ASSUME ServingInv, StopperCloses PROVE Closing \in Addrs
<1>1. stopper.todo # {} /\ stopper.todo \subseteq Addrs
  BY DEF ServingInv, Closes, StopperCloses, TypeOK
<1> QED BY <1>1 DEF Closing

LEMMA CloseServes ==
    ASSUME ServingInv, StopperCloses, loop[Closing] # "blocked"
    PROVE  Total' /\ Waiting' /\ \A d \in Clients : Connection(d)'
<1> DEFINE a == Closing
           In(d) == \E i \in 1 .. Len(backlog[a]) : backlog[a][i] = d
<1>1. /\ backlog' = [backlog EXCEPT ![a] = <<>>]
      /\ pc' = [d \in Clients |-> IF In(d) THEN "refused" ELSE pc[d]]
      /\ UNCHANGED <<hooked, rest, sent, aborted, parser, chunk, cut, answers>>
  BY DEF StopperCloses, Reset
<1> HIDE DEF a
<1>2. Total'
  BY <1>1 DEF ServingInv, Total
<1>3. ASSUME NEW d \in Clients PROVE Connection(d)'
  <2>1. CASE a \in Addrs /\ In(d)
    <3>1. pc[d] = "backlog" /\ pc'[d] = "refused"
      BY <1>1, <2>1 DEF ServingInv, Waiting
    <3>2. Consistent(d, hooked, "backlog", rest[d], sent[d], aborted[d], parser[d], chunk[d],
                     cut[d], answers[d])
      BY <3>1, Zenon DEF ServingInv, Connection
    <3>3. Consistent(d, hooked, "refused", rest[d], sent[d], aborted[d], parser[d], chunk[d],
                     cut[d], answers[d])
      BY <3>2, Closed, Zenon
    <3> QED BY <1>1, <3>1, <3>3, Zenon DEF Connection
  <2>2. CASE ~In(d)
    <3>1. SameAt(d)
      BY <1>1, <2>2 DEF SameAt
    <3> QED BY <3>1, SameStays, Zenon DEF ServingInv
  <2>3. a \in Addrs
    BY ClosingIsOpen DEF a
  <2> QED BY <2>1, <2>2, <2>3
<1>4. Waiting'
  <2>1. ASSUME NEW b \in Addrs, NEW i \in 1 .. Len(backlog'[b])
        PROVE  /\ i \in 1 .. Len(backlog[b]) /\ backlog'[b][i] = backlog[b][i]
               /\ pc'[backlog[b][i]] = "backlog"
    <3>1. b # a /\ backlog'[b] = backlog[b]
      <4>1. CASE b = a
        <5>1. backlog'[b] = <<>>
          BY <1>1, <4>1, ConnectionVariables
        <5> QED BY <5>1
      <4>2. CASE b # a
        BY <1>1, <4>2, ConnectionVariables
      <4> QED BY <4>1, <4>2
    <3> DEFINE d == backlog[b][i]
    <3>2. i \in 1 .. Len(backlog[b]) /\ d \in Clients
      <4>1. backlog[b] \in Seq(Clients)
        BY DEF ServingInv, TypeOK
      <4> QED BY <3>1, <4>1
    <3>3. pc[d] = "backlog"
      BY <3>2, Zenon DEF ServingInv, Waiting
    <3>4. ~In(d)
      <4>1. a \in Addrs
        BY ClosingIsOpen DEF a
      <4> QED BY <3>1, <3>2, <4>1 DEF ServingInv, Waiting
    <3> HIDE DEF d
    <3>5. pc'[d] = "backlog"
      BY <1>1, <3>2, <3>3, <3>4
    <3> QED BY <3>1, <3>2, <3>5 DEF d
  <2>2. \A b, e \in Addrs : \A i \in 1 .. Len(backlog[b]), j \in 1 .. Len(backlog[e]) :
           backlog[b][i] = backlog[e][j] => b = e /\ i = j
    BY DEF ServingInv, Waiting
  <2>3. ASSUME NEW b \in Addrs, NEW i \in 1 .. Len(backlog'[b])
        PROVE  pc'[backlog'[b][i]] = "backlog"
    BY <2>1
  <2>4. ASSUME NEW b \in Addrs, NEW e \in Addrs, NEW i \in 1 .. Len(backlog'[b]),
               NEW j \in 1 .. Len(backlog'[e]), backlog'[b][i] = backlog'[e][j]
        PROVE  b = e /\ i = j
    <3>1. /\ i \in 1 .. Len(backlog[b]) /\ j \in 1 .. Len(backlog[e])
          /\ backlog[b][i] = backlog[e][j]
      BY <2>1, <2>4
    <3> QED BY <2>2, <3>1, Zenon
  <2> QED BY <2>3, <2>4, Zenon DEF Waiting
<1> QED BY <1>2, <1>3, <1>4

LEMMA ClosesKept == ServingInv /\ [Next]_vars => Closes'
<1> SUFFICES ASSUME ServingInv, [Next]_vars PROVE Closes'
  OBVIOUS
<1>1. Closes /\ stopper.todo \subseteq Addrs
      /\ stopper = [pc |-> stopper.pc, todo |-> stopper.todo]
  BY DEF ServingInv, TypeOK
<1>2. CASE Stop
  BY <1>2 DEF Stop, Closes
<1>3. CASE StopperRuns
  BY <1>3 DEF StopperRuns, Closes
<1>4. CASE StopperCancels
  BY <1>1, <1>4 DEF StopperCancels, Closes
<1>5. CASE StopperHook
  BY <1>1, <1>5 DEF StopperHook, Closes
<1>6. CASE StopperCloses
  BY <1>1, <1>6 DEF StopperCloses, Closes
<1>7. CASE UNCHANGED stopper
  BY <1>1, <1>7 DEF Closes
<1>8. Stop \/ StopperStep \/ UNCHANGED stopper
  BY DEF Next, vars, serverVars, Bind, Start, AcceptStep, Resumed, Check, Accept,
         AcceptFails, AcceptWaits, AcceptBlocks, Arrive, Parsing, Parses, ParsesLast,
         RecvFails, Handle, Respond, RespondFails, Abort, Administer
<1> QED BY <1>2, <1>3, <1>4, <1>5, <1>6, <1>7, <1>8 DEF StopperStep

LEMMA ServingKept == ServingInv /\ [Next]_vars => ServingInv'
<1> SUFFICES ASSUME ServingInv, [Next]_vars PROVE ServingInv'
  OBVIOUS
<1> DEFINE Good == Total' /\ Waiting' /\ \A d \in Clients : Connection(d)'
<1>1. TypeOK' /\ Closes'
  BY TypesKept, ClosesKept DEF ServingInv
<1>2. ASSUME UNCHANGED clientVars, backlog' = backlog, hooked' = hooked PROVE Good
  BY <1>2, IdleServes
<1>3. ASSUME NEW c \in Clients,
             \/ Parsing(c) \/ RecvFails(c) \/ Handle(c) \/ Respond(c)
             \/ RespondFails(c) \/ (~chunk[c] /\ Abort(c))
      PROVE  Good
  BY <1>3, HandlerMoves, MovesKeep, Zenon
<1>4. ASSUME NEW c \in Clients, NEW a \in Addrs, NEW stream \in StreamsOf[c],
             Arrive(c, a, stream)
      PROVE  Good
  BY <1>4, ArriveServes, Zenon
<1>5. ASSUME NEW a \in Addrs, Accept(a) PROVE Good
  BY <1>5, AcceptServes, Zenon
<1>6. ASSUME StopperCloses PROVE Good
  <2>1. CASE loop[Closing] = "blocked"
    <3>1. UNCHANGED clientVars /\ backlog' = backlog /\ hooked' = hooked
      BY <1>6, <2>1 DEF StopperCloses, clientVars
    <3> QED BY <1>2, <3>1
  <2>2. CASE loop[Closing] # "blocked"
    BY <1>6, <2>2, CloseServes, Zenon
  <2> QED BY <2>1, <2>2
<1>7. ASSUME \/ \E fails \in SUBSET Addrs : Bind(fails)
             \/ Start \/ Stop \/ StopperRuns \/ StopperCancels \/ StopperHook \/ Administer
             \/ \E a \in Addrs :
                   Resumed(a) \/ Check(a) \/ AcceptFails(a) \/ AcceptWaits(a)
                   \/ AcceptBlocks(a)
      PROVE  UNCHANGED clientVars /\ backlog' = backlog /\ hooked' = hooked
  BY <1>7 DEF Bind, Start, Stop, StopperRuns, StopperCancels, StopperHook, Administer,
              Resumed, Check, AcceptFails, AcceptWaits, AcceptBlocks, serverVars
<1>8. ASSUME UNCHANGED vars PROVE UNCHANGED clientVars /\ backlog' = backlog /\ hooked' = hooked
  BY <1>8 DEF vars, serverVars
<1> HIDE DEF Good
<1>9. Good
  <2>1. CASE Next
    <3>1. Quiet => \A c \in Clients : ~chunk[c]
      BY DEF Quiet
    <3> QED BY <1>2, <1>3, <1>4, <1>5, <1>6, <1>7, <2>1, <3>1, Zenon
            DEF Next, StopperStep, AcceptStep
  <2>2. CASE UNCHANGED vars
    BY <1>2, <1>8, <2>2
  <2> QED BY <2>1, <2>2
<1> QED BY <1>1, <1>9, Zenon DEF ServingInv, Good

\* What the parser makes of a request is what a servlet should see of it.
LEMMA KeptIsIntact == ASSUME NEW r, IsRequest(r) PROVE Intact(Kept(r), r)
<1> DEFINE n == Len(r.headers)
           seen == Kept(r)
<1>1. n \in Nat
  BY RequestTypes
<1>2. /\ seen.headers = HeadersUpTo(r, n)
      /\ [seen EXCEPT !.headers = <<>>] = [Meant(r) EXCEPT !.headers = <<>>]
  BY DEF Kept, WithBody, Meant
<1>3. /\ DOMAIN HeadersUpTo(r, n) = {r.headers[j][1] : j \in 1 .. n} \cap {r.headers[1][1]}
      /\ DOMAIN HeadersOf(r.headers) = {r.headers[j][1] : j \in 1 .. n}
      /\ \A name \in DOMAIN HeadersUpTo(r, n) :
            HeadersUpTo(r, n)[name] = HeadersOf(r.headers)[name]
  BY Zenon DEF HeadersUpTo, HeadersOf
<1>4. r.headers # <<>> => r.headers[1][1] \in DOMAIN HeadersUpTo(r, n)
  <2>1. ASSUME r.headers # <<>> PROVE 1 \in 1 .. n
    BY <1>1, <2>1 DEF IsRequest
  <2> QED BY <1>3, <2>1
<1> HIDE DEF seen, n
<1> QED BY <1>2, <1>3, <1>4 DEF Intact, seen

\* What a lone request's connection ends with.
LEMMA LoneEnds ==
    ASSUME ServingInv, NEW c \in Clients, Lone(c), ~cut[c]
    PROVE  /\ answers[c] # <<>> => Intact(answers[c][1].request, sent[c][1])
           /\ pc[c] = "over" =>
                \/ answers[c] = <<>> /\ (Refusable(sent[c][1]) \/ aborted[c] \/ ~hooked)
                \/ Len(answers[c]) = 1 /\ ~Refusable(sent[c][1])
<1> DEFINE r == sent[c][1]
<1>1. Connection(c) /\ pc[c] \in {"out", "backlog", "recv", "handle", "respond", "stuck",
                                  "refused", "over"}
  BY DEF ServingInv, TypeOK
<1>2. /\ Accords(r, hooked, pc[c], rest[c], aborted[c], parser[c], chunk[c], answers[c])
      /\ pc[c] \in {"out", "backlog"} => answers[c] = <<>>
      /\ pc[c] # "out" => sent[c] \in StreamsOf[c]
  BY <1>1, Zenon DEF Connection, Consistent, Lone
<1>3. pc[c] # "out" => IsRequest(r)
  BY <1>2, OneRequest, Zenon DEF Lone
<1> HIDE DEF r
<1>4. pc[c] # "over" => answers[c] = <<>>
  BY <1>1, <1>2 DEF Accords
<1>5. pc[c] = "over" =>
         \/ answers[c] = <<>> /\ (Refusable(r) \/ aborted[c] \/ ~hooked)
         \/ Len(answers[c]) = 1 /\ answers[c][1].request = Kept(r) /\ ~Refusable(r)
  BY <1>2, Zenon DEF Accords
<1>6. answers[c] # <<>> => Intact(answers[c][1].request, r)
  <2>1. ASSUME answers[c] # <<>> PROVE Intact(answers[c][1].request, r)
    <3>1. answers[c][1].request = Kept(r) /\ IsRequest(r)
      BY <1>3, <1>4, <1>5, <2>1
    <3> QED BY <3>1, KeptIsIntact
  <2> QED BY <2>1
<1> QED BY <1>5, <1>6, Zenon DEF r

LEMMA ServingFits == ServingInv => RequestIntact /\ AnsweredIff
<1> SUFFICES ASSUME ServingInv PROVE RequestIntact /\ AnsweredIff
  OBVIOUS
<1>1. RequestIntact
  BY LoneEnds, Zenon DEF RequestIntact
<1>2. ASSUME NEW c \in Clients, pc[c] = "over", Lone(c), ~cut[c], ~aborted[c]
      PROVE  Len(answers[c]) \in IF Refusable(sent[c][1]) THEN {0}
                                 ELSE IF hooked THEN {1} ELSE {0, 1}
  <2>1. \/ answers[c] = <<>> /\ (Refusable(sent[c][1]) \/ ~hooked)
        \/ Len(answers[c]) = 1 /\ ~Refusable(sent[c][1])
    BY <1>2, LoneEnds, Zenon
  <2> QED BY <2>1
<1>3. AnsweredIff
  BY <1>2, Zenon DEF AnsweredIff
<1> QED BY <1>1, <1>3

\* A servlet that answers a client's one request was handed the client's method, path and
\* body, and its first header, and no header it did not send: for every such request, and
\* however its bytes were cut into reads, unless one ended in the url or in a header
\* (http_session.cpp:16-48, http_parser.cpp:64-194, http.cpp:56-59).
THEOREM RequestArrivesIntact == Spec => []RequestIntact
<1>1. Init => ServingInv
  BY InitServes
<1>2. ServingInv /\ [Next]_vars => ServingInv'
  BY ServingKept
<1>3. ServingInv => RequestIntact
  BY ServingFits
<1> QED BY <1>1, <1>2, <1>3, PTL DEF Spec

\* And a session that is over has answered it once if it is one to answer, and never if it
\* is not; without hooks it may have given up before (http_server.cpp:33-57,
\* http_parser.cpp:178-194).
THEOREM AnsweredExactly == Spec => []AnsweredIff
<1>1. Init => ServingInv
  BY InitServes
<1>2. ServingInv /\ [Next]_vars => ServingInv'
  BY ServingKept
<1>3. ServingInv => AnsweredIff
  BY ServingFits
<1> QED BY <1>1, <1>2, <1>3, PTL DEF Spec
===============================================================================
