------------------------- MODULE GenerationGatewayProofs ------------------------
(***************************************************************************)
(* Theorems about the generation gateway for any publications, any request *)
(* and any number of publications activated while it is served.            *)
(***************************************************************************)
EXTENDS GenerationGateway, OrderingProofs, SequenceTheorems

--------------------------------------------------------------------------------
\* The ledger.

\* The source that a statement reads.
SourceRead == [place |-> "place", observation |-> "hours", rules |-> "hours",
               exception |-> "exception", closure |-> "hours", entrance |-> "entrance"]

\* An edition that is still active, unless another one was activated meanwhile.
Current(source, edition) == edition \in {active[source], NoEdition} \/ source \in switched

\* The facts that may be added to the ledger.
Addable(f) == f.source \in Sources /\ Current(f.source, f.edition)

LedgerInv ==
  /\ active = [s \in Sources |-> active[s]]
  /\ rows = [s \in Statements |-> rows[s]]
  /\ \A s \in Statements : Current(SourceRead[s], rows[s])
  /\ \E S : pending \in Seq(S) /\ \A f \in S : Addable(f)
  /\ \A f \in facts : f.source \in known \cup switched

\* One fact or none.
LEMMA AtMostOne == ASSUME NEW f PROVE <<f>> \in Seq({f}) /\ <<>> \in Seq({f})
BY EmptySeq

\* A step that reads and adds nothing.
LEMMA QuietStep ==
  ASSUME LedgerInv, UNCHANGED <<active, switched, rows, pending, facts, known>>
  PROVE  LedgerInv'
BY DEF LedgerInv, Current, Addable

\* A step that sets aside facts to be added.
LEMMA PendingStep ==
  ASSUME LedgerInv, UNCHANGED <<active, switched, rows, facts, known>>,
         NEW S, pending' \in Seq(S), \A f \in S : Addable(f)
  PROVE  LedgerInv'
BY DEF LedgerInv, Current, Addable

LEMMA ActivateStep ==
  ASSUME LedgerInv, NEW s \in Sources, Activate(s)
  PROVE  LedgerInv'
<1>1. PICK e : active' = [active EXCEPT ![s] = e]
  BY DEF Activate
<1>2. switched' = switched \cup {s} /\ UNCHANGED <<rows, pending, facts, known>>
  BY DEF Activate
<1>3. \A t \in Sources \ {s} : active'[t] = active[t]
  BY <1>1 DEF LedgerInv
<1>4. \A t \in Sources : \A n : Current(t, n) => Current(t, n)'
  BY <1>2, <1>3 DEF Current
<1>5. \A f : Addable(f) => Addable(f)'
  BY <1>4 DEF Addable
<1>6. \A t \in Statements : SourceRead[t] \in Sources
  BY DEF SourceRead, Statements, Sources
<1> QED
  BY <1>1, <1>2, <1>4, <1>5, <1>6 DEF LedgerInv

\* A statement reads the publication that is active, of the source that it is of.
LEMMA ReadStep ==
  ASSUME LedgerInv, NEW now, NEW then, NEW reads, Read(now, reads, then),
         \A s \in DOMAIN reads : s \in Statements /\ reads[s] = SourceRead[s]
  PROVE  LedgerInv'
<1>1. /\ rows' = [s \in Statements |-> IF s \in DOMAIN reads THEN active[reads[s]] ELSE rows[s]]
      /\ UNCHANGED <<active, switched, pending, facts, known>>
  BY DEF Read
<1>2. \A s \in Statements : Current(SourceRead[s], rows'[s])
  BY <1>1 DEF LedgerInv, Current
<1> QED
  BY <1>1, <1>2 DEF LedgerInv, Current, Addable

LEMMA AddStep ==
  ASSUME LedgerInv, AddFact
  PROVE  LedgerInv'
<1>1. PICK S : pending \in Seq(S) /\ \A f \in S : Addable(f)
  BY DEF LedgerInv
<1> DEFINE f == Head(pending)
<1>2. Addable(f) /\ pending' \in Seq(S)
  BY <1>1 DEF AddFact
<1>3. known' = (IF f.edition \in {active[f.source], NoEdition}
                THEN known \cup {f.source} ELSE known)
  BY DEF AddFact, Recorded
<1>4. f.source \in known' \cup switched
  BY <1>2, <1>3 DEF Addable, Current
<1>5. UNCHANGED <<active, switched, rows>> /\ facts' \subseteq facts \cup {f}
  BY DEF AddFact
<1>6. \A g \in facts' : g.source \in known' \cup switched
  BY <1>3, <1>4, <1>5 DEF LedgerInv
<1> QED
  BY <1>1, <1>2, <1>5, <1>6 DEF LedgerInv, Current, Addable

\* Every fact of a place is of the edition that its statement has read.
LEMMA FactsAreRead ==
  ASSUME LedgerInv, NEW p
  PROVE  \E S : FactsOf(p) \in Seq(S) /\ \A f \in S : Addable(f)
<1> DEFINE S == {FactOf(SourceRead[s], p, rows[s]) : s \in Statements}
                  \cup {FactOf("entrance", p, NoEdition)}
<1>1. \A f \in S : Addable(f)
  <2>1. \A s \in Statements : SourceRead[s] \in Sources
    BY DEF SourceRead, Statements, Sources
  <2>2. \A s \in Statements : Addable(FactOf(SourceRead[s], p, rows[s]))
    BY <2>1 DEF LedgerInv, Addable, FactOf
  <2>3. Addable(FactOf("entrance", p, NoEdition))
    BY DEF Addable, FactOf, Current, Sources
  <2> QED
    BY <2>2, <2>3
<1>2. /\ FactOf("entrance", p, rows["entrance"]) \in S
      /\ FactOf("place", p, rows["place"]) \in S
      /\ FactOf("exception", p, rows["exception"]) \in S
      /\ FactOf("hours", p, rows["rules"]) \in S
      /\ FactOf("hours", p, rows["observation"]) \in S
      /\ FactOf("entrance", p, NoEdition) \in S
  <2>1. \A s \in Statements : FactOf(SourceRead[s], p, rows[s]) \in S
    OBVIOUS
  <2>2. Statements = {"place", "observation", "rules", "exception", "closure", "entrance"}
    BY DEF Statements
  <2>3. /\ SourceRead["place"] = "place" /\ SourceRead["entrance"] = "entrance"
        /\ SourceRead["exception"] = "exception" /\ SourceRead["rules"] = "hours"
        /\ SourceRead["observation"] = "hours"
    BY DEF SourceRead
  <2> HIDE DEF S
  <2>4. FactOf("entrance", p, NoEdition) \in S
    BY DEF S
  <2> QED
    BY <2>1, <2>2, <2>3, <2>4
<1> HIDE DEF S
<1> DEFINE When(c, source, edition) == IF c THEN <<FactOf(source, p, edition)>> ELSE <<>>
<1>3. \A c, source, edition :
        FactOf(source, p, edition) \in S => When(c, source, edition) \in Seq(S)
  OBVIOUS
<1> HIDE DEF When
<1>4. \A s, t \in Seq(S) : s \o t \in Seq(S)
  OBVIOUS
<1> DEFINE rules == IF SpecialIsFresh(p) THEN Breaks(p) ELSE FreshRules(p)
           o == HourEditions[rows["observation"]]
           a == When(HasEntrance(p), "entrance", rows["entrance"])
           b == When(TRUE, "place", rows["place"])
           c == When(Windows(p) # {} /\ SpecialIsFresh(p), "exception", rows["exception"])
           d == When(Windows(p) # {} /\ rules # {}, "hours", rows["rules"])
           e == When(Windows(p) = {} /\ p \in o.observed /\ o.fresh, "hours", rows["observation"])
           g == When(HasEntrance(p), "entrance", NoEdition)
<1>5. a \in Seq(S) /\ b \in Seq(S) /\ c \in Seq(S) /\ d \in Seq(S) /\ e \in Seq(S) /\ g \in Seq(S)
  BY <1>2, <1>3
<1>6. FactsOf(p) = a \o b \o c \o d \o e \o g
  BY DEF FactsOf, When
<1> HIDE DEF a, b, c, d, e, g
<1>7. FactsOf(p) \in Seq(S)
  BY <1>4, <1>5, <1>6
<1> QED
  BY <1>1, <1>7

LEMMA ResolveStep ==
  ASSUME LedgerInv, Resolve
  PROVE  LedgerInv'
<1>1. UNCHANGED <<active, switched, rows, facts, known>>
  BY DEF Resolve
<1>2. CASE pending' = pending
  BY <1>1, <1>2, QuietStep
<1>3. CASE pending' = AreaFact
  <2> DEFINE S == {FactOf("area", Hotel, active["area"])}
  <2>1. pending' \in Seq(S)
    <3> HIDE DEF S
    <3> DEFINE f == FactOf("area", Hotel, active["area"])
    <3>1. pending' = <<>> \/ pending' = <<f>>
      BY <1>3 DEF AreaFact
    <3> QED
      BY <3>1, AtMostOne DEF S
  <2>2. \A f \in S : Addable(f)
    BY DEF Addable, FactOf, Current, Sources
  <2> QED
    BY <1>1, <2>1, <2>2, PendingStep
<1> QED
  BY <1>2, <1>3 DEF Resolve

LEMMA LoadStep ==
  ASSUME LedgerInv, LoadPlace
  PROVE  LedgerInv'
<1>1. UNCHANGED <<active, switched, rows, facts, known>>
  BY DEF LoadPlace
<1>2. CASE pending' = pending
  BY <1>1, <1>2, QuietStep
<1>3. CASE pending' = FactsOf(Head(queue))
  BY <1>1, <1>3, FactsAreRead, PendingStep
<1> QED
  BY <1>2, <1>3 DEF LoadPlace

LEMMA DietStep ==
  ASSUME LedgerInv, CheckDiet
  PROVE  LedgerInv'
<1>1. UNCHANGED <<active, switched, rows, facts, known>>
  BY DEF CheckDiet
<1>2. CASE pending' = pending
  BY <1>1, <1>2, QuietStep
<1>3. CASE pending' = <<FactOf("diet", loading, active["diet"])>>
  <2> DEFINE S == {FactOf("diet", loading, active["diet"])}
  <2>1. pending' \in Seq(S)
    BY <1>3
  <2>2. \A f \in S : Addable(f)
    BY DEF Addable, FactOf, Current, Sources
  <2> QED
    BY <1>1, <2>1, <2>2, PendingStep
<1> QED
  BY <1>2, <1>3 DEF CheckDiet

LEMMA EndsStep ==
  ASSUME LedgerInv, LoadEnds
  PROVE  LedgerInv'
<1> DEFINE f == FactOf("entrance", Hotel, rows["entrance"])
<1>1. UNCHANGED <<active, switched, rows, facts, known>>
      /\ (pending' = <<f>> \/ pending' = <<>>)
  BY DEF LoadEnds
<1>2. pending' \in Seq({f})
  <2> HIDE DEF f
  <2> QED
    BY <1>1, AtMostOne
<1>3. Current("entrance", rows["entrance"])
  BY DEF LedgerInv, Statements, SourceRead
<1>4. \A x \in {f} : Addable(x)
  BY <1>3 DEF Addable, FactOf, Sources
<1> QED
  BY <1>1, <1>2, <1>4, PendingStep

\* An answer names the publication of every source it relied on, or that source
\* was replaced while the request was served: the ledger is refused for nothing
\* else (_add_source_fact, _add_source_metadata, _validate_source_lineage).
THEOREM LedgerClosed == Spec => []LedgerIsClosed
<1>1. Init => LedgerInv
  <2> SUFFICES ASSUME Init PROVE LedgerInv
    OBVIOUS
  <2>1. active = [s \in Sources |-> active[s]]
    BY GatewayAssumption DEF Init
  <2>2. pending \in Seq({}) /\ \A f \in {} : Addable(f)
    BY EmptySeq DEF Init
  <2>3. /\ rows = [s \in Statements |-> NoEdition] /\ facts = {}
    BY DEF Init
  <2>4. \A s \in Statements : Current(SourceRead[s], rows[s])
    BY <2>3 DEF Current
  <2>5. rows = [s \in Statements |-> rows[s]]
    BY <2>3
  <2> QED
    BY <2>1, <2>2, <2>3, <2>4, <2>5 DEF LedgerInv
<1>2. LedgerInv /\ [Next]_vars => LedgerInv'
  <2> SUFFICES ASSUME LedgerInv, [Next]_vars PROVE LedgerInv'
    OBVIOUS
  <2>1. CASE UNCHANGED gatewayVars
    BY <2>1, QuietStep DEF gatewayVars
  <2>2. CASE \E s \in Sources : Activate(s)
    BY <2>2, ActivateStep
  <2>3. CASE Resolve
    BY <2>3, ResolveStep
  <2>4. CASE Discover \/ Answer
    BY <2>4, QuietStep DEF Discover, Answer
  <2>5. CASE ReadPlaces
    BY <2>5, ReadStep DEF ReadPlaces, Statements, SourceRead
  <2>6. CASE ReadRules
    BY <2>6, ReadStep DEF ReadRules, Statements, SourceRead
  <2>7. CASE ReadExceptions
    BY <2>7, ReadStep DEF ReadExceptions, Statements, SourceRead
  <2>8. CASE ReadEntrances
    BY <2>8, ReadStep DEF ReadEntrances, Statements, SourceRead
  <2>9. CASE LoadPlace
    BY <2>9, LoadStep
  <2>10. CASE AddFact
    BY <2>10, AddStep
  <2>11. CASE CheckDiet
    BY <2>11, DietStep
  <2>12. CASE LoadEnds
    BY <2>12, EndsStep
  <2>13. CASE StartSearch \/ Search
    BY <2>13, <2>1 DEF StartSearch, Search
  <2> QED
    BY <2>1, <2>2, <2>3, <2>4, <2>5, <2>6, <2>7, <2>8, <2>9, <2>10, <2>11, <2>12, <2>13
       DEF Next, vars
<1>3. LedgerInv => LedgerIsClosed
  BY DEF LedgerInv, LedgerIsClosed
<1> QED
  BY <1>1, <1>2, <1>3, PTL DEF Spec

--------------------------------------------------------------------------------
\* Windows that breaks are cut out of.

\* A fold cuts one break after the other.
Cuts(f, windows, breaks) ==
  \A T \in SUBSET breaks :
    f[T] = IF T = {} THEN windows ELSE UNION {Cut(w, First(T)) : w \in f[Rest(T)]}

\* Subtract is a fold that cuts one break after the other.
LEMMA SubtractCuts ==
  ASSUME NEW breaks, IsFiniteSet(breaks), NEW W, NEW windows \in SUBSET W,
         \A w \in W, b \in breaks : Cut(w, b) \subseteq W
  PROVE  \E f \in [SUBSET breaks -> SUBSET W] :
           Cuts(f, windows, breaks) /\ Subtract(windows, breaks) = f[breaks]
<1> DEFINE After(x) == UNION {Cut(w, x[1]) : w \in x[2]}
           cut == [x \in breaks \X SUBSET W |-> After(x)]
           Right(f) == f = [T \in SUBSET breaks |->
                              IF T = {} THEN windows
                              ELSE UNION {Cut(w, First(T)) : w \in f[Rest(T)]}]
<1>1. cut \in [breaks \X SUBSET W -> SUBSET W]
  <2>1. ASSUME NEW x \in breaks \X SUBSET W
        PROVE  After(x) \in SUBSET W
    <3>1. x[1] \in breaks /\ x[2] \subseteq W
      OBVIOUS
    <3>2. \A w \in x[2] : Cut(w, x[1]) \subseteq W
      BY <3>1
    <3> QED
      BY <3>2
  <2>2. \A x \in breaks \X SUBSET W : After(x) \in SUBSET W
    BY <2>1
  <2> DEFINE D == breaks \X SUBSET W
             R == SUBSET W
  <2> HIDE DEF After, D, R
  <2>3. [x \in D |-> After(x)] \in [D -> R]
    BY <2>2 DEF D, R
  <2> QED
    BY <2>3 DEF D, R
<1>2. PICK g \in [SUBSET breaks -> SUBSET W] : IsFold(g, breaks, windows, cut)
  <2> DEFINE R == SUBSET W
  <2>1. windows \in R /\ cut \in [breaks \X R -> R]
    BY <1>1
  <2> HIDE DEF cut, R
  <2>2. \E g \in [SUBSET breaks -> R] : IsFold(g, breaks, windows, cut)
    BY <2>1, FoldExists
  <2> QED
    BY <2>2 DEF R
<1>3. Right(g)
  <2>1. ASSUME NEW T \in SUBSET breaks, T # {}
        PROVE  cut[<<First(T), g[Rest(T)]>>] = UNION {Cut(w, First(T)) : w \in g[Rest(T)]}
    <3>1. First(T) \in breaks /\ Rest(T) \in SUBSET breaks
      BY <2>1 DEF First, Rest
    <3>2. <<First(T), g[Rest(T)]>> \in breaks \X SUBSET W
      BY <3>1
    <3> QED
      BY <3>2
  <2> HIDE DEF cut
  <2> QED
    BY <1>2, <2>1 DEF IsFold
<1> DEFINE h == CHOOSE f : Right(f)
<1>4. Right(h)
  BY <1>3, Zenon
<1>5. Subtract(windows, breaks) = h[breaks]
  BY Zenon DEF Subtract, FoldSet, MapThenFoldSet, First, Rest
<1> HIDE DEF h
<1>6. Cuts(h, windows, breaks)
  BY <1>4 DEF Cuts
<1> DEFINE P == {T \in SUBSET breaks : h[T] \in SUBSET W}
<1>7. P = SUBSET breaks
  <2>1. {} \in P
    BY <1>6 DEF Cuts
  <2>2. ASSUME NEW T \in SUBSET breaks, T # {}, Rest(T) \in P PROVE T \in P
    <3>1. First(T) \in breaks
      BY <2>2 DEF First
    <3>2. \A w \in h[Rest(T)] : Cut(w, First(T)) \subseteq W
      BY <2>2, <3>1
    <3>3. h[T] = UNION {Cut(w, First(T)) : w \in h[Rest(T)]}
      BY <1>6, <2>2 DEF Cuts
    <3> QED
      BY <3>2, <3>3
  <2>3. P \in SUBSET SUBSET breaks
    OBVIOUS
  <2> HIDE DEF P
  <2> QED
    BY <2>1, <2>2, <2>3, FoldInduction
<1>8. h \in [SUBSET breaks -> SUBSET W]
  <2>1. h = [T \in SUBSET breaks |-> h[T]]
    BY <1>4
  <2>2. \A T \in SUBSET breaks : h[T] \in SUBSET W
    BY <1>7
  <2> QED
    BY <2>1, <2>2
<1> QED
  BY <1>5, <1>6, <1>8

--------------------------------------------------------------------------------
\* A window of a place, and what the evaluator knows of it.
HourWindow == [opens : Nat, closes : Nat, lastIn : Nat \cup {NoTime}, lastOrder : Nat \cup {NoTime}]
Span == [opens : Nat, closes : Nat]
SpanOf(w) == [opens |-> w.opens, closes |-> w.closes]
Within(w, m) == w.opens <= m /\ m < w.closes
Outside(b, m) == m < b.opens \/ b.closes <= m

\* What is left of a window when a break is cut out of it.
LEMMA CutOfWindow ==
  ASSUME NEW w \in HourWindow, NEW b \in Rule
  PROVE  /\ Cut(w, b) \subseteq HourWindow
         /\ Cut(SpanOf(w), b) = {SpanOf(v) : v \in Cut(w, b)}
         /\ \A m \in Nat : (\E v \in Cut(w, b) : Within(v, m)) <=> Within(w, m) /\ Outside(b, m)
<1> DEFINE before == [w EXCEPT !.closes = b.opens]
           after == [w EXCEPT !.opens = b.closes]
<1>1. /\ w.opens \in Nat /\ w.closes \in Nat /\ b.opens \in Nat /\ b.closes \in Nat
      /\ before \in HourWindow /\ after \in HourWindow
      /\ before.opens = w.opens /\ before.closes = b.opens
      /\ after.opens = b.closes /\ after.closes = w.closes
  BY DEF HourWindow, Rule
<1>2. Cut(w, b) = IF b.closes <= w.opens \/ b.opens >= w.closes THEN {w}
                  ELSE (IF w.opens < b.opens THEN {before} ELSE {})
                       \cup (IF b.closes < w.closes THEN {after} ELSE {})
  BY Zenon DEF Cut
<1>3. /\ SpanOf(before) = [SpanOf(w) EXCEPT !.closes = b.opens]
      /\ SpanOf(after) = [SpanOf(w) EXCEPT !.opens = b.closes]
  BY <1>1 DEF SpanOf
<1>4. SpanOf(w).opens = w.opens /\ SpanOf(w).closes = w.closes
  BY DEF SpanOf
<1>5. Cut(SpanOf(w), b) = IF b.closes <= w.opens \/ b.opens >= w.closes THEN {SpanOf(w)}
                          ELSE (IF w.opens < b.opens THEN {SpanOf(before)} ELSE {})
                               \cup (IF b.closes < w.closes THEN {SpanOf(after)} ELSE {})
  BY <1>3, <1>4 DEF Cut
<1> HIDE DEF before, after
<1>6. Cut(w, b) \subseteq HourWindow
  BY <1>1, <1>2
<1>7. Cut(SpanOf(w), b) = {SpanOf(v) : v \in Cut(w, b)}
  BY <1>2, <1>5
<1>8. ASSUME NEW m \in Nat
      PROVE  (\E v \in Cut(w, b) : Within(v, m)) <=> Within(w, m) /\ Outside(b, m)
  BY <1>1, <1>2 DEF Within, Outside
<1> QED
  BY <1>6, <1>7, <1>8

\* What is left of windows covers the minutes they covered, but for the breaks.
LEMMA SubtractedHours ==
  ASSUME NEW breaks \in SUBSET Rule, IsFiniteSet(breaks), NEW windows \in SUBSET HourWindow
  PROVE  /\ Subtract(windows, breaks) \in SUBSET HourWindow
         /\ \A m \in Nat : (\E v \in Subtract(windows, breaks) : Within(v, m))
                           <=> (\E w \in windows : Within(w, m)) /\ \A b \in breaks : Outside(b, m)
<1>1. \A w \in HourWindow, b \in breaks : Cut(w, b) \subseteq HourWindow
  BY CutOfWindow
<1>2. PICK f \in [SUBSET breaks -> SUBSET HourWindow] :
        Cuts(f, windows, breaks) /\ Subtract(windows, breaks) = f[breaks]
  BY <1>1, SubtractCuts
<1> DEFINE Left(T, m) == (\E v \in f[T] : Within(v, m))
                         <=> (\E w \in windows : Within(w, m)) /\ \A b \in T : Outside(b, m)
           P == {T \in SUBSET breaks : \A m \in Nat : Left(T, m)}
<1>3. {} \in P
  BY <1>2 DEF Cuts
<1>4. ASSUME NEW T \in SUBSET breaks, T # {}, Rest(T) \in P PROVE T \in P
  <2>1. First(T) \in breaks /\ T = Rest(T) \cup {First(T)}
    BY <1>4 DEF First, Rest
  <2>2. f[Rest(T)] \subseteq HourWindow
    BY <1>2 DEF Rest
  <2>3. f[T] = UNION {Cut(w, First(T)) : w \in f[Rest(T)]}
    BY <1>2, <1>4 DEF Cuts
  <2>4. ASSUME NEW m \in Nat PROVE Left(T, m)
    <3>1. (\E v \in f[T] : Within(v, m))
            <=> \E w \in f[Rest(T)] : \E v \in Cut(w, First(T)) : Within(v, m)
      BY <2>3
    <3>2. (\E v \in f[T] : Within(v, m))
            <=> \E w \in f[Rest(T)] : Within(w, m) /\ Outside(First(T), m)
      BY <2>1, <2>2, <3>1, CutOfWindow
    <3>3. Left(Rest(T), m)
      BY <1>4
    <3> QED
      BY <2>1, <3>2, <3>3
  <2> QED
    BY <2>4
<1>5. P \in SUBSET SUBSET breaks
  OBVIOUS
<1>6. breaks \in P
  <2> HIDE DEF P
  <2> QED
    BY <1>3, <1>4, <1>5, FoldInduction
<1> QED
  BY <1>2, <1>6

\* Spans are cut as the windows are that they are of.
LEMMA SubtractedSpans ==
  ASSUME NEW breaks \in SUBSET Rule, IsFiniteSet(breaks), NEW windows \in SUBSET HourWindow
  PROVE  Subtract({SpanOf(w) : w \in windows}, breaks) = {SpanOf(v) : v \in Subtract(windows, breaks)}
<1> DEFINE Spans(ws) == {SpanOf(w) : w \in ws}
<1>1. \A w \in HourWindow, b \in breaks : Cut(w, b) \subseteq HourWindow
  BY CutOfWindow
<1>2. PICK f \in [SUBSET breaks -> SUBSET HourWindow] :
        Cuts(f, windows, breaks) /\ Subtract(windows, breaks) = f[breaks]
  BY <1>1, SubtractCuts
<1>3. \A s \in Span, b \in breaks : Cut(s, b) \subseteq Span
  BY DEF Span, Rule, Cut
<1>4. Spans(windows) \in SUBSET Span
  BY DEF HourWindow, Span, SpanOf
<1>5. PICK g \in [SUBSET breaks -> SUBSET Span] :
        Cuts(g, Spans(windows), breaks) /\ Subtract(Spans(windows), breaks) = g[breaks]
  <2> HIDE DEF Spans
  <2> QED
    BY <1>3, <1>4, SubtractCuts
<1> DEFINE P == {T \in SUBSET breaks : g[T] = Spans(f[T])}
<1>6. {} \in P
  BY <1>2, <1>5 DEF Cuts
<1>7. ASSUME NEW T \in SUBSET breaks, T # {}, Rest(T) \in P PROVE T \in P
  <2>1. First(T) \in Rule
    BY <1>7 DEF First
  <2>2. f[Rest(T)] \subseteq HourWindow
    BY <1>2 DEF Rest
  <2>3. /\ f[T] = UNION {Cut(w, First(T)) : w \in f[Rest(T)]}
        /\ g[T] = UNION {Cut(s, First(T)) : s \in g[Rest(T)]}
    BY <1>2, <1>5, <1>7 DEF Cuts
  <2>4. g[Rest(T)] = Spans(f[Rest(T)])
    BY <1>7
  <2>5. g[T] = UNION {Cut(SpanOf(w), First(T)) : w \in f[Rest(T)]}
    BY <2>3, <2>4
  <2>6. \A w \in f[Rest(T)] : Cut(SpanOf(w), First(T)) = Spans(Cut(w, First(T)))
    BY <2>1, <2>2, CutOfWindow
  <2>7. g[T] = Spans(f[T])
    BY <2>3, <2>5, <2>6
  <2> QED
    BY <2>7
<1>8. P \in SUBSET SUBSET breaks
  OBVIOUS
<1>9. breaks \in P
  <2> HIDE DEF P
  <2> QED
    BY <1>6, <1>7, <1>8, FoldInduction
<1> QED
  BY <1>2, <1>5, <1>9

--------------------------------------------------------------------------------
\* The hours of the places.

\* The opening hours that windows are cut out of.
Uncut(p) ==
  IF SpecialIsFresh(p)
  THEN {[opens |-> Exceptions.special[p][1], closes |-> Exceptions.special[p][2],
         lastIn |-> NoTime, lastOrder |-> NoTime]}
  ELSE {WindowOf(r) : r \in Opens(p)}

\* The rows of hours and exceptions have been read.
RowsAreRead ==
  /\ rows["rules"] \in DOMAIN HourEditions
  /\ rows["exception"] \in DOMAIN ExceptionEditions

\* A place is loaded with its windows, and not on a day on which it is closed.
Served(p) ==
  /\ p \in Places /\ RowsAreRead /\ kept[p] = Windows(p)
  /\ ~Closed(p) /\ (HasHours(p) => Windows(p) # {})

\* Rules, breaks and windows of a place are well formed and few.
LEMMA RulesOfPlace ==
  ASSUME RowsAreRead, NEW p \in Places
  PROVE  /\ FreshRules(p) \in SUBSET Rule
         /\ Breaks(p) \in SUBSET Rule /\ IsFiniteSet(Breaks(p)) /\ Opens(p) \in SUBSET Rule
         /\ Uncut(p) \in SUBSET HourWindow /\ Windows(p) = Subtract(Uncut(p), Breaks(p))
<1>1. /\ HourEditions[rows["rules"]].rules[p] \in SUBSET Rule
      /\ IsFiniteSet(HourEditions[rows["rules"]].rules[p])
  BY GatewayAssumption DEF RowsAreRead
<1>2. FreshRules(p) \in SUBSET Rule /\ IsFiniteSet(FreshRules(p))
  BY <1>1, FS_EmptySet DEF FreshRules
<1>3. Breaks(p) \subseteq FreshRules(p) /\ Opens(p) \subseteq FreshRules(p)
  BY DEF Breaks, Opens
<1>4. IsFiniteSet(Breaks(p))
  BY <1>2, <1>3, FS_Subset
<1>5. Uncut(p) \in SUBSET HourWindow
  <2>1. CASE SpecialIsFresh(p)
    <3>1. Exceptions.special[p] \in Nat \X Nat
      BY <2>1, GatewayAssumption DEF SpecialIsFresh, Special, Exceptions, RowsAreRead
    <3> DEFINE a == Exceptions.special[p][1]
               b == Exceptions.special[p][2]
    <3>2. a \in Nat /\ b \in Nat
      BY <3>1
    <3> HIDE DEF a, b
    <3>3. [opens |-> a, closes |-> b, lastIn |-> NoTime, lastOrder |-> NoTime] \in HourWindow
      BY <3>2 DEF HourWindow
    <3> QED
      BY <2>1, <3>3 DEF Uncut, a, b
  <2>2. CASE ~SpecialIsFresh(p)
    <3>1. \A r \in Rule : WindowOf(r) \in HourWindow
      BY DEF Rule, WindowOf, HourWindow
    <3> QED
      BY <1>2, <1>3, <2>2, <3>1 DEF Uncut
  <2> QED
    BY <2>1, <2>2
<1>6. Windows(p) = Subtract(Uncut(p), Breaks(p))
  BY DEF Windows, Uncut
<1> QED
  BY <1>2, <1>3, <1>4, <1>5, <1>6

\* The turns of the published hours are minutes.
LEMMA TurnsAreMinutes ==
  ASSUME RowsAreRead, NEW p \in Places
  PROVE  Turns(p) \subseteq Nat
<1>1. FreshRules(p) \in SUBSET Rule
  BY RulesOfPlace
<1>2. Special(p) => Exceptions.special[p] \in Nat \X Nat
  BY GatewayAssumption DEF Special, Exceptions, RowsAreRead
<1>3. UNION {{r.opens, r.closes} : r \in FreshRules(p)} \subseteq Nat
  BY <1>1 DEF Rule
<1>4. (IF Special(p) THEN {Exceptions.special[p][1], Exceptions.special[p][2]} ELSE {}) \subseteq Nat
  BY <1>2
<1> QED
  BY <1>3, <1>4 DEF Turns

\* The windows cover the minutes that the publications name.
LEMMA WindowsCover ==
  ASSUME RowsAreRead, NEW p \in Places, NEW m \in Nat
  PROVE  (\E w \in Windows(p) : w.opens <= m /\ m < w.closes) <=> HasHours(p) /\ OpenAt(p, m)
<1>1. (\E v \in Windows(p) : Within(v, m))
        <=> (\E w \in Uncut(p) : Within(w, m)) /\ \A b \in Breaks(p) : Outside(b, m)
  <2>1. /\ Breaks(p) \in SUBSET Rule /\ IsFiniteSet(Breaks(p))
        /\ Uncut(p) \in SUBSET HourWindow /\ Windows(p) = Subtract(Uncut(p), Breaks(p))
    BY RulesOfPlace
  <2>2. (\E v \in Subtract(Uncut(p), Breaks(p)) : Within(v, m))
          <=> (\E w \in Uncut(p) : Within(w, m)) /\ \A b \in Breaks(p) : Outside(b, m)
    BY <2>1, SubtractedHours
  <2> QED
    BY <2>1, <2>2
<1>2. CASE SpecialIsFresh(p)
  <2>1. (\E w \in Uncut(p) : Within(w, m))
          <=> Exceptions.special[p][1] <= m /\ m < Exceptions.special[p][2]
    <3> DEFINE a == Exceptions.special[p][1]
               b == Exceptions.special[p][2]
               w == [opens |-> a, closes |-> b, lastIn |-> NoTime, lastOrder |-> NoTime]
    <3>1. Uncut(p) = {w}
      BY <1>2 DEF Uncut
    <3> HIDE DEF a, b
    <3>2. w.opens = a /\ w.closes = b
      OBVIOUS
    <3> HIDE DEF w
    <3>3. (\E v \in Uncut(p) : Within(v, m)) <=> a <= m /\ m < b
      BY <3>1, <3>2 DEF Within
    <3> QED
      BY <3>3 DEF a, b
  <2>2. OpenAt(p, m) <=> /\ Exceptions.special[p][1] <= m /\ m < Exceptions.special[p][2]
                         /\ \A b \in Breaks(p) : Outside(b, m)
    BY <1>2 DEF OpenAt, Outside
  <2>3. HasHours(p)
    BY <1>2 DEF HasHours
  <2> QED
    BY <1>1, <2>1, <2>2, <2>3 DEF Within
<1>3. CASE ~SpecialIsFresh(p)
  <2>1. \A r : WindowOf(r).opens = r.opens /\ WindowOf(r).closes = r.closes
    BY DEF WindowOf
  <2>2. (\E w \in Uncut(p) : Within(w, m)) <=> \E r \in Opens(p) : r.opens <= m /\ m < r.closes
    BY <1>3, <2>1 DEF Uncut, Within
  <2>3. (\E r \in Opens(p) : r.opens <= m /\ m < r.closes) => HasHours(p)
    BY DEF HasHours
  <2> QED
    BY <1>1, <1>3, <2>2, <2>3 DEF Within, Outside, OpenAt
<1> QED
  BY <1>2, <1>3

\* The evaluator finds the same windows, unless a stale exception hides a closure.
LEMMA EvaluatorAgrees ==
  ASSUME NEW p, Served(p), ~Hidden(p)
  PROVE  EvaluatedWindows(p) = {[opens |-> w.opens, closes |-> w.closes] : w \in kept[p]}
<1> DEFINE weekly == HourEditions[rows["closure"]]
           exact == Exceptions.fresh /\ (Special(p) \/ p \in Exceptions.closed)
           closed == IF exact THEN p \in Exceptions.closed ELSE weekly.fresh /\ p \in weekly.closed
           hours == IF exact
                    THEN {[opens |-> Exceptions.special[p][1], closes |-> Exceptions.special[p][2]]}
                    ELSE {[opens |-> r.opens, closes |-> r.closes] : r \in Opens(p)}
<1>1. EvaluatedWindows(p) = IF closed THEN {} ELSE Subtract(hours, Breaks(p))
  BY Zenon DEF EvaluatedWindows
<1>2. p \notin Exceptions.closed /\ (p \in weekly.closed => Special(p))
  BY DEF Served, Closed
<1>3. exact <=> SpecialIsFresh(p)
  BY <1>2 DEF SpecialIsFresh
<1>4. ~closed
  BY <1>2, <1>3 DEF Hidden, SpecialIsFresh
<1>5. hours = {SpanOf(w) : w \in Uncut(p)}
  <2>1. CASE SpecialIsFresh(p)
    BY <1>3, <2>1 DEF Uncut, SpanOf
  <2>2. CASE ~SpecialIsFresh(p)
    <3>1. \A r : SpanOf(WindowOf(r)) = [opens |-> r.opens, closes |-> r.closes]
      BY DEF SpanOf, WindowOf
    <3> QED
      BY <1>3, <2>2, <3>1 DEF Uncut
  <2> QED
    BY <2>1, <2>2
<1> HIDE DEF hours, closed
<1>6. Subtract(hours, Breaks(p)) = {SpanOf(v) : v \in Windows(p)}
  BY <1>5, RulesOfPlace, SubtractedSpans DEF Served
<1>7. kept[p] = Windows(p)
  BY DEF Served
<1> QED
  BY <1>1, <1>4, <1>6, <1>7 DEF SpanOf

\* A place that is served has the hours that were published.
LEMMA ServedAsPublished ==
  ASSUME \A p \in DOMAIN kept : Served(p)
  PROVE  HoursAreAsPublished
<1> SUFFICES ASSUME NEW p \in DOMAIN kept
             PROVE  /\ p \notin Exceptions.closed
                    /\ p \in HourEditions[rows["closure"]].closed => Special(p)
                    /\ HasHours(p) => kept[p] # {}
                    /\ \A m \in Turns(p) :
                         (\E w \in kept[p] : w.opens <= m /\ m < w.closes)
                         <=> HasHours(p) /\ OpenAt(p, m)
                    /\ Hidden(p) \/ EvaluatedWindows(p) =
                         {[opens |-> w.opens, closes |-> w.closes] : w \in kept[p]}
  BY DEF HoursAreAsPublished
<1>1. Served(p)
  OBVIOUS
<1>2. \A m \in Turns(p) : m \in Nat
  BY <1>1, TurnsAreMinutes DEF Served
<1>3. \A m \in Turns(p) :
        (\E w \in kept[p] : w.opens <= m /\ m < w.closes) <=> HasHours(p) /\ OpenAt(p, m)
  BY <1>1, <1>2, WindowsCover DEF Served
<1>4. /\ p \notin Exceptions.closed
      /\ p \in HourEditions[rows["closure"]].closed => Special(p)
      /\ HasHours(p) => kept[p] # {}
  BY <1>1 DEF Served, Closed
<1>5. Hidden(p) \/ EvaluatedWindows(p) = {[opens |-> w.opens, closes |-> w.closes] : w \in kept[p]}
  BY <1>1, EvaluatorAgrees
<1> QED
  BY <1>3, <1>4, <1>5

Gathering == {"place", "rules", "exceptions", "entrances", "load", "diet", "ends"}

\* What has been read when a step is next, and the places kept so far.
KeptInv ==
  /\ request \in Requests
  /\ active = [s \in Sources |-> active[s]] /\ \A s \in Sources : active[s] \in Editions[s]
  /\ rows = [s \in Statements |-> rows[s]]
  /\ step \in Gathering => queue \in Seq(Places)
  /\ step \in Gathering \ {"place", "rules"} => rows["rules"] \in DOMAIN HourEditions
  /\ step \in Gathering \ {"place", "rules", "exceptions"} =>
       rows["exception"] \in DOMAIN ExceptionEditions
  /\ step \notin {"load", "diet", "ends", "answered"} => DOMAIN kept = {}
  /\ \A p \in DOMAIN kept : Served(p)

\* Nothing has been read.
LEMMA KeptInit ==
  ASSUME Init
  PROVE  KeptInv
<1>1. request \in Requests /\ step = "resolve" /\ kept = <<>>
      /\ rows = [s \in Statements |-> NoEdition]
  BY DEF Init
<1>2. active = [s \in Sources |-> active[s]] /\ \A s \in Sources : active[s] \in Editions[s]
  BY GatewayAssumption DEF Init
<1>3. DOMAIN kept = {}
  BY <1>1
<1>4. rows = [s \in Statements |-> rows[s]]
  BY <1>1
<1> QED
  BY <1>1, <1>2, <1>3, <1>4 DEF KeptInv, Gathering

\* Served is about the rows that were read and the windows kept of the place.
LEMMA StillServed ==
  ASSUME UNCHANGED rows, NEW p, Served(p), kept'[p] = kept[p]
  PROVE  Served(p)'
<1>1. /\ RowsAreRead' <=> RowsAreRead
      /\ Closed(p)' <=> Closed(p)
      /\ HasHours(p)' <=> HasHours(p)
      /\ Windows(p)' = Windows(p)
  BY DEF RowsAreRead, Closed, HasHours, Windows, Special, SpecialIsFresh, Exceptions, Opens,
         Breaks, FreshRules
<1> QED
  BY <1>1 DEF Served

\* A step that neither reads a row nor keeps another place.
LEMMA KeptQuiet ==
  ASSUME KeptInv, UNCHANGED <<request, active, rows, step, kept>>, queue' = queue
  PROVE  KeptInv'
<1>1. \A p \in DOMAIN kept' : Served(p)'
  BY StillServed DEF KeptInv
<1> QED
  BY <1>1 DEF KeptInv

\* Candidates are queued.
LEMMA DiscoverKeeps ==
  ASSUME KeptInv, Discover
  PROVE  KeptInv'
<1> DEFINE S == Candidates \cup request.required
           K == [p \in S |-> <<IF p \in request.required THEN 0 ELSE 1, p>>]
<1>1. S \subseteq Places
  <2>1. request.required \subseteq Places
    BY GatewayAssumption DEF KeptInv, Request
  <2>2. active["place"] \in DOMAIN PlaceEditions
    BY DEF KeptInv, Editions, Sources
  <2>3. Candidates \subseteq PlaceEditions[active["place"]].has \ {Hotel}
    BY DEF Candidates
  <2> QED
    BY <2>1, <2>2, <2>3, GatewayAssumption
<1>2. IsFiniteSet(S)
  BY <1>1, FS_Subset, GatewayAssumption
<1> HIDE DEF S
<1>3. IsKey(K, S, 2)
  <2>1. \A p \in S : p \in Int
    BY <1>1, OrderSearchAssumption
  <2>2. \A p \in S : K[p] = <<IF p \in request.required THEN 0 ELSE 1, p>>
    OBVIOUS
  <2>3. \A p \in S : K[p] \in Keys(2)
    BY <2>1, <2>2, KeysOfTwo
  <2>4. \A p, q \in S : K[p] = K[q] => p = q
    BY <2>2
  <2>5. DOMAIN K = S /\ K = [p \in S |-> K[p]]
    OBVIOUS
  <2> HIDE DEF K
  <2>6. K \in [S -> Keys(2)]
    BY <2>3, <2>5
  <2> QED
    BY <2>4, <2>6 DEF IsKey
<1> HIDE DEF K
<1>4. Lists(Ordered(K), S)
  BY <1>2, <1>3, OrderedSorts DEF Sorts
<1>5. Ordered(K) \in Seq(S)
  BY <1>2, <1>4, ListsRange
<1>6. Ordered(K) \in Seq(Places)
  BY <1>1, <1>5
<1>7. /\ queue' = Ordered(K) /\ step' = "place" /\ step = "resolve"
      /\ UNCHANGED <<request, active, rows, kept>>
  BY Zenon DEF Discover, K, S
<1>8. DOMAIN kept' = {}
  BY <1>7 DEF KeptInv
<1> QED
  BY <1>6, <1>7, <1>8 DEF KeptInv, Gathering

\* A step before the places are loaded.
LEMMA ReadKeeps ==
  ASSUME KeptInv, ReadPlaces \/ ReadRules \/ ReadExceptions \/ ReadEntrances
  PROVE  KeptInv'
<1>1. DOMAIN kept = {}
  BY DEF KeptInv, ReadPlaces, ReadRules, ReadExceptions, ReadEntrances, Read
<1>2. UNCHANGED <<request, active, queue, kept>> /\ rows' = [s \in Statements |-> rows'[s]]
  BY DEF ReadPlaces, ReadRules, ReadExceptions, ReadEntrances, Read
<1>3. active["hours"] \in DOMAIN HourEditions /\ active["exception"] \in DOMAIN ExceptionEditions
  BY DEF KeptInv, Editions, Sources
<1>4. /\ step' \in Gathering \ {"place", "rules"} => rows'["rules"] \in DOMAIN HourEditions
      /\ step' \in Gathering \ {"place", "rules", "exceptions"} =>
           rows'["exception"] \in DOMAIN ExceptionEditions
      /\ step \in Gathering /\ step' \in Gathering
  <2>1. CASE ReadPlaces
    BY <2>1 DEF ReadPlaces, Read, Gathering
  <2>2. CASE ReadRules
    BY <2>2, <1>3 DEF ReadRules, Read, Gathering, Statements
  <2>3. CASE ReadExceptions
    BY <2>3, <1>3 DEF ReadExceptions, Read, Gathering, Statements, KeptInv
  <2>4. CASE ReadEntrances
    BY <2>4 DEF ReadEntrances, Read, Gathering, Statements, KeptInv
  <2> QED
    BY <2>1, <2>2, <2>3, <2>4
<1> QED
  BY <1>1, <1>2, <1>4 DEF KeptInv

\* A place is kept with its windows, or left out.
LEMMA LoadKeeps ==
  ASSUME KeptInv, LoadPlace
  PROVE  KeptInv'
<1>0. PICK p : p = Head(queue)
  OBVIOUS
<1>1. /\ step = "load" /\ step' \in {"load", "diet"} /\ queue # <<>> /\ queue' = Tail(queue)
      /\ UNCHANGED <<request, active, rows>>
  BY DEF LoadPlace
<1>2. p \in Places /\ queue' \in Seq(Places) /\ RowsAreRead
  BY <1>0, <1>1 DEF KeptInv, Gathering, RowsAreRead
<1>3. CASE kept' = kept
  BY <1>1, <1>2, <1>3, StillServed DEF KeptInv, Gathering
<1>4. CASE kept' # kept
  <2>1. /\ kept' = [x \in DOMAIN kept \cup {p} |-> IF x = p THEN Windows(p) ELSE kept[x]]
        /\ ~Unsuitable(p)
    BY <1>0, <1>4, Zenon DEF LoadPlace
  <2>2. /\ DOMAIN kept' = DOMAIN kept \cup {p} /\ kept'[p] = Windows(p)
        /\ \A q \in DOMAIN kept \ {p} : kept'[q] = kept[q]
    BY <2>1
  <2>3. Windows(p)' = Windows(p) /\ (RowsAreRead' <=> RowsAreRead)
        /\ (Closed(p)' <=> Closed(p)) /\ (HasHours(p)' <=> HasHours(p))
    <3>1. rows' = rows
      BY <1>1
    <3> QED
      BY <3>1 DEF RowsAreRead, Closed, HasHours, Windows, Special, SpecialIsFresh, Exceptions,
                  Opens, Breaks, FreshRules
  <2>4. ~Closed(p) /\ (HasHours(p) => Windows(p) # {})
    BY <2>1, Zenon DEF Unsuitable, HasHours
  <2>5. Served(p)'
    BY <1>2, <2>2, <2>3, <2>4 DEF Served
  <2>6. \A q \in DOMAIN kept \ {p} : Served(q)'
    BY <1>1, <2>2, StillServed DEF KeptInv
  <2>7. \A q \in DOMAIN kept' : Served(q)'
    BY <2>2, <2>5, <2>6
  <2> QED
    BY <1>1, <1>2, <2>7 DEF KeptInv, Gathering
<1> QED
  BY <1>3, <1>4

\* A place whose food is not known to be safe is left out.
LEMMA DietKeeps ==
  ASSUME KeptInv, CheckDiet
  PROVE  KeptInv'
<1>1. /\ step = "diet" /\ step' = "load" /\ UNCHANGED <<request, active, rows, queue>>
      /\ kept' = kept \/ kept' = [x \in DOMAIN kept \ {loading} |-> kept[x]]
  BY DEF CheckDiet
<1>2. DOMAIN kept' \subseteq DOMAIN kept /\ \A q \in DOMAIN kept' : kept'[q] = kept[q]
  BY <1>1
<1>3. \A q \in DOMAIN kept' : Served(q)'
  BY <1>1, <1>2, StillServed DEF KeptInv
<1> QED
  BY <1>1, <1>3 DEF KeptInv, Gathering

\* Every step of the gateway keeps the places served as published.
LEMMA KeptSteps ==
  ASSUME KeptInv, [Next]_vars
  PROVE  KeptInv'
<1>1. CASE UNCHANGED gatewayVars
  BY <1>1, KeptQuiet DEF gatewayVars
<1>2. CASE \E s \in Sources : Activate(s)
  <2>1. PICK s \in Sources : Activate(s)
    BY <1>2
  <2>2. PICK e \in Editions[s] : active' = [active EXCEPT ![s] = e]
    BY <2>1 DEF Activate
  <2>3. active' = [t \in Sources |-> active'[t]] /\ \A t \in Sources : active'[t] \in Editions[t]
    BY <2>2 DEF KeptInv
  <2>4. UNCHANGED <<request, rows, step, kept, queue>>
    BY <2>1 DEF Activate
  <2>5. \A p \in DOMAIN kept' : Served(p)'
    BY <2>4, StillServed DEF KeptInv
  <2> QED
    BY <2>3, <2>4, <2>5 DEF KeptInv
<1>3. CASE Resolve
  <2>1. /\ step = "resolve" /\ step' \in {"resolve", "answered"}
        /\ UNCHANGED <<request, active, rows, kept>>
    BY <1>3 DEF Resolve
  <2>2. DOMAIN kept' = {}
    BY <2>1 DEF KeptInv
  <2> QED
    BY <2>1, <2>2 DEF KeptInv, Gathering
<1>4. CASE AddFact
  BY <1>4, KeptQuiet DEF AddFact
<1>5. CASE LoadEnds \/ Answer
  <2>1. /\ step \in {"load", "ends"} /\ step' \in {"ends", "answered"}
        /\ UNCHANGED <<request, active, rows, kept, queue>>
    BY <1>5 DEF LoadEnds, Answer
  <2>2. \A p \in DOMAIN kept' : Served(p)'
    BY <2>1, StillServed DEF KeptInv
  <2> QED
    BY <2>1, <2>2 DEF KeptInv, Gathering
<1>6. CASE StartSearch \/ Search
  BY <1>6, <1>1 DEF StartSearch, Search
<1> QED
  BY <1>1, <1>2, <1>3, <1>4, <1>5, <1>6, DiscoverKeeps, ReadKeeps, LoadKeeps, DietKeeps
     DEF Next, vars

\* A place is served at the minutes at which its publications say that it is
\* open and at no others, and not on a day on which they close it, whichever
\* publications are activated while the rows are read (_prime_place_candidates,
\* _load_place, _subtract_verified_breaks).
THEOREM HoursAreAlwaysPublished == Spec => []HoursAreAsPublished
<1>1. KeptInv => HoursAreAsPublished
  BY ServedAsPublished DEF KeptInv
<1> QED
  BY <1>1, KeptInit, KeptSteps, PTL DEF Spec

--------------------------------------------------------------------------------
\* Stays.

\* Of some windows one opens first and, of those, closes first.
LEMMA FirstWindow ==
  ASSUME NEW ws \in SUBSET HourWindow, ws # {}
  PROVE  \E x \in ws : \A o \in ws : ~Precedes(<<o.opens, o.closes>>, <<x.opens, x.closes>>)
<1> DEFINE A == {w.opens : w \in ws}
<1>1. A \in SUBSET Nat /\ A # {}
  BY DEF HourWindow
<1>2. PICK a \in A : \A y \in A : a <= y
  BY <1>1, MinOfNaturals
<1> DEFINE B == {w.closes : w \in {v \in ws : v.opens = a}}
<1>3. B \in SUBSET Nat /\ B # {}
  BY <1>2 DEF HourWindow
<1>4. PICK b \in B : \A y \in B : b <= y
  BY <1>3, MinOfNaturals
<1>5. PICK x \in ws : x.opens = a /\ x.closes = b
  BY <1>4
<1>6. ASSUME NEW o \in ws, Precedes(<<o.opens, o.closes>>, <<x.opens, x.closes>>) PROVE FALSE
  <2>1. a <= o.opens /\ (o.opens = a => b <= o.closes)
    BY <1>2, <1>4
  <2>2. o.opens < a \/ (o.opens = a /\ o.closes < b)
    BY <1>5, <1>6 DEF Precedes
  <2>3. o.opens \in Nat /\ o.closes \in Nat /\ a \in Nat /\ b \in Nat
    BY <1>1, <1>3 DEF HourWindow
  <2> QED
    BY <2>1, <2>2, <2>3
<1> QED
  BY <1>6

\* The search knows the first of the windows, or that none are known.
LEMMA HoursAreAWindow ==
  ASSUME NEW p, kept[p] \in SUBSET HourWindow
  PROVE  LET h == HoursOf(p) IN
         /\ kept[p] = {} => /\ h.opens = NoTime /\ h.closes = NoTime
                            /\ h.lastIn = NoTime /\ h.lastOrder = NoTime
         /\ kept[p] # {} => \E f \in kept[p] :
              /\ h.opens = f.opens /\ h.closes = f.closes
              /\ h.lastIn = f.lastIn /\ h.lastOrder = f.lastOrder
<1>1. CASE kept[p] = {}
  BY <1>1 DEF HoursOf
<1>2. CASE kept[p] # {}
  <2> DEFINE f == CHOOSE x \in kept[p] :
                    \A o \in kept[p] : ~Precedes(<<o.opens, o.closes>>, <<x.opens, x.closes>>)
  <2>1. f \in kept[p]
    BY <1>2, FirstWindow
  <2>2. HoursOf(p) = [opens |-> f.opens, closes |-> f.closes, lastIn |-> f.lastIn,
                      lastOrder |-> f.lastOrder, verified |-> TRUE]
    BY <1>2, Zenon DEF HoursOf
  <2> HIDE DEF f
  <2> QED
    BY <1>2, <2>1, <2>2
<1> QED
  BY <1>1, <1>2

Typed == \A l \in legs : l.row.arrives \in Nat /\ l.egress \in Nat

\* Rides arrive at minutes, and the next one is one of them.
LEMMA ArrivalsAreMinutes ==
  ASSUME Typed, NEW from, NEW to, NEW at
  PROVE  /\ Arrivals(from, to, at) \subseteq Nat
         /\ NextArrival(from, to, at) = NoTime \/ NextArrival(from, to, at) \in Arrivals(from, to, at)
<1>1. \A l \in legs : l.row.arrives + Egress(l) \in Nat
  <2> SUFFICES ASSUME NEW l \in legs PROVE l.row.arrives + Egress(l) \in Nat
    OBVIOUS
  <2>1. l.row.arrives \in Nat /\ l.egress \in Nat
    BY DEF Typed
  <2>2. \A m \in Nat : (m * 60 + 6999) \div 7000 \in Nat
    OBVIOUS
  <2> QED
    BY <2>1, <2>2 DEF Egress, MinutesToWalk, RouteUncertainty
<1>2. Arrivals(from, to, at) \subseteq Nat
  BY <1>1 DEF Arrivals
<1>3. NextArrival(from, to, at) = IF Arrivals(from, to, at) = {} THEN NoTime
                                  ELSE Min(Arrivals(from, to, at))
  BY DEF NextArrival
<1> QED
  BY <1>2, <1>3, MinOfNaturals

\* The strategies, with their slack and their visits.
LEMMA StrategyNames ==
  /\ Range(Strategies) = {"relaxed", "balanced", "experience_max"}
  /\ \A s \in Range(Strategies) : Slack[s] \in Nat /\ VisitsOf[s] \in Nat
<1>1. Range(Strategies) = {"relaxed", "balanced", "experience_max"}
  BY DEF Range, Strategies
<1> QED
  BY <1>1 DEF Slack, VisitsOf

\* A stay begins at an hour that suits it.
LEMMA BeginsInHours ==
  ASSUME NEW s \in Range(Strategies), NEW p, NEW a \in Nat,
         day.loaded[p].opens \in Nat \cup {NoTime}
  PROVE  LET b == Begins(s, p, a) IN
         /\ b \in Nat /\ a <= b
         /\ day.loaded[p].opens # NoTime => day.loaded[p].opens <= b
         /\ RoleOf[p] = "meal" => LunchStart <= b
<1> DEFINE h == day.loaded[p]
           x == a + Slack[s]
           y == IF h.opens = NoTime THEN x ELSE h.opens
           z == IF RoleOf[p] = "meal" THEN LunchStart ELSE x
<1>1. Slack[s] \in Nat
  BY StrategyNames
<1>2. x \in Nat /\ y \in Nat /\ z \in Nat /\ a <= x
  BY <1>1 DEF LunchStart
<1>3. Begins(s, p, a) = Max({x, y, z})
  <2>1. {x, y, z} = {x} \cup (IF h.opens = NoTime THEN {} ELSE {h.opens})
                        \cup (IF RoleOf[p] = "meal" THEN {LunchStart} ELSE {})
    OBVIOUS
  <2> QED
    BY <2>1 DEF Begins
<1> HIDE DEF x
<1>4. (h.opens # NoTime => y = h.opens) /\ (RoleOf[p] = "meal" => z = LunchStart)
  OBVIOUS
<1> HIDE DEF y, z
<1>5. LET m == Max({x, y, z}) IN m \in {x, y, z} /\ x <= m /\ y <= m /\ z <= m
  <2>1. x \in Int /\ y \in Int /\ z \in Int
    BY <1>2
  <2> QED
    BY <2>1, MaxOfThree, Zenon
<1>6. Max({x, y, z}) \in Nat
  BY <1>2, <1>5
<1> QED
  BY <1>2, <1>3, <1>4, <1>5, <1>6

\* Of a place that is kept the search knows the first window.
Known(p) == p \in Places /\ kept[p] \in SUBSET HourWindow /\ day.loaded[p] = HoursOf(p)

\* A stay that the search admits is one that the published hours allow.
LEMMA AdmittedStay ==
  ASSUME NEW s \in Range(Strategies), NEW p, Known(p), NEW a \in Nat, NEW e \in Nat,
         Admits(p, Begins(s, p, a), e)
  PROVE  Begins(s, p, a) \in Nat /\ CanStay(p, Begins(s, p, a), e)
<1> DEFINE b == Begins(s, p, a)
           h == day.loaded[p]
<1>1. /\ kept[p] = {} => /\ h.opens = NoTime /\ h.closes = NoTime
                         /\ h.lastIn = NoTime /\ h.lastOrder = NoTime
      /\ kept[p] # {} => \E f \in kept[p] :
           /\ h.opens = f.opens /\ h.closes = f.closes
           /\ h.lastIn = f.lastIn /\ h.lastOrder = f.lastOrder
  BY HoursAreAWindow DEF Known
<1>2. h.opens \in Nat \cup {NoTime}
  BY <1>1 DEF Known, HourWindow
<1>3. /\ b \in Nat /\ (h.opens # NoTime => h.opens <= b)
      /\ RoleOf[p] = "meal" => LunchStart <= b
  BY <1>2, BeginsInHours
<1>4. /\ h.lastIn # NoTime => b <= h.lastIn
      /\ h.closes # NoTime => e <= h.closes
      /\ RoleOf[p] = "meal" => e <= LunchEnd /\ (h.lastOrder # NoTime => b <= h.lastOrder)
  BY Zenon DEF Admits
<1> HIDE DEF b, h
<1>5. ASSUME kept[p] # {}
      PROVE  \E w \in kept[p] :
               /\ w.opens <= b /\ e <= w.closes
               /\ w.lastIn # NoTime => b <= w.lastIn
               /\ (w.lastOrder # NoTime /\ RoleOf[p] = "meal") => b <= w.lastOrder
  <2>1. PICK f \in kept[p] : /\ h.opens = f.opens /\ h.closes = f.closes
                             /\ h.lastIn = f.lastIn /\ h.lastOrder = f.lastOrder
    BY <1>1, <1>5
  <2>2. f.opens # NoTime /\ f.closes # NoTime
    BY OrderSearchAssumption DEF Known, HourWindow
  <2> QED
    BY <1>3, <1>4, <2>1, <2>2
<1>6. CanStay(p, b, e)
  BY <1>3, <1>4, <1>5, Zenon DEF CanStay
<1> QED
  BY <1>3, <1>6 DEF b

--------------------------------------------------------------------------------
\* The times along an order.

\* The times at which the stays of an order end, each after the one before.
Timed(s, order, minutes, t) ==
  /\ t \in [0..Len(order) -> Nat] /\ t[0] = day.from
  /\ \A i \in 1..Len(order) :
       t[i] \in EndsOfStay(s, IF i = 1 THEN Hotel ELSE order[i - 1], order[i], {t[i - 1]}, minutes)

\* When the stay i can end, by what f says of the stays before it.
EndsAt(s, order, minutes, f, i) ==
  IF i = 0 THEN {day.from}
  ELSE EndsOfStay(s, IF i = 1 THEN Hotel ELSE order[i - 1], order[i], f[i - 1], minutes)

\* The times at which the stays of an order can end are defined.
LEMMA EndsExist ==
  ASSUME NEW s, NEW order, Len(order) \in Nat, NEW minutes
  PROVE  \E f : f = [i \in 0..Len(order) |-> EndsAt(s, order, minutes, f, i)]
<1> DEFINE n == Len(order)
           Value(f, i) == EndsAt(s, order, minutes, f, i)
           Right(f, m) == \A i \in 0..n : i <= m => f[i] = Value(f, i)
           Q == {m \in Nat : \E f : f = [i \in 0..n |-> f[i]] /\ Right(f, m)}
<1>1. 0 \in Q
  <2> DEFINE f == [i \in 0..n |-> {day.from}]
  <2>1. f = [i \in 0..n |-> f[i]] /\ \A i \in 0..n : i <= 0 => f[i] = Value(f, i)
    OBVIOUS
  <2> HIDE DEF f, Value
  <2> QED
    BY <2>1
<1>2. ASSUME NEW m \in Q PROVE m + 1 \in Q
  <2>1. PICK f : Right(f, m)
    OBVIOUS
  <2> DEFINE g == [i \in 0..n |-> Value(f, i)]
  <2>2. ASSUME NEW i \in 0..n, i <= m + 1 PROVE g[i] = Value(g, i)
    <3>1. CASE i = 0
      BY <3>1 DEF EndsAt
    <3>2. CASE i # 0
      <4>1. i - 1 \in 0..n /\ i - 1 <= m
        BY <2>2, <3>2
      <4>2. f[i - 1] = g[i - 1]
        BY <2>1, <4>1
      <4>3. g[i] = Value(f, i)
        OBVIOUS
      <4> HIDE DEF g
      <4> QED
        BY <4>2, <4>3 DEF EndsAt
    <3> QED
      BY <3>1, <3>2
  <2>3. g = [i \in 0..n |-> g[i]] /\ m + 1 \in Nat
    OBVIOUS
  <2> HIDE DEF g, Value
  <2> QED
    BY <2>2, <2>3
<1> HIDE DEF Q
<1>3. n \in Q
  <2>1. Q \in SUBSET Nat
    BY DEF Q
  <2>2. Q = Nat
    BY <1>1, <1>2, <2>1, SetOfNaturals
  <2> QED
    BY <2>2
<1>4. PICK f : f = [i \in 0..n |-> f[i]] /\ Right(f, n)
  BY <1>3 DEF Q
<1>5. f = [i \in 0..n |-> Value(f, i)]
  <2> HIDE DEF Value
  <2>1. \A i \in 0..n : f[i] = Value(f, i)
    <3>1. \A i \in 0..n : i <= n
      OBVIOUS
    <3> QED
      BY <1>4, <3>1
  <2> QED
    BY <1>4, <2>1
<1> QED
  BY <1>5

\* Somebody who keeps to the times is on time at the end.
LEMMA TimedEnds ==
  ASSUME NEW s, NEW order, Len(order) \in Nat, NEW minutes, NEW t, Timed(s, order, minutes, t)
  PROVE  t[Len(order)] \in EndsOfOrder(s, order, minutes)
<1> DEFINE n == Len(order)
           f == CHOOSE g : g = [i \in 0..n |-> EndsAt(s, order, minutes, g, i)]
<1>1. \E g : g = [i \in 0..n |-> EndsAt(s, order, minutes, g, i)]
  BY EndsExist
<1>2. EndsOfOrder(s, order, minutes) = f[n]
  BY Zenon DEF EndsOfOrder, EndsAt
<1>3. f = [i \in 0..n |-> EndsAt(s, order, minutes, f, i)]
  BY <1>1, Zenon
<1> HIDE DEF f
<1>4. \A i \in 0..n : f[i] = EndsAt(s, order, minutes, f, i)
  BY <1>3
<1>5. /\ f[0] = {day.from}
      /\ \A i \in 1..n : f[i] = EndsOfStay(s, IF i = 1 THEN Hotel ELSE order[i - 1], order[i],
                                           f[i - 1], minutes)
  BY <1>4 DEF EndsAt
<1> DEFINE Q == {i \in Nat : i <= n => t[i] \in f[i]}
<1>6. 0 \in Q
  BY <1>5 DEF Timed
<1>7. ASSUME NEW i \in Q PROVE i + 1 \in Q
  <2> SUFFICES ASSUME i + 1 <= n PROVE t[i + 1] \in f[i + 1]
    OBVIOUS
  <2>1. i + 1 \in 1..n /\ (i + 1) - 1 = i /\ t[i] \in f[i]
    OBVIOUS
  <2> DEFINE from == IF i + 1 = 1 THEN Hotel ELSE order[(i + 1) - 1]
             p == order[i + 1]
  <2>2. t[i + 1] \in EndsOfStay(s, from, p, {t[(i + 1) - 1]}, minutes)
    BY <2>1 DEF Timed
  <2>3. f[i + 1] = EndsOfStay(s, from, p, f[(i + 1) - 1], minutes)
    BY <1>5, <2>1
  <2> HIDE DEF from, p
  <2>4. \A e : e \in EndsOfStay(s, from, p, {t[i]}, minutes)
                 => e \in EndsOfStay(s, from, p, f[i], minutes)
    BY <2>1, Zenon DEF EndsOfStay
  <2> QED
    BY <2>1, <2>2, <2>3, <2>4
<1> HIDE DEF Q
<1>8. Q = Nat
  <2>1. Q \in SUBSET Nat
    BY DEF Q
  <2> QED
    BY <1>6, <1>7, <2>1, SetOfNaturals
<1>9. t[n] \in f[n]
  BY <1>8 DEF Q
<1> QED
  BY <1>2, <1>9

\* An order that can be followed can be followed with one more place.
LEMMA TimedAppend ==
  ASSUME NEW s, NEW order \in Seq(Places), NEW minutes, NEW t, Timed(s, order, minutes, t),
         NEW p \in Places, NEW e \in Nat,
         e \in EndsOfStay(s, LastPlace(order), p, {t[Len(order)]}, minutes)
  PROVE  \E u : Timed(s, Append(order, p), minutes, u) /\ u[Len(Append(order, p))] = e
<1> DEFINE n == Len(order)
           u == [i \in 0..(n + 1) |-> IF i <= n THEN t[i] ELSE e]
           longer == Append(order, p)
<1>1. n \in Nat /\ t \in [0..n -> Nat] /\ t[0] = day.from
  BY DEF Timed
<1>2. /\ Len(longer) = n + 1 /\ longer[n + 1] = p
      /\ \A i \in 1..n : longer[i] = order[i]
  BY <1>1
<1>3. u \in [0..(n + 1) -> Nat] /\ u[0] = day.from /\ u[n + 1] = e /\ \A i \in 0..n : u[i] = t[i]
  BY <1>1
<1>4. LastPlace(order) = IF n + 1 = 1 THEN Hotel ELSE order[n]
  BY DEF LastPlace
<1> HIDE DEF u, longer
<1>5. ASSUME NEW i \in 1..(n + 1)
      PROVE  u[i] \in EndsOfStay(s, IF i = 1 THEN Hotel ELSE longer[i - 1], longer[i],
                                 {u[i - 1]}, minutes)
  <2>1. CASE i <= n
    <3>1. i \in 1..n /\ i - 1 \in 0..n /\ (i # 1 => i - 1 \in 1..n)
      BY <1>1, <2>1
    <3>2. t[i] \in EndsOfStay(s, IF i = 1 THEN Hotel ELSE order[i - 1], order[i],
                              {t[i - 1]}, minutes)
      BY <3>1 DEF Timed
    <3>3. /\ u[i] = t[i] /\ u[i - 1] = t[i - 1] /\ longer[i] = order[i]
          /\ i # 1 => longer[i - 1] = order[i - 1]
      <4> HIDE DEF n
      <4>1. u[i] = t[i] /\ u[i - 1] = t[i - 1]
        BY <1>3, <3>1, SMTT(30)
      <4>2. longer[i] = order[i] /\ (i # 1 => longer[i - 1] = order[i - 1])
        BY <1>2, <3>1, SMTT(30)
      <4> QED
        BY <4>1, <4>2
    <3>4. (IF i = 1 THEN Hotel ELSE longer[i - 1]) = IF i = 1 THEN Hotel ELSE order[i - 1]
      BY <3>3, Zenon
    <3> QED
      BY <3>2, <3>3, <3>4, Zenon
  <2>2. CASE i = n + 1
    <3>1. u[i] = e /\ u[i - 1] = t[n] /\ longer[i] = p
      BY <1>1, <1>2, <1>3, <2>2
    <3>2. (IF i = 1 THEN Hotel ELSE longer[i - 1]) = LastPlace(order)
      BY <1>1, <1>2, <1>4, <2>2
    <3> QED
      BY <3>1, <3>2
  <2> QED
    BY <1>1, <2>1, <2>2
<1>6. Timed(s, longer, minutes, u)
  BY <1>2, <1>3, <1>5 DEF Timed
<1> QED
  BY <1>2, <1>3, <1>6 DEF longer

--------------------------------------------------------------------------------
\* What an order has of each role.

\* An order has a number of places of each role.
LEMMA CountIsNat ==
  ASSUME NEW order \in Seq(Places), NEW role
  PROVE  Count(order, role) \in Nat
<1>1. IsFiniteSet(1..Len(order))
  BY FS_Interval
<1>2. {i \in DOMAIN order : RoleOf[order[i]] = role} \subseteq 1..Len(order)
  OBVIOUS
<1> QED
  BY <1>1, <1>2, FS_Subset, FS_CardinalityType DEF Count

\* A place is added to the count of its role.
LEMMA CountAppend ==
  ASSUME NEW order \in Seq(Places), NEW p \in Places, NEW role
  PROVE  Count(Append(order, p), role) = Count(order, role) + (IF RoleOf[p] = role THEN 1 ELSE 0)
<1> DEFINE n == Len(order)
           longer == Append(order, p)
           A == {i \in DOMAIN order : RoleOf[order[i]] = role}
           B == {i \in DOMAIN longer : RoleOf[longer[i]] = role}
<1>1. /\ n \in Nat /\ DOMAIN order = 1..n /\ DOMAIN longer = 1..(n + 1) /\ longer[n + 1] = p
      /\ \A i \in 1..n : longer[i] = order[i]
  OBVIOUS
<1> HIDE DEF longer
<1>2. IsFiniteSet(A) /\ Cardinality(A) \in Nat
  <2>1. IsFiniteSet(1..n) /\ A \subseteq 1..n
    BY <1>1, FS_Interval
  <2> QED
    BY <2>1, FS_Subset, FS_CardinalityType
<1>3. n + 1 \notin A
  BY <1>1
<1>4. Count(order, role) = Cardinality(A) /\ Count(longer, role) = Cardinality(B)
  BY DEF Count
<1>5. /\ \A i \in 1..n : i \in B <=> i \in A
      /\ n + 1 \in B <=> RoleOf[p] = role
      /\ A \subseteq 1..n /\ B \subseteq 1..(n + 1)
  BY <1>1
<1> HIDE DEF A, B
<1>6. CASE RoleOf[p] = role
  <2>1. B = A \cup {n + 1}
    <3>1. \A i \in 1..(n + 1) : i \in 1..n \/ i = n + 1
      BY <1>1
    <3>2. \A i \in B : i \in A \cup {n + 1}
      BY <1>5, <3>1
    <3>3. A \subseteq 1..(n + 1) /\ A \subseteq B /\ n + 1 \in B
      BY <1>1, <1>5, <1>6
    <3> QED
      BY <3>2, <3>3
  <2>2. Cardinality(B) = Cardinality(A) + 1
    BY <1>2, <1>3, <2>1, FS_AddElement
  <2> QED
    BY <1>4, <1>6, <2>2 DEF longer
<1>7. CASE RoleOf[p] # role
  <2>1. \A i \in 1..(n + 1) : i \in B <=> i \in A
    BY <1>1, <1>3, <1>5, <1>7
  <2>2. B = A
    BY <1>1, <1>5, <2>1
  <2> QED
    BY <1>2, <1>4, <1>7, <2>2 DEF longer
<1> QED
  BY <1>6, <1>7

\* Every place has one of three roles.
LEMMA CountsAddUp ==
  ASSUME NEW order \in Seq(Places)
  PROVE  Len(order) = Count(order, "visit") + Count(order, "meal") + Count(order, "rest")
<1> DEFINE n == Len(order)
           Of(role) == {i \in DOMAIN order : RoleOf[order[i]] = role}
<1>1. n \in Nat /\ DOMAIN order = 1..n
  OBVIOUS
<1>2. IsFiniteSet(1..n) /\ Cardinality(1..n) = n
  BY <1>1, FS_Interval, SMTT(30)
<1>3. \A role : IsFiniteSet(Of(role)) /\ Cardinality(Of(role)) \in Nat
  <2>1. \A role : Of(role) \subseteq 1..n
    BY <1>1
  <2> QED
    BY <1>2, <2>1, FS_Subset, FS_CardinalityType
<1>4. 1..n = (Of("visit") \cup Of("meal")) \cup Of("rest")
  BY <1>1, OrderSearchAssumption DEF Roles
<1>5. Of("visit") \cap Of("meal") = {} /\ (Of("visit") \cup Of("meal")) \cap Of("rest") = {}
  OBVIOUS
<1>6. \A role : Count(order, role) = Cardinality(Of(role))
  BY DEF Count
<1> DEFINE v == Of("visit")
           m == Of("meal")
           r == Of("rest")
<1> HIDE DEF Of
<1>7. /\ IsFiniteSet(v) /\ IsFiniteSet(m) /\ IsFiniteSet(r)
      /\ v \cap m = {} /\ (v \cup m) \cap r = {} /\ 1..n = (v \cup m) \cup r
  BY <1>3, <1>4, <1>5
<1> HIDE DEF v, m, r
<1>8. IsFiniteSet(v \cup m) /\ Cardinality(v \cup m) = Cardinality(v) + Cardinality(m)
  BY <1>7, DisjointUnion
<1>9. Cardinality((v \cup m) \cup r) = Cardinality(v \cup m) + Cardinality(r)
  BY <1>7, <1>8, DisjointUnion
<1>10. n = Cardinality(v) + Cardinality(m) + Cardinality(r)
  BY <1>2, <1>7, <1>8, <1>9
<1> QED
  BY <1>6, <1>10 DEF v, m, r

\* There are finitely many required visits.
LEMMA RequiredAreFew ==
  ASSUME Loaded \subseteq Places
  PROVE  /\ IsFiniteSet(RequiredVisits) /\ Cardinality(RequiredVisits) \in Nat
         /\ RequiredVisits \subseteq Places
<1>1. RequiredVisits \subseteq Places
  BY DEF RequiredVisits
<1> QED
  BY <1>1, FS_Subset, FS_CardinalityType, GatewayAssumption

\* A number of places is wanted of each role.
LEMMA WantedIsNat ==
  ASSUME Loaded \subseteq Places, NEW s \in Range(Strategies), NEW role
  PROVE  Wanted(s, role) \in Nat
<1>1. VisitsOf[s] \in Nat /\ Cardinality(RequiredVisits) \in Nat
  BY StrategyNames, RequiredAreFew
<1>2. Max({VisitsOf[s], Cardinality(RequiredVisits)}) \in Nat
  BY <1>1, MaxOfTwo
<1> QED
  BY <1>2 DEF Wanted

\* An order that is whole and has of no role too many has enough of each.
LEMMA WholeIsFull ==
  ASSUME Loaded \subseteq Places, NEW s \in Range(Strategies), NEW order \in Seq(Places),
         \A role \in Roles : Count(order, role) <= Wanted(s, role), Len(order) = Whole(s)
  PROVE  \A role \in Roles : Count(order, role) = Wanted(s, role)
<1>1. /\ Count(order, "visit") \in Nat /\ Count(order, "meal") \in Nat /\ Count(order, "rest") \in Nat
      /\ Wanted(s, "visit") \in Nat /\ Wanted(s, "meal") \in Nat /\ Wanted(s, "rest") \in Nat
  BY CountIsNat, WantedIsNat
<1>2. /\ Count(order, "visit") <= Wanted(s, "visit") /\ Count(order, "meal") <= Wanted(s, "meal")
      /\ Count(order, "rest") <= Wanted(s, "rest")
  BY DEF Roles
<1>3. Count(order, "visit") + Count(order, "meal") + Count(order, "rest")
      = Wanted(s, "visit") + Wanted(s, "meal") + Wanted(s, "rest")
  BY CountsAddUp DEF Whole
<1>4. /\ Count(order, "visit") = Wanted(s, "visit") /\ Count(order, "meal") = Wanted(s, "meal")
      /\ Count(order, "rest") = Wanted(s, "rest")
  BY <1>1, <1>2, <1>3, SMTT(30)
<1> QED
  BY <1>4 DEF Roles

\* A new place is not repeated.
LEMMA InjectiveAppend ==
  ASSUME NEW order \in Seq(Places), IsInjective(order), NEW p \in Places, p \notin Range(order)
  PROVE  IsInjective(Append(order, p))
<1> DEFINE n == Len(order)
           longer == Append(order, p)
<1>1. /\ n \in Nat /\ DOMAIN order = 1..n /\ DOMAIN longer = 1..(n + 1) /\ longer[n + 1] = p
      /\ \A i \in 1..n : longer[i] = order[i]
  OBVIOUS
<1> HIDE DEF longer
<1>2. \A i \in 1..n : order[i] # p
  BY <1>1 DEF Range
<1>3. \A i, j \in 1..n : order[i] = order[j] => i = j
  BY <1>1 DEF IsInjective
<1>4. \A i, j \in 1..(n + 1) : longer[i] = longer[j] => i = j
  BY <1>1, <1>2, <1>3
<1>5. IsInjective(longer)
  BY <1>1, <1>4 DEF IsInjective
<1> QED
  BY <1>5 DEF longer

--------------------------------------------------------------------------------
\* The relaxed order.

Optional(order, i) == RoleOf[order[i]] = "visit" /\ order[i] \notin RequiredVisits
More == Max({2, Cardinality(RequiredVisits)}) - Cardinality(RequiredVisits)
Left(order) ==
  {i \in DOMAIN order :
     Optional(order, i) => Cardinality({j \in 1..(i - 1) : Optional(order, j)}) < More}

\* The relaxed order lists what is left of an order in its order.
LEMMA PrefixOfLeft ==
  ASSUME NEW order \in Seq(Places)
  PROVE  /\ Left(order) \subseteq 1..Len(order) /\ IsFiniteSet(Left(order))
         /\ \E at : /\ Lists(at, Left(order))
                    /\ RelaxedPrefix(order) = [k \in DOMAIN at |-> order[at[k]]]
<1> DEFINE at == Ordered([i \in Left(order) |-> <<i>>])
<1>1. Left(order) \subseteq 1..Len(order)
  BY DEF Left
<1>2. IsFiniteSet(Left(order))
  BY <1>1, FS_Interval, FS_Subset
<1>3. Lists(at, Left(order))
  BY <1>1, <1>2, NumbersInOrder
<1>4. RelaxedPrefix(order) = [k \in DOMAIN at |-> order[at[k]]]
  BY Zenon DEF RelaxedPrefix, Left, Optional, More
<1> HIDE DEF at
<1> QED
  BY <1>1, <1>2, <1>3, <1>4

\* Every place that is not an optional visit stays, and none is there twice.
LEMMA PrefixKeeps ==
  ASSUME NEW order \in Seq(Places), IsInjective(order)
  PROVE  /\ IsInjective(RelaxedPrefix(order))
         /\ \A p \in Range(order) : RoleOf[p] # "visit" \/ p \in RequiredVisits =>
              p \in Range(RelaxedPrefix(order))
         /\ \A role : role # "visit" => Count(RelaxedPrefix(order), role) = Count(order, role)
<1> DEFINE S == Left(order)
           r == RelaxedPrefix(order)
           n == Len(order)
<1>1. PICK at : Lists(at, S) /\ r = [k \in DOMAIN at |-> order[at[k]]]
  BY PrefixOfLeft
<1>2. /\ DOMAIN at = 1..Cardinality(S) /\ \A k \in DOMAIN at : at[k] \in S
      /\ \A i \in S : \E k \in DOMAIN at : at[k] = i
      /\ \A k, l \in DOMAIN at : at[k] = at[l] => k = l
  BY <1>1 DEF Lists
<1>3. /\ S \subseteq 1..n /\ DOMAIN order = 1..n /\ n \in Nat
      /\ IsFiniteSet(S)
  BY PrefixOfLeft
<1>4. \A i \in 1..n : ~Optional(order, i) => i \in S
  BY <1>3 DEF Left
<1> HIDE DEF S, r
<1>5. DOMAIN r = DOMAIN at /\ \A k \in DOMAIN at : r[k] = order[at[k]]
  BY <1>1
<1>6. IsInjective(r)
  <2>1. \A i, j \in 1..n : order[i] = order[j] => i = j
    BY <1>3 DEF IsInjective
  <2>2. \A k \in DOMAIN at : at[k] \in 1..n
    BY <1>2, <1>3
  <2>3. \A k, l \in DOMAIN r : r[k] = r[l] => k = l
    BY <1>2, <1>5, <2>1, <2>2
  <2> QED
    BY <2>3 DEF IsInjective
<1>7. ASSUME NEW p \in Range(order), RoleOf[p] # "visit" \/ p \in RequiredVisits
      PROVE  p \in Range(r)
  <2>1. PICK i \in 1..n : order[i] = p
    BY <1>3 DEF Range
  <2>2. i \in S
    BY <1>4, <1>7, <2>1 DEF Optional
  <2>3. PICK k \in DOMAIN r : at[k] = i
    BY <1>2, <1>5, <2>2
  <2> QED
    BY <1>5, <2>1, <2>3 DEF Range
<1>8. ASSUME NEW role, role # "visit"
      PROVE  Count(r, role) = Count(order, role)
  <2> DEFINE A == {k \in DOMAIN r : RoleOf[r[k]] = role}
             B == {i \in DOMAIN order : RoleOf[order[i]] = role}
             f == [k \in A |-> at[k]]
  <2>1. B \subseteq S
    BY <1>3, <1>4, <1>8 DEF Optional
  <2>2. \A k \in A : at[k] \in B
    BY <1>2, <1>3, <1>5
  <2>3. \A i \in B : \E k \in A : at[k] = i
    BY <1>2, <1>3, <1>5, <2>1
  <2>4. \A k, l \in A : at[k] = at[l] => k = l
    BY <1>2, <1>5
  <2>5. IsFiniteSet(B)
    BY <1>3, <2>1, FS_Subset
  <2>6. Count(r, role) = Cardinality(A) /\ Count(order, role) = Cardinality(B)
    BY DEF Count
  <2> HIDE DEF A, B
  <2>7. f \in [A -> B] /\ \A k \in A : f[k] = at[k]
    BY <2>2
  <2> HIDE DEF f
  <2>8. f \in Injection(A, B)
    BY <2>4, <2>7 DEF Injection, IsInjective
  <2>9. f \in Surjection(A, B)
    BY <2>3, <2>7 DEF Surjection
  <2>10. Cardinality(A) = Cardinality(B)
    BY <2>5, <2>8, <2>9, FS_Injection
  <2> QED
    BY <2>6, <2>10
<1> QED
  BY <1>6, <1>7, <1>8 DEF r

\* Of three visits of which less than three are required one is left out.
LEMMA PrefixIsShorter ==
  ASSUME Loaded \subseteq Places, NEW order \in Seq(Places), IsInjective(order),
         Count(order, "visit") = 3, Cardinality(RequiredVisits) < 3
  PROVE  RelaxedPrefix(order) # order
<1> DEFINE n == Len(order)
           c == Cardinality(RequiredVisits)
           Opt == {i \in 1..n : Optional(order, i)}
           Req == {i \in 1..n : order[i] \in RequiredVisits}
<1>1. n \in Nat /\ DOMAIN order = 1..n /\ IsFiniteSet(1..n)
  BY FS_Interval
<1>2. c \in 0..2 /\ IsFiniteSet(RequiredVisits)
  BY RequiredAreFew
<1>3. More = 2 - c
  BY <1>2, MaxOfTwo DEF More
<1>4. /\ IsFiniteSet(Opt) /\ Cardinality(Opt) \in Nat
      /\ IsFiniteSet(Req) /\ Cardinality(Req) \in Nat
  <2>1. Opt \subseteq 1..n /\ Req \subseteq 1..n
    OBVIOUS
  <2> HIDE DEF Opt, Req
  <2> QED
    BY <1>1, <2>1, FS_Subset, FS_CardinalityType
<1>5. Cardinality(Req) <= c
  <2> DEFINE f == [i \in Req |-> order[i]]
  <2>1. f \in [Req -> RequiredVisits] /\ \A i \in Req : f[i] = order[i] /\ i \in 1..n
    OBVIOUS
  <2> HIDE DEF f, Req
  <2>2. f \in Injection(Req, RequiredVisits)
    BY <1>1, <2>1 DEF Injection, IsInjective
  <2> QED
    BY <1>2, <2>2, FS_Injection
<1>6. Cardinality(Opt) + Cardinality(Req) = 3
  <2>1. {i \in DOMAIN order : RoleOf[order[i]] = "visit"} = Opt \cup Req
    <3>1. \A i \in 1..n : RoleOf[order[i]] = "visit" <=> i \in Opt \/ i \in Req
      BY DEF Optional, RequiredVisits
    <3> QED
      BY <1>1, <3>1
  <2>2. Opt \cap Req = {}
    BY DEF Optional
  <2>3. Cardinality(Opt \cup Req) = 3
    BY <2>1 DEF Count
  <2> HIDE DEF Opt, Req
  <2> QED
    BY <1>4, <2>2, <2>3, DisjointUnion
<1>7. Opt # {} /\ Cardinality(Opt) - 1 >= More
  <2>1. Cardinality(Opt) >= 3 - c
    BY <1>2, <1>4, <1>5, <1>6
  <2> HIDE DEF Opt, c
  <2> QED
    BY <1>2, <1>3, <1>4, <2>1, FS_EmptySet
<1>8. PICK m \in Opt : \A i \in Opt : i <= m
  <2>1. Opt \in SUBSET (1..n)
    OBVIOUS
  <2> HIDE DEF Opt
  <2> QED
    BY <1>1, <1>7, <2>1, LastNumber
<1>9. m \notin Left(order)
  <2> DEFINE before == {j \in 1..(m - 1) : Optional(order, j)}
  <2>1. before = Opt \ {m}
    <3>1. m \in 1..n
      OBVIOUS
    <3>2. \A j \in 1..(m - 1) : j \in 1..n /\ j # m
      BY <1>1, <3>1
    <3>3. \A j \in Opt \ {m} : j \in 1..(m - 1)
      BY <1>1, <1>8, <3>1
    <3> QED
      BY <3>2, <3>3
  <2>2. Optional(order, m)
    OBVIOUS
  <2>3. Cardinality(Opt \ {m}) = Cardinality(Opt) - 1
    <3> HIDE DEF Opt
    <3> QED
      BY <1>4, <1>8, FS_RemoveElement
  <2>4. More \in Nat
    BY <1>2, <1>3
  <2>5. ~(Cardinality(before) < More)
    <3> HIDE DEF Opt, before
    <3> QED
      BY <1>4, <1>7, <2>1, <2>3, <2>4
  <2> QED
    BY <2>2, <2>5 DEF Left
<1>10. /\ Left(order) \subseteq 1..n /\ IsFiniteSet(Left(order))
       /\ \E at : /\ Lists(at, Left(order))
                  /\ RelaxedPrefix(order) = [k \in DOMAIN at |-> order[at[k]]]
  BY PrefixOfLeft
<1>11. Cardinality(Left(order)) < n
  <2>1. m \in 1..n /\ Left(order) # 1..n
    BY <1>9
  <2>2. Cardinality(1..n) = n
    BY <1>1, FS_Interval, SMTT(30)
  <2>3. /\ Cardinality(Left(order)) <= n
        /\ Cardinality(Left(order)) = n => 1..n = Left(order)
    BY <1>1, <1>10, <2>2, FS_Subset
  <2>4. Cardinality(Left(order)) \in Nat
    BY <1>10, FS_CardinalityType
  <2> QED
    BY <1>1, <2>1, <2>3, <2>4
<1>12. DOMAIN RelaxedPrefix(order) = 1..Cardinality(Left(order))
  BY <1>10 DEF Lists
<1>13. n \notin 1..Cardinality(Left(order)) /\ n \in 1..n
  <2>1. Cardinality(Left(order)) \in Nat
    BY <1>10, FS_CardinalityType
  <2> QED
    BY <1>1, <1>11, <2>1
<1> QED
  BY <1>1, <1>12, <1>13

--------------------------------------------------------------------------------
\* The search.

\* The stays of this round of the search.
StaysOf == IF short THEN Shorter ELSE StayOf

\* Keeping to some times, somebody can follow the order to the given end.
Followed(s, order, minutes, end) ==
  \E t : Timed(s, order, minutes, t) /\ t[Len(order)] = end

\* A partial order that can be followed, with none of the roles too often.
Sound(s, x) ==
  /\ x.order \in Seq(Loaded) /\ IsInjective(x.order) /\ x.ends \in Nat
  /\ \A role \in Roles : Count(x.order, role) <= Wanted(s, role)
  /\ Followed(s, x.order, StaysOf, x.ends)

\* A whole order that can be followed until the hotel is reached.
Solved(s, order) ==
  /\ order \in Seq(Loaded) /\ IsInjective(order) /\ day.required \subseteq Range(order)
  /\ \A role \in Roles : Count(order, role) = Wanted(s, role)
  /\ \E minutes \in {StayOf, Shorter} : \E end : \E back \in Arrivals(LastPlace(order), Hotel, end) :
       Followed(s, order, minutes, end) /\ back <= day.until

\* The primary order of a strategy and, if there is one, its fallback.
Proposal(offered, s, primary) ==
  offered = <<primary>> \/ \E x \in solutions[s] : offered = <<primary, x.order>>

Proposals ==
  orders = NoOrders \/ \E b \in solutions["balanced"], e \in solutions["experience_max"] :
    /\ Proposal(orders["balanced"], "balanced", b.order)
    /\ Proposal(orders["relaxed"], "relaxed", RelaxedPrefix(b.order))
    /\ Proposal(orders["experience_max"], "experience_max", e.order)

\* The day that is searched is that of the request and of the places loaded.
DayIsAsked ==
  /\ step \in {"ends", "answered"} /\ pending = <<>>
  /\ Loaded = DOMAIN kept /\ \A p \in DOMAIN kept : day.loaded[p] = HoursOf(p)
  /\ day.from = request.from /\ day.until = request.until
  /\ day.required = request.required /\ day.wants = request.wants

SearchInv ==
  /\ stage \in {"idle", "legs", "search", "found"} /\ todo \in Seq(Range(Strategies)) /\ Typed
  /\ stage \in {"idle", "legs"} => partial = {} /\ \A s \in Range(Strategies) : solutions[s] = {}
  /\ stage # "idle" => DayIsAsked
  /\ stage # "found" => orders = NoOrders
  /\ solutions = [s \in Range(Strategies) |-> solutions[s]]
  /\ \A s \in Range(Strategies) : \A x \in solutions[s] : Solved(s, x.order)
  /\ todo # <<>> => \A x \in partial : Sound(Head(todo), x)
  /\ Proposals

--------------------------------------------------------------------------------
\* Rides arrive at minutes.
LEMMA RidesAreTyped ==
  ASSUME NEW A, NEW B, NEW r \in RidesBetween(A, B)
  PROVE  r.arrives \in Nat
<1>1. PICK a \in A, b \in B : r \in AllRides(a, b)
  BY DEF RidesBetween
<1>2. PICK t \in Trips : r \in RidesOf(t, a, b)
  BY <1>1 DEF AllRides
<1>3. PICK i, j \in DOMAIN CallsOf[t] : r.arrives = CallsOf[t][j].arrives
  BY <1>2 DEF RidesOf
<1>4. CallsOf[t] \in Seq(Call)
  BY TimetableAssumption
<1>5. CallsOf[t][j] \in Call
  BY <1>3, <1>4
<1> QED
  BY <1>3, <1>5 DEF Call

\* So do the rows that are made of them.
LEMMA RowsAreTyped ==
  ASSUME NEW r \in DirectRows \cup TransferRows
  PROVE  r.arrives \in Nat
<1>1. CASE r \in DirectRows
  <2>1. PICK x \in RidesBetween(EndpointStops, EndpointStops) :
          r = Row(<<x.trip>>, x.from, x.to, x.departs, x.arrives, 0)
    BY <1>1 DEF DirectRows
  <2> QED
    BY <2>1, RidesAreTyped DEF Row
<1>2. CASE r \in TransferRows
  <2> DEFINE first == {q \in RidesBetween(EndpointStops, {n[1] : n \in DOMAIN Neighbors}) :
                         q.departs \in day.from..Latest}
             second == RidesBetween({n[2] : n \in DOMAIN Neighbors}, EndpointStops)
             Ready(q, n) == q.arrives + MinutesToWalk(Neighbors[n]) + TransferBuffer
             rows0 == {Row(<<x[1].trip, x[2].trip>>, x[1].from, x[2].to, x[1].departs, x[2].arrives, 1) :
                 x \in {y \in first \X second :
                          /\ <<y[1].to, y[2].from>> \in DOMAIN Neighbors
                          /\ y[2].departs - Ready(y[1], <<y[1].to, y[2].from>>) \in 0..day.maxWait
                          /\ y[1].trip # y[2].trip
                          /\ NumberOf[y[1].trip] # NumberOf[y[2].trip]
                          /\ y[2].arrives <= Latest}}
  <2>1. r \in rows0
    <3> HIDE DEF Ready, first, second
    <3> QED
      BY <1>2, Zenon DEF TransferRows, Ready, first, second
  <2>2. PICK x \in first \X second :
          r = Row(<<x[1].trip, x[2].trip>>, x[1].from, x[2].to, x[1].departs, x[2].arrives, 1)
    <3> HIDE DEF first, second, Ready
    <3> QED
      BY <2>1
  <2>3. x[2] \in second
    <3> HIDE DEF first, second
    <3> QED
      BY <2>2
  <2>4. r.arrives = x[2].arrives
    <3> HIDE DEF first, second, Ready
    <3> QED
      BY <2>2, SMTT(30) DEF Row
  <2>5. x[2].arrives \in Nat
    <3>1. x[2] \in RidesBetween({n[2] : n \in DOMAIN Neighbors}, EndpointStops)
      BY <2>3
    <3> HIDE DEF first, second, Ready
    <3> QED
      BY <3>1, RidesAreTyped, Zenon
  <2> QED
    <3> HIDE DEF first, second, Ready
    <3> QED
      BY <2>4, <2>5, SMTT(30)
<1> QED
  BY <1>1, <1>2

\* Walks to stops take some time.
LEMMA WalksAreTyped ==
  ASSUME NEW q \in DOMAIN StopsNear, NEW k \in DOMAIN StopsNear[q]
  PROVE  StopsNear[q][k] \in Nat
<1>1. \A x \in DOMAIN StopsNear : Range(StopsNear[x]) \subseteq 0..2500
  <2>1. \A x \in DOMAIN StopsNear : DOMAIN StopsNear[x] \subseteq Stops
                                     /\ Range(StopsNear[x]) \subseteq 0..2500
    BY OrderSearchAssumption, Zenon
  <2> QED
    BY <2>1
<1>2. Range(StopsNear[q]) \subseteq 0..2500
  BY <1>1
<1>3. StopsNear[q][k] \in Range(StopsNear[q])
  BY DEF Range
<1>4. StopsNear[q][k] \in 0..2500
  BY <1>2, <1>3
<1> DEFINE walk == StopsNear[q][k]
<1>5. walk \in 0..2500
  BY <1>4
<1>6. walk \in Nat
  <2> HIDE DEF walk
  <2> QED
    BY <1>5, SMTT(30)
<1> QED
  BY <1>6

\* So do the legs between places.
LEMMA LegsAreTyped ==
  ASSUME Loaded \subseteq Places, NEW l \in LegsFound
  PROVE  l.row.arrives \in Nat /\ l.egress \in Nat
<1> DEFINE bus == DirectRows \cup (IF day.transfers >= 1 THEN TransferRows ELSE {})
           ends == Loaded \cup {Hotel}
<1>1. \E p \in ends \X ends, r \in bus :
        /\ r.to \in DOMAIN StopsNear[p[2]]
        /\ l = [origin |-> p[1], destination |-> p[2], row |-> r,
                access |-> StopsNear[p[1]][r.from], egress |-> StopsNear[p[2]][r.to]]
  <2> HIDE DEF bus
  <2> QED
    BY DEF LegsFound, bus
<1>2. PICK p \in ends \X ends, r \in bus :
        /\ r.to \in DOMAIN StopsNear[p[2]]
        /\ l.row = r /\ l.egress = StopsNear[p[2]][r.to]
  <2> HIDE DEF bus, ends
  <2> QED
    BY <1>1
<1>3. r.arrives \in Nat
  BY RowsAreTyped
<1>4. p[2] \in DOMAIN StopsNear
  BY OrderSearchAssumption
<1>5. l.egress \in Nat
  <2>1. StopsNear[p[2]][r.to] \in Nat
    BY <1>2, <1>4, WalksAreTyped
  <2> QED
    BY <1>2, <2>1
<1> QED
  BY <1>2, <1>3, <1>5

\* Nothing that these say changes with the statements and the search.
LEMMA StillSound ==
  ASSUME UNCHANGED <<day, legs, kept>>
  PROVE  /\ \A s, order, minutes, end :
              Followed(s, order, minutes, end)' <=> Followed(s, order, minutes, end)
         /\ \A s, order : Solved(s, order)' <=> Solved(s, order)
         /\ short' = short => \A s, x : Sound(s, x)' <=> Sound(s, x)
<1>1. \A l, at : Catches(l, at)' <=> Catches(l, at)
  BY DEF Catches
<1>2. \A from, to, at : Arrivals(from, to, at)' = Arrivals(from, to, at)
  BY <1>1 DEF Arrivals
<1>3. \A s, p, a : Begins(s, p, a)' = Begins(s, p, a)
  BY DEF Begins
<1>4. \A p, b, e : CanStay(p, b, e)' <=> CanStay(p, b, e)
  BY DEF CanStay
<1>5. \A s, from, p, times, minutes :
        EndsOfStay(s, from, p, times, minutes)' = EndsOfStay(s, from, p, times, minutes)
  BY <1>2, <1>3, <1>4 DEF EndsOfStay
<1>6. \A s, order, minutes, t : Timed(s, order, minutes, t)' <=> Timed(s, order, minutes, t)
  BY <1>5, ZenonT(60) DEF Timed
<1>7. \A s, order, minutes, end :
        Followed(s, order, minutes, end)' <=> Followed(s, order, minutes, end)
  BY <1>6 DEF Followed
<1>8. /\ Shorter' = Shorter /\ Loaded' = Loaded /\ RequiredVisits' = RequiredVisits
      /\ \A s, role : Wanted(s, role)' = Wanted(s, role)
  BY DEF Shorter, Loaded, RequiredVisits, Wanted
<1>9. \A s, order : Solved(s, order)' <=> Solved(s, order)
  BY <1>2, <1>7, <1>8 DEF Solved
<1>10. short' = short => \A s, x : Sound(s, x)' <=> Sound(s, x)
  BY <1>7, <1>8 DEF Sound, StaysOf
<1> QED
  BY <1>7, <1>9, <1>10

\* What the search knows of the places that were loaded.
LEMMA LoadedIsKnown ==
  ASSUME KeptInv, DayIsAsked
  PROVE  Loaded \subseteq Places /\ \A p \in Loaded : Known(p)
<1>1. Loaded = DOMAIN kept /\ \A p \in Loaded : Served(p) /\ day.loaded[p] = HoursOf(p)
  BY DEF KeptInv, DayIsAsked
<1>2. ASSUME NEW p \in Loaded PROVE kept[p] \in SUBSET HourWindow
  <2>1. p \in Places /\ RowsAreRead /\ kept[p] = Windows(p)
    BY <1>1 DEF Served
  <2>2. /\ Breaks(p) \in SUBSET Rule /\ IsFiniteSet(Breaks(p))
        /\ Uncut(p) \in SUBSET HourWindow /\ Windows(p) = Subtract(Uncut(p), Breaks(p))
    BY <2>1, RulesOfPlace
  <2>3. Subtract(Uncut(p), Breaks(p)) \in SUBSET HourWindow
    BY <2>2, SubtractedHours
  <2> QED
    BY <2>1, <2>2, <2>3
<1> QED
  BY <1>1, <1>2 DEF Served, Known

\* The stay of a place in this round of the search.
LEMMA StaysAreMinutes ==
  ASSUME NEW p \in Places
  PROVE  StaysOf[p] \in Nat /\ Stay(p) = StaysOf[p]
BY OrderSearchAssumption DEF StaysOf, Shorter, Stay

\* A partial order stays sound when a place is added.
LEMMA ExtendedIsSound ==
  ASSUME Loaded \subseteq Places, Typed, NEW s \in Range(Strategies), NEW x, Sound(s, x),
         NEW p \in Loaded, Known(p), p \notin Range(x.order),
         Count(x.order, RoleOf[p]) < Wanted(s, RoleOf[p]), NEW y \in Extended(s, x, p)
  PROVE  Sound(s, y)
<1> DEFINE a == NextArrival(LastPlace(x.order), p, x.ends)
           b == Begins(s, p, a)
           e == b + StaysOf[p]
<1>1. x.order \in Seq(Loaded) /\ x.order \in Seq(Places) /\ x.ends \in Nat /\ IsInjective(x.order)
  BY DEF Sound
<1>2. /\ p \in Places /\ StaysOf[p] \in Nat /\ Stay(p) = StaysOf[p]
  BY StaysAreMinutes
<1>3. a # NoTime /\ Admits(p, b, e) /\ y.order = Append(x.order, p) /\ y.ends = e
  BY <1>2 DEF Extended
<1>4. a \in Arrivals(LastPlace(x.order), p, x.ends) /\ a \in Nat
  BY <1>3, ArrivalsAreMinutes
<1>5. b \in Nat
  <2>1. day.loaded[p].opens \in Nat \cup {NoTime}
    <3>1. day.loaded[p] = HoursOf(p) /\ kept[p] \in SUBSET HourWindow
      BY DEF Known
    <3>2. CASE kept[p] = {}
      BY <3>1, <3>2, HoursAreAWindow
    <3>3. CASE kept[p] # {}
      BY <3>1, <3>3, HoursAreAWindow DEF HourWindow
    <3> QED
      BY <3>2, <3>3
  <2> QED
    BY <1>4, <2>1, BeginsInHours
<1>6. e \in Nat
  BY <1>2, <1>5
<1> HIDE DEF e
<1>7. CanStay(p, b, e)
  BY <1>3, <1>4, <1>6, AdmittedStay
<1>8. e - StaysOf[p] = b
  BY <1>2, <1>5 DEF e
<1>9. e \in EndsOfStay(s, LastPlace(x.order), p, {x.ends}, StaysOf)
  <2>1. a \in UNION {Arrivals(LastPlace(x.order), p, t) : t \in {x.ends}}
    BY <1>4
  <2>2. e = Begins(s, p, a) + StaysOf[p]
    BY DEF e
  <2>3. CanStay(p, e - StaysOf[p], e)
    BY <1>7, <1>8
  <2> HIDE DEF a, b
  <2> QED
    BY <2>1, <2>2, <2>3 DEF EndsOfStay
<1>10. PICK t : Timed(s, x.order, StaysOf, t) /\ t[Len(x.order)] = x.ends
  BY DEF Sound, Followed
<1>11. Followed(s, y.order, StaysOf, y.ends)
  <2>1. \E u : Timed(s, Append(x.order, p), StaysOf, u) /\ u[Len(Append(x.order, p))] = e
    BY <1>1, <1>2, <1>6, <1>9, <1>10, TimedAppend
  <2> QED
    BY <1>3, <2>1 DEF Followed
<1>12. y.order \in Seq(Loaded)
  BY <1>1, <1>3
<1>13. IsInjective(y.order)
  BY <1>1, <1>2, <1>3, InjectiveAppend
<1>14. ASSUME NEW role \in Roles PROVE Count(y.order, role) <= Wanted(s, role)
  <2>1. Count(y.order, role) = Count(x.order, role) + (IF RoleOf[p] = role THEN 1 ELSE 0)
    BY <1>1, <1>2, <1>3, CountAppend
  <2>2. Count(x.order, role) \in Nat /\ Wanted(s, role) \in Nat /\ Count(x.order, role) <= Wanted(s, role)
    BY <1>1, CountIsNat, WantedIsNat DEF Sound
  <2>3. CASE RoleOf[p] = role
    BY <2>1, <2>2, <2>3
  <2>4. CASE RoleOf[p] # role
    BY <2>1, <2>2, <2>4
  <2> QED
    BY <2>3, <2>4
<1> QED
  BY <1>3, <1>6, <1>11, <1>12, <1>13, <1>14 DEF Sound

\* A whole order that returns in time solves the day.
LEMMA CollectedSolves ==
  ASSUME Loaded \subseteq Places, Typed, day.until \in Nat,
         NEW s \in Range(Strategies), NEW x, Sound(s, x), Len(x.order) = Whole(s), NEW y \in Returns(x)
  PROVE  Solved(s, y.order)
<1> DEFINE back == NextArrival(LastPlace(x.order), Hotel, x.ends)
<1>1. /\ day.required \subseteq Range(x.order) /\ back # NoTime /\ ~(back > day.until)
      /\ y.order = x.order /\ y.returns = back
  BY DEF Returns
<1>2. back \in Arrivals(LastPlace(x.order), Hotel, x.ends)
  BY <1>1, ArrivalsAreMinutes
<1>3. x.order \in Seq(Loaded) /\ x.order \in Seq(Places)
  BY DEF Sound
<1>4. \A role \in Roles : Count(x.order, role) = Wanted(s, role)
  BY <1>3, WholeIsFull DEF Sound
<1>5. StaysOf \in {StayOf, Shorter} /\ Followed(s, x.order, StaysOf, x.ends)
  BY DEF StaysOf, Sound
<1>6. back <= day.until
  <2>1. back \in Nat
    BY <1>2, ArrivalsAreMinutes
  <2> HIDE DEF back
  <2> QED
    BY <1>1, <2>1
<1> HIDE DEF back
<1> QED
  BY <1>1, <1>2, <1>3, <1>4, <1>5, <1>6 DEF Solved, Sound

\* The search has not begun.
LEMMA SearchInits ==
  ASSUME Init
  PROVE  SearchInv
<1>1. /\ stage = "idle" /\ todo = Strategies /\ legs = {} /\ partial = {} /\ orders = NoOrders
      /\ solutions = [s \in Range(Strategies) |-> {}]
  BY DEF Init, SearchInit
<1>2. todo \in Seq(Range(Strategies))
  BY <1>1, StrategyNames DEF Strategies
<1>3. \A s \in Range(Strategies) : solutions[s] = {}
  BY <1>1
<1>4. solutions = [s \in Range(Strategies) |-> solutions[s]]
  BY <1>1, <1>3
<1> QED
  BY <1>1, <1>2, <1>3, <1>4 DEF SearchInv, Typed, Proposals

\* Before the search nothing has been found.
LEMMA BeforeSearch ==
  ASSUME SearchInv, stage = "idle", UNCHANGED searchVars
  PROVE  SearchInv'
BY DEF SearchInv, searchVars, Typed, Proposals

\* The search begins with what was loaded and asked for.
LEMMA SearchStarts ==
  ASSUME SearchInv, StartSearch
  PROVE  SearchInv'
<1>1. /\ stage = "idle" /\ stage' = "legs" /\ step = "ends" /\ pending = <<>>
      /\ UNCHANGED gatewayVars /\ UNCHANGED <<legs, todo, short, partial, solutions, orders>>
  BY DEF StartSearch
<1>2. /\ day'.loaded = [p \in DOMAIN kept |-> HoursOf(p)]
      /\ day'.from = request.from /\ day'.until = request.until
      /\ day'.required = request.required /\ day'.wants = request.wants
  BY DEF StartSearch
<1>3. /\ step' = step /\ pending' = pending /\ kept' = kept /\ request' = request
      /\ \A p : HoursOf(p)' = HoursOf(p)
  BY <1>1 DEF gatewayVars, HoursOf
<1>4. DayIsAsked'
  BY <1>1, <1>2, <1>3 DEF DayIsAsked, Loaded
<1> QED
  BY <1>1, <1>4 DEF SearchInv, Typed, Proposals

\* A step of the search that leaves the day as it is.
LEMMA DayStaysAsked ==
  ASSUME DayIsAsked, UNCHANGED <<day, kept, request, pending>>, step' \in {"ends", "answered"}
  PROVE  DayIsAsked'
<1>1. \A p : HoursOf(p)' = HoursOf(p)
  BY DEF HoursOf
<1> QED
  BY <1>1 DEF DayIsAsked, Loaded

\* The empty order is where the search begins.
LEMMA NothingIsSound ==
  ASSUME KeptInv, DayIsAsked, NEW s \in Range(Strategies), day' = day, kept' = kept
  PROVE  Sound(s, [Nothing EXCEPT !.ends = day.from])'
<1> DEFINE x == [Nothing EXCEPT !.ends = day.from]
<1>1. x.order = <<>> /\ x.ends = day.from /\ x' = x
  BY DEF Nothing
<1>2. day.from \in Nat
  BY GatewayAssumption DEF KeptInv, DayIsAsked, Request
<1>3. Loaded \subseteq Places /\ Loaded' = Loaded
  BY LoadedIsKnown DEF Loaded
<1>4. ASSUME NEW role PROVE Count(<<>>, role) <= Wanted(s, role)' /\ Count(<<>>, role) = 0
  <2>1. {i \in DOMAIN <<>> : RoleOf[<<>>[i]] = role} = {}
    OBVIOUS
  <2>2. Count(<<>>, role) = 0
    BY <2>1, FS_EmptySet DEF Count
  <2>3. Wanted(s, role)' = Wanted(s, role)
    BY DEF Wanted, RequiredVisits, Loaded
  <2>4. Wanted(s, role) \in Nat
    BY <1>3, WantedIsNat
  <2> QED
    BY <2>2, <2>3, <2>4
<1>5. Followed(s, <<>>, StaysOf, day.from)'
  <2> DEFINE t == [i \in 0..0 |-> day.from]
  <2>1. Len(<<>>) = 0 /\ t[0] = day.from /\ t \in [0..0 -> Nat]
    BY <1>2
  <2>2. \E u \in [0..0 -> Nat] : u[0] = day.from
    BY <2>1
  <2> QED
    BY <2>1, <2>2 DEF Followed, Timed
<1>6. IsInjective(<<>>) /\ <<>> \in Seq(Loaded)
  BY DEF IsInjective
<1> HIDE DEF x
<1> QED
  BY <1>1, <1>2, <1>3, <1>4, <1>5, <1>6 DEF Sound, x

\* The rides are read, and the search begins with the empty order.
LEMMA LegsStep ==
  ASSUME KeptInv, SearchInv, ReadLegs, UNCHANGED gatewayVars
  PROVE  SearchInv'
<1>1. /\ stage = "legs" /\ stage' = "search" /\ legs' = LegsFound
      /\ partial' = {[Nothing EXCEPT !.ends = day.from]}
      /\ UNCHANGED <<day, todo, short, solutions, orders>>
      /\ UNCHANGED <<step, kept, request, pending>>
  BY DEF ReadLegs, gatewayVars
<1>2. DayIsAsked /\ orders = NoOrders /\ \A s \in Range(Strategies) : solutions[s] = {}
  BY <1>1 DEF SearchInv
<1>3. DayIsAsked'
  BY <1>1, <1>2, DayStaysAsked DEF DayIsAsked
<1>4. Typed'
  <2>1. Loaded \subseteq Places
    BY <1>2, LoadedIsKnown
  <2> QED
    BY <1>1, <2>1, LegsAreTyped DEF Typed
<1>5. \A s \in Range(Strategies) : Sound(s, [Nothing EXCEPT !.ends = day.from])'
  BY <1>1, <1>2, NothingIsSound
<1>6. todo' # <<>> => Head(todo') \in Range(Strategies)
  BY <1>1 DEF SearchInv
<1>7. todo' # <<>> => \A x \in partial' : Sound(Head(todo), x)'
  BY <1>1, <1>5, <1>6
<1>8. /\ stage' \in {"idle", "legs", "search", "found"} /\ todo' \in Seq(Range(Strategies))
      /\ solutions' = [s \in Range(Strategies) |-> solutions'[s]]
  BY <1>1, SMTT(30) DEF SearchInv
<1>9. orders' = NoOrders /\ \A s \in Range(Strategies) : solutions'[s] = {}
  BY <1>1, <1>2
<1>10. Proposals'
  BY <1>9, SMTT(30) DEF Proposals
<1> QED
  BY <1>1, <1>3, <1>4, <1>7, <1>8, <1>9, <1>10, SMTT(30) DEF SearchInv

\* Partial orders grow by one place.
LEMMA ExtendStep ==
  ASSUME KeptInv, SearchInv, Extend, UNCHANGED gatewayVars
  PROVE  SearchInv'
<1> DEFINE s == Head(todo)
           S == UNION {Extended(s, x[1], x[2]) :
                  x \in {y \in partial \X Loaded :
                    /\ y[2] \notin Range(y[1].order)
                    /\ Count(y[1].order, RoleOf[y[2]]) < Wanted(s, RoleOf[y[2]])}}
<1>1. /\ stage = "search" /\ todo # <<>> /\ partial' = Kept(S)
      /\ UNCHANGED <<day, stage, legs, todo, short, solutions, orders>>
      /\ UNCHANGED <<step, kept, request, pending>>
  BY Zenon DEF Extend, gatewayVars
<1>2. DayIsAsked /\ Typed /\ s \in Range(Strategies) /\ \A x \in partial : Sound(s, x)
  BY <1>1 DEF SearchInv
<1>3. Loaded \subseteq Places /\ \A p \in Loaded : Known(p)
  BY <1>2, LoadedIsKnown
<1>4. \A y \in S : Sound(s, y)
  <2> SUFFICES ASSUME NEW x \in partial, NEW p \in Loaded, p \notin Range(x.order),
                      Count(x.order, RoleOf[p]) < Wanted(s, RoleOf[p]),
                      NEW y \in Extended(s, x, p)
               PROVE  Sound(s, y)
    <3> HIDE DEF s
    <3> QED
      OBVIOUS
  <2> HIDE DEF s
  <2> QED
    BY <1>2, <1>3, ExtendedIsSound
<1>5. Kept(S) \subseteq S
  BY Zenon DEF Kept
<1> HIDE DEF S
<1>6. \A x \in partial' : Sound(s, x)
  BY <1>1, <1>4, <1>5
<1>7. \A x \in partial' : Sound(Head(todo), x)'
  <2>1. \A r, x : Sound(r, x)' <=> Sound(r, x)
    BY <1>1, StillSound
  <2> QED
    BY <1>1, <1>6, <2>1
<1>8. DayIsAsked'
  BY <1>1, <1>2, DayStaysAsked DEF DayIsAsked
<1>9. \A r, order : Solved(r, order)' <=> Solved(r, order)
  BY <1>1, StillSound
<1>10. \A r \in Range(Strategies) : \A x \in solutions'[r] : Solved(r, x.order)'
  BY <1>1, <1>9 DEF SearchInv
<1> QED
  BY <1>1, <1>7, <1>8, <1>10 DEF SearchInv, Typed, Proposals, Proposal, RelaxedPrefix

\* The whole orders of a strategy are collected, or its search is repeated.
LEMMA CloseStep ==
  ASSUME KeptInv, SearchInv, CloseStrategy, UNCHANGED gatewayVars
  PROVE  SearchInv'
<1> DEFINE s == Head(todo)
<1>1. /\ stage = "search" /\ todo # <<>> /\ \A x \in partial : Len(x.order) = Whole(s)
      /\ partial' = {[Nothing EXCEPT !.ends = day.from]}
      /\ UNCHANGED <<day, stage, legs, orders>> /\ UNCHANGED <<step, kept, request, pending>>
      /\ \/ UNCHANGED <<todo, solutions>>
         \/ solutions' = [solutions EXCEPT ![s] = Collected] /\ todo' = Tail(todo)
  BY DEF CloseStrategy, Again, gatewayVars
<1>2. DayIsAsked /\ Typed /\ s \in Range(Strategies) /\ \A x \in partial : Sound(s, x)
  BY <1>1 DEF SearchInv
<1>3. todo' \in Seq(Range(Strategies))
  BY <1>1, SMTT(30) DEF SearchInv
<1>4. \A y \in Collected : Solved(s, y.order)
  <2>1. Loaded \subseteq Places
    BY <1>2, LoadedIsKnown
  <2>2. day.until \in Nat
    BY <1>2, GatewayAssumption DEF KeptInv, DayIsAsked, Request
  <2> HIDE DEF s
  <2>3. ASSUME NEW x \in partial, NEW y \in Returns(x) PROVE Solved(s, y.order)
    BY <1>1, <1>2, <2>1, <2>2, CollectedSolves
  <2> QED
    BY <2>3 DEF Collected
<1>5. \A r \in Range(Strategies) : \A x \in solutions'[r] : Solved(r, x.order)
  BY <1>1, <1>4 DEF SearchInv
<1>6. \A r, order : Solved(r, order)' <=> Solved(r, order)
  BY <1>1, StillSound
<1>7. \A r \in Range(Strategies) : \A x \in solutions'[r] : Solved(r, x.order)'
  BY <1>5, <1>6
<1>8. solutions' = [r \in Range(Strategies) |-> solutions'[r]]
  BY <1>1 DEF SearchInv
<1>9. todo' # <<>> => \A x \in partial' : Sound(Head(todo), x)'
  <2> SUFFICES ASSUME todo' # <<>> PROVE \A x \in partial' : Sound(Head(todo), x)'
    OBVIOUS
  <2>1. PICK r \in Range(Strategies) : r = Head(todo')
    BY <1>3
  <2>2. Sound(r, [Nothing EXCEPT !.ends = day.from])'
    BY <1>1, <1>2, NothingIsSound
  <2>3. \A x \in partial' : Sound(r, x)'
    BY <1>1, <2>2
  <2> QED
    BY <2>1, <2>3
<1>10. DayIsAsked'
  BY <1>1, <1>2, DayStaysAsked DEF DayIsAsked
<1> QED
  BY <1>1, <1>3, <1>7, <1>8, <1>9, <1>10 DEF SearchInv, Typed, Proposals

\* What was proposed does not change with the statements and the search.
LEMMA StillProposed ==
  ASSUME Proposals, UNCHANGED <<day, solutions, orders>>
  PROVE  Proposals'
<1>1. CASE orders = NoOrders
  BY <1>1 DEF Proposals
<1>2. CASE orders # NoOrders
  <2>1. PICK b \in solutions["balanced"], e \in solutions["experience_max"] :
          /\ Proposal(orders["balanced"], "balanced", b.order)
          /\ Proposal(orders["relaxed"], "relaxed", RelaxedPrefix(b.order))
          /\ Proposal(orders["experience_max"], "experience_max", e.order)
    BY <1>2 DEF Proposals
  <2>2. PICK f, r : f = orders /\ r = RelaxedPrefix(b.order)
    OBVIOUS
  <2>3. RelaxedPrefix(b.order)' = r
    <3>1. RelaxedPrefix(b.order)' = RelaxedPrefix(b.order)
      BY DEF RelaxedPrefix, RequiredVisits, Loaded
    <3> QED
      BY <2>2, <3>1
  <2>4. \A offered, s, primary : Proposal(offered, s, primary) => Proposal(offered, s, primary)'
    BY DEF Proposal
  <2>5. /\ Proposal(f["balanced"], "balanced", b.order)'
        /\ Proposal(f["relaxed"], "relaxed", r)'
        /\ Proposal(f["experience_max"], "experience_max", e.order)'
    BY <2>1, <2>2, <2>4
  <2>6. b \in solutions'["balanced"] /\ e \in solutions'["experience_max"] /\ orders' = f
    BY <2>2
  <2> QED
    BY <2>3, <2>5, <2>6 DEF Proposals
<1> QED
  BY <1>1, <1>2

\* Proposed adds a fallback only from the orders that were found.
LEMMA ProposedOrders ==
  ASSUME NEW s, NEW primary
  PROVE  Proposal(Proposed(s, primary), s, primary)
<1>1. CASE Fallback(s, primary) = {}
  <2>1. Proposed(s, primary) = <<primary>>
    BY <1>1, Zenon DEF Proposed
  <2> QED
    BY <2>1 DEF Proposal
<1>2. CASE Fallback(s, primary) # {}
  <2> DEFINE o == CHOOSE x \in Fallback(s, primary) : TRUE
  <2>1. o \in Fallback(s, primary) /\ Proposed(s, primary) = <<primary, o>>
    BY <1>2 DEF Proposed
  <2> HIDE DEF o
  <2>2. PICK x \in solutions[s] : o = x.order
    BY <2>1 DEF Fallback
  <2> QED
    BY <2>1, <2>2 DEF Proposal
<1> QED
  BY <1>1, <1>2

\* The orders are chosen among those that were found.
LEMMA ChooseStep ==
  ASSUME SearchInv, ChooseOrders, UNCHANGED gatewayVars
  PROVE  SearchInv'
<1>1. /\ stage = "search" /\ stage' = "found"
      /\ UNCHANGED <<day, legs, todo, short, partial, solutions>>
      /\ UNCHANGED <<step, kept, request, pending>>
  BY DEF ChooseOrders, gatewayVars
<1>2. DayIsAsked
  BY <1>1 DEF SearchInv
<1>3. DayIsAsked'
  BY <1>1, <1>2, DayStaysAsked DEF DayIsAsked
<1>4. \A r, order : (Solved(r, order)' <=> Solved(r, order)) /\ (Sound(r, order)' <=> Sound(r, order))
  BY <1>1, StillSound
<1>5. Proposals'
  <2>1. CASE orders' = NoOrders
    BY <2>1 DEF Proposals
  <2>2. CASE orders' # NoOrders
    <3> DEFINE c == CHOOSE x \in Chosen : TRUE
    <3>1. /\ Chosen # {}
          /\ orders' = [balanced |-> Proposed("balanced", c[1].order),
                        relaxed |-> Proposed("relaxed", RelaxedPrefix(c[1].order)),
                        experience_max |-> Proposed("experience_max", c[3].order)]
      BY <2>2, Zenon DEF ChooseOrders
    <3>2. c \in Chosen
      BY <3>1
    <3>3. Chosen \subseteq Triples
      BY Zenon DEF Chosen
    <3> HIDE DEF c
    <3>4. c[1] \in solutions["balanced"] /\ c[3] \in solutions["experience_max"]
      BY <3>2, <3>3 DEF Triples
    <3> DEFINE b == c[1]
               e == c[3]
    <3>5. b \in solutions["balanced"] /\ e \in solutions["experience_max"]
      BY <3>4
    <3>6. /\ orders'["balanced"] = Proposed("balanced", b.order)
          /\ orders'["relaxed"] = Proposed("relaxed", RelaxedPrefix(b.order))
          /\ orders'["experience_max"] = Proposed("experience_max", e.order)
      BY <3>1
    <3> HIDE DEF b, e
    <3>7. PICK b0, e0, r0 : b0 = b /\ e0 = e /\ r0 = RelaxedPrefix(b.order)
      OBVIOUS
    <3>8. RelaxedPrefix(b0.order)' = r0
      <4>1. RelaxedPrefix(b0.order)' = RelaxedPrefix(b0.order)
        BY <1>1 DEF RelaxedPrefix, RequiredVisits, Loaded
      <4> QED
        BY <3>7, <4>1
    <3>9. \A offered, s, primary : Proposal(offered, s, primary) => Proposal(offered, s, primary)'
      BY <1>1 DEF Proposal
    <3>10. /\ Proposal(orders'["balanced"], "balanced", b0.order)
           /\ Proposal(orders'["relaxed"], "relaxed", r0)
           /\ Proposal(orders'["experience_max"], "experience_max", e0.order)
      BY <3>6, <3>7, ProposedOrders
    <3>11. PICK f : f = orders'
      OBVIOUS
    <3>12. /\ Proposal(f["balanced"], "balanced", b0.order)'
           /\ Proposal(f["relaxed"], "relaxed", r0)'
           /\ Proposal(f["experience_max"], "experience_max", e0.order)'
      BY <3>9, <3>10, <3>11
    <3>13. /\ b0 \in solutions'["balanced"] /\ e0 \in solutions'["experience_max"]
      BY <1>1, <3>5, <3>7
    <3> QED
      BY <3>8, <3>11, <3>12, <3>13 DEF Proposals
  <2> QED
    BY <2>1, <2>2
<1> QED
  BY <1>1, <1>3, <1>4, <1>5 DEF SearchInv, Typed

\* The answer leaves the search as it is.
LEMMA AnswerStep ==
  ASSUME SearchInv, Answer
  PROVE  SearchInv'
<1>1. /\ stage = "found" /\ step' = "answered"
      /\ UNCHANGED <<request, pending, kept>>
      /\ UNCHANGED <<day, stage, legs, todo, short, partial, solutions, orders>>
  BY DEF Answer, searchVars
<1>2. DayIsAsked'
  BY <1>1, DayStaysAsked DEF SearchInv
<1>3. \A r, order : (Solved(r, order)' <=> Solved(r, order)) /\ (Sound(r, order)' <=> Sound(r, order))
  BY <1>1, StillSound
<1>4. Proposals'
  <2>1. Proposals
    BY DEF SearchInv
  <2> QED
    BY <1>1, <2>1, StillProposed
<1> QED
  BY <1>1, <1>2, <1>3, <1>4 DEF SearchInv, Typed

\* Nothing happens.
LEMMA SearchRests ==
  ASSUME SearchInv, UNCHANGED vars
  PROVE  SearchInv'
<1>1. UNCHANGED <<request, step, pending, kept, day, stage, legs, todo, short, partial, solutions, orders>>
  BY DEF vars, gatewayVars, searchVars
<1>2. stage # "idle" => DayIsAsked'
  BY <1>1, DayStaysAsked DEF SearchInv, DayIsAsked
<1>3. \A r, order : (Solved(r, order)' <=> Solved(r, order)) /\ (Sound(r, order)' <=> Sound(r, order))
  BY <1>1, StillSound
<1>4. Proposals'
  BY <1>1, StillProposed DEF SearchInv
<1> QED
  BY <1>1, <1>2, <1>3, <1>4 DEF SearchInv, Typed

\* Every step of the gateway keeps what the search relies on.
LEMMA SearchSteps ==
  ASSUME KeptInv, SearchInv, [Next]_vars
  PROVE  SearchInv'
<1>1. stage # "idle" => step \in {"ends", "answered"} /\ pending = <<>>
  BY DEF SearchInv, DayIsAsked
<1>2. CASE UNCHANGED vars
  BY <1>2, SearchRests
<1>3. ASSUME NEW s \in Sources, Activate(s) PROVE SearchInv'
  BY <1>3, BeforeSearch DEF Activate
<1>4. CASE Resolve
  BY <1>1, <1>4, BeforeSearch DEF Resolve
<1>5. CASE Discover
  BY <1>1, <1>5, BeforeSearch DEF Discover
<1>6. CASE ReadPlaces \/ ReadRules \/ ReadExceptions \/ ReadEntrances
  BY <1>1, <1>6, BeforeSearch DEF ReadPlaces, ReadRules, ReadExceptions, ReadEntrances, Read
<1>7. CASE LoadPlace
  BY <1>1, <1>7, BeforeSearch DEF LoadPlace
<1>8. CASE AddFact
  BY <1>1, <1>8, BeforeSearch DEF AddFact
<1>9. CASE CheckDiet
  BY <1>1, <1>9, BeforeSearch DEF CheckDiet
<1>10. CASE LoadEnds
  <2>1. step = "load" /\ UNCHANGED searchVars
    BY <1>10, Zenon DEF LoadEnds
  <2> QED
    BY <1>1, <2>1, BeforeSearch
<1>11. CASE StartSearch
  BY <1>11, SearchStarts
<1>12. CASE Search
  <2>1. UNCHANGED gatewayVars /\ SearchNext
    BY <1>12 DEF Search
  <2>2. CASE ReadLegs
    BY <2>1, <2>2, LegsStep
  <2>3. CASE Extend
    BY <2>1, <2>3, ExtendStep
  <2>4. CASE CloseStrategy
    BY <2>1, <2>4, CloseStep
  <2>5. CASE ChooseOrders
    BY <2>1, <2>5, ChooseStep
  <2> QED
    BY <2>1, <2>2, <2>3, <2>4, <2>5 DEF SearchNext
<1>13. CASE Answer
  BY <1>13, AnswerStep
<1> QED
  BY <1>2, <1>3, <1>4, <1>5, <1>6, <1>7, <1>8, <1>9, <1>10, <1>11, <1>12, <1>13 DEF Next

\* What is offered is the primary order and orders of the search.
LEMMA OfferedOrders ==
  ASSUME NEW offered, NEW s, NEW primary, Proposal(offered, s, primary)
  PROVE  /\ offered # <<>> /\ offered[1] = primary
         /\ \A i \in DOMAIN offered : i # 1 => \E x \in solutions[s] : offered[i] = x.order
<1>1. CASE offered = <<primary>>
  BY <1>1
<1>2. CASE \E x \in solutions[s] : offered = <<primary, x.order>>
  <2>1. PICK x \in solutions[s] : offered = <<primary, x.order>>
    BY <1>2
  <2>2. DOMAIN offered = 1..2 /\ offered[2] = x.order
    BY <2>1
  <2> QED
    BY <2>1, <2>2
<1> QED
  BY <1>1, <1>2 DEF Proposal

\* Who keeps to the times of an order that was found can ride it.
LEMMA SolvedCanBeRidden ==
  ASSUME NEW s, NEW order, Solved(s, order)
  PROVE  \E minutes \in {StayOf, Shorter} : CanBeRidden(s, order, minutes)
<1>1. PICK minutes \in {StayOf, Shorter} : \E end : \E back \in Arrivals(LastPlace(order), Hotel, end) :
        Followed(s, order, minutes, end) /\ back <= day.until
  BY DEF Solved
<1>2. PICK end : \E back \in Arrivals(LastPlace(order), Hotel, end) :
        Followed(s, order, minutes, end) /\ back <= day.until
  BY <1>1
<1>3. PICK t : Timed(s, order, minutes, t) /\ t[Len(order)] = end
  BY <1>2 DEF Followed
<1>4. Len(order) \in Nat
  BY DEF Solved
<1>5. end \in EndsOfOrder(s, order, minutes)
  BY <1>3, <1>4, TimedEnds
<1>6. CanBeRidden(s, order, minutes)
  BY <1>2, <1>5 DEF CanBeRidden
<1> QED
  BY <1>6

\* All orders but the relaxed one are among those that were found.
LEMMA RiddenFromInv ==
  ASSUME SearchInv
  PROVE  OrdersCanBeRidden
<1>1. CASE orders = NoOrders
  <2>1. \A s \in Range(Strategies) : DOMAIN orders[s] = {}
    BY <1>1 DEF NoOrders
  <2> QED
    BY <2>1 DEF OrdersCanBeRidden
<1>2. CASE orders # NoOrders
  <2>1. PICK b \in solutions["balanced"], e \in solutions["experience_max"] :
          /\ Proposal(orders["balanced"], "balanced", b.order)
          /\ Proposal(orders["relaxed"], "relaxed", RelaxedPrefix(b.order))
          /\ Proposal(orders["experience_max"], "experience_max", e.order)
    BY <1>2 DEF SearchInv, Proposals
  <2>2. Range(Strategies) = {"relaxed", "balanced", "experience_max"}
    BY StrategyNames
  <2>3. \A s \in Range(Strategies) : \A x \in solutions[s] : Solved(s, x.order)
    BY DEF SearchInv
  <2>4. Solved("balanced", b.order) /\ Solved("experience_max", e.order)
    BY <2>1, <2>2, <2>3
  <2>5. ASSUME NEW s \in Range(Strategies), NEW i \in DOMAIN orders[s], ~(s = "relaxed" /\ i = 1)
        PROVE  Solved(s, orders[s][i])
    <3>1. CASE i = 1
      BY <2>1, <2>2, <2>4, <2>5, <3>1, OfferedOrders
    <3>2. CASE i # 1
      <4>1. \E x \in solutions[s] : orders[s][i] = x.order
        BY <2>1, <2>2, <3>2, OfferedOrders
      <4> QED
        BY <2>3, <4>1
    <3> QED
      BY <3>1, <3>2
  <2> QED
    BY <2>5, SolvedCanBeRidden DEF OrdersCanBeRidden
<1> QED
  BY <1>1, <1>2

\* An order that goes wherever it must, and has what was asked for.
Fits(order) ==
  /\ day.required \subseteq Range(order) /\ IsInjective(order)
  /\ \A role \in day.wants : Count(order, role) = 1

\* An order that was found is what was asked for.
LEMMA SolvedFits ==
  ASSUME day.wants \subseteq {"meal", "rest"}, NEW s, NEW order, Solved(s, order)
  PROVE  Fits(order)
<1>1. \A role \in day.wants : role \in Roles /\ Wanted(s, role) = 1
  BY DEF Wanted, Roles
<1> QED
  BY <1>1 DEF Solved, Fits

\* So is what the relaxed order keeps of it.
LEMMA PrefixFits ==
  ASSUME Loaded \subseteq Places, day.wants \subseteq {"meal", "rest"},
         NEW s, NEW order, Solved(s, order)
  PROVE  Fits(RelaxedPrefix(order))
<1>1. Fits(order) /\ order \in Seq(Loaded) /\ order \in Seq(Places) /\ IsInjective(order)
  <2>1. Fits(order)
    BY SolvedFits
  <2>2. order \in Seq(Loaded)
    BY SMTT(30) DEF Solved
  <2>3. order \in Seq(Places)
    BY <2>2, SMTT(30)
  <2> QED
    BY <2>1, <2>2, <2>3, Zenon DEF Fits
<1>2. /\ IsInjective(RelaxedPrefix(order))
      /\ \A p \in Range(order) : RoleOf[p] # "visit" \/ p \in RequiredVisits =>
           p \in Range(RelaxedPrefix(order))
      /\ \A role : role # "visit" => Count(RelaxedPrefix(order), role) = Count(order, role)
  BY <1>1, PrefixKeeps
<1>3. ASSUME NEW p \in day.required PROVE p \in Range(RelaxedPrefix(order))
  <2>1. p \in Range(order)
    BY <1>1 DEF Fits
  <2>2. p \in Loaded
    BY <1>1, <2>1 DEF Range
  <2>3. RoleOf[p] = "visit" => p \in RequiredVisits
    BY <2>2 DEF RequiredVisits
  <2> QED
    BY <1>2, <2>1, <2>3
<1>4. \A role \in day.wants : Count(RelaxedPrefix(order), role) = 1
  BY <1>1, <1>2 DEF Fits
<1> QED
  BY <1>2, <1>3, <1>4 DEF Fits

\* Every order proposed is one of these.
LEMMA KeptFromInv ==
  ASSUME KeptInv, SearchInv
  PROVE  ProposalsKeepTheRequest
<1>1. CASE orders = NoOrders
  <2>1. \A s \in Range(Strategies) : orders[s] = <<>>
    BY <1>1 DEF NoOrders
  <2>2. Range(<<>>) = {}
    BY DEF Range
  <2> QED
    BY <1>1, <2>1, <2>2 DEF ProposalsKeepTheRequest
<1>2. CASE orders # NoOrders
  <2>1. PICK b \in solutions["balanced"], e \in solutions["experience_max"] :
          /\ Proposal(orders["balanced"], "balanced", b.order)
          /\ Proposal(orders["relaxed"], "relaxed", RelaxedPrefix(b.order))
          /\ Proposal(orders["experience_max"], "experience_max", e.order)
    BY <1>2 DEF SearchInv, Proposals
  <2>2. Range(Strategies) = {"relaxed", "balanced", "experience_max"}
    BY StrategyNames
  <2>3. \A s \in Range(Strategies) : \A x \in solutions[s] : Solved(s, x.order)
    BY DEF SearchInv
  <2>4. Solved("balanced", b.order) /\ Solved("experience_max", e.order)
    BY <2>1, <2>2, <2>3
  <2>5. DayIsAsked
    BY <1>2 DEF SearchInv
  <2>6. /\ Loaded \subseteq Places /\ day.wants \subseteq {"meal", "rest"}
        /\ day.required = request.required /\ day.wants = request.wants
    <3>1. Loaded \subseteq Places
      BY <2>5, LoadedIsKnown
    <3>2. request.wants \in SUBSET {"meal", "rest"}
      BY GatewayAssumption DEF KeptInv, Request
    <3> QED
      BY <2>5, <3>1, <3>2 DEF DayIsAsked
  <2>7. ASSUME NEW s \in Range(Strategies) PROVE orders[s] # <<>> /\ \A i \in DOMAIN orders[s] : Fits(orders[s][i])
    <3>1. ASSUME NEW i \in DOMAIN orders[s] PROVE Fits(orders[s][i])
      <4>1. CASE i = 1
        BY <2>1, <2>2, <2>4, <2>6, <4>1, OfferedOrders, SolvedFits, PrefixFits
      <4>2. CASE i # 1
        <5>1. PICK x \in solutions[s] : orders[s][i] = x.order
          BY <2>1, <2>2, <4>2, OfferedOrders
        <5> QED
          BY <2>3, <2>6, <5>1, SolvedFits
      <4> QED
        BY <4>1, <4>2
    <3> QED
      BY <2>1, <2>2, <3>1, OfferedOrders
  <2>8. ASSUME NEW s \in Range(Strategies), NEW o \in Range(orders[s]) PROVE Fits(o)
    BY <2>7 DEF Range
  <2>9. ASSUME Cardinality(RequiredVisits) < 3 PROVE orders["relaxed"][1] # orders["balanced"][1]
    <3>1. orders["relaxed"][1] = RelaxedPrefix(b.order) /\ orders["balanced"][1] = b.order
      BY <2>1, OfferedOrders
    <3>2. Wanted("balanced", "visit") = 3
      <4>1. VisitsOf["balanced"] = 3 /\ Cardinality(RequiredVisits) \in Nat
        BY <2>6, RequiredAreFew DEF VisitsOf
      <4>2. Max({3, Cardinality(RequiredVisits)}) = 3
        BY <2>9, <4>1, MaxOfTwo
      <4> QED
        BY <4>1, <4>2 DEF Wanted
    <3>3. Count(b.order, "visit") = 3
      BY <2>4, <3>2 DEF Solved, Roles
    <3>4. b.order \in Seq(Places) /\ IsInjective(b.order)
      BY <2>4, <2>6 DEF Solved
    <3> QED
      BY <2>6, <2>9, <3>1, <3>3, <3>4, PrefixIsShorter
  <2> QED
    BY <2>6, <2>7, <2>8, <2>9 DEF ProposalsKeepTheRequest, Fits
<1> QED
  BY <1>1, <1>2

\* The inductive invariant of the gateway and its search.
LEMMA GatewayInvariant == Spec => [](KeptInv /\ SearchInv)
<1>1. Init => KeptInv /\ SearchInv
  BY KeptInit, SearchInits
<1>2. KeptInv /\ SearchInv /\ [Next]_vars => (KeptInv /\ SearchInv)'
  BY KeptSteps, SearchSteps
<1> QED
  BY <1>1, <1>2, PTL DEF Spec

\* Whatever the publications, the timetable and the request: every order
\* proposed, except the relaxed one cut out of the balanced one, can be ridden.
\* Each stay lies in one published window of its place, lunch is at lunch time
\* and the last bus is back in time (_bus_only_strategy_solutions).
THEOREM OrdersCanAlwaysBeRidden == Spec => []OrdersCanBeRidden
<1>1. KeptInv /\ SearchInv => OrdersCanBeRidden
  BY RiddenFromInv
<1> QED
  BY <1>1, GatewayInvariant, PTL

\* Every proposed order goes to all the required places and to none twice, with
\* the meal and the rest that were asked for. The strategies are served together
\* or not at all, and with less than three required visits the relaxed day
\* differs from the balanced one (_relaxed_prefix_order,
\* bus_only_candidate_orders).
THEOREM RequestIsKept == Spec => []ProposalsKeepTheRequest
<1>1. KeptInv /\ SearchInv => ProposalsKeepTheRequest
  BY KeptFromInv
<1> QED
  BY <1>1, GatewayInvariant, PTL
================================================================================
