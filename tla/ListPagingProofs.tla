------------------------- MODULE ListPagingProofs --------------------------
(***************************************************************************)
(* Proofs about paging through List and about the layers every answer goes *)
(* through, module ListPaging, for any number of containers, ports,        *)
(* quantities, page sizes, changes, failures and retries.                  *)
(*                                                                         *)
(* Three arguments that do not depend on the steps come first: what the    *)
(* layers of module Requests make of a request, what a read shows of what  *)
(* a create asked for (module Conversion), and how offsets into a sorted   *)
(* list relate to counts of names. Two inductive invariants follow:        *)
(* PageInv, about the page and the answer at hand, and PagingInv, about    *)
(* the paging as a whole.                                                  *)
(***************************************************************************)
EXTENDS ListPaging, FiniteSetTheorems, WellFoundedInduction, TLAPS

-----------------------------------------------------------------------------
(* Requests.                                                               *)

(* The type of an exchange, as TypeOK has it.                              *)
Exchanges ==
  [status : Codes \cup {0}, lines : 0 .. 2, whole : BOOLEAN, recorded : Codes,
   logged : Codes \cup {0}, panic : {"none", "panic", "abort"}, broken : BOOLEAN]

(* What the layers below the log make of a request: it ends with a status  *)
(* line that is recorded, with a second one only over a broken connection, *)
(* or with a panic.                                                        *)
Handled(x) ==
  /\ x \in Exchanges /\ x.logged = 0
  /\ x.panic = "none" => /\ x.lines > 0
                         /\ x.lines = 1 => x.recorded = x.status
                         /\ x.lines > 1 => x.broken
  /\ x.panic # "none" => x.lines = 0 \/ (x.lines = 1 /\ x.panic = "panic")

(* A new exchange has no status line, no log line and no panic.            *)
LEMMA NewFields ==
  /\ NewExchange.lines = 0 /\ NewExchange.logged = 0 /\ NewExchange.panic = "none"
  /\ NewExchange.recorded = 200
BY DEF NewExchange

(* A new exchange is an exchange.                                          *)
LEMMA NewType == NewExchange \in Exchanges
<1> DEFINE F == FALSE
<1>1. F \in BOOLEAN
  BY Zenon
<1> HIDE DEF F
<1>2. [status |-> 0, lines |-> 0, whole |-> F, recorded |-> 200, logged |-> 0,
   panic |-> "none", broken |-> F] \in Exchanges
  BY <1>1 DEF Exchanges, Codes
<1> QED BY <1>2 DEF F, NewExchange

(* What SendHeader changes and what it keeps.                              *)
LEMMA SendHeaderOf ==
  ASSUME NEW x \in Exchanges, x.lines < 2, NEW c \in Codes
  PROVE  /\ SendHeader(x, c) \in Exchanges
         /\ SendHeader(x, c).status = IF x.lines = 0 THEN c ELSE x.status
         /\ SendHeader(x, c).lines = x.lines + 1
         /\ SendHeader(x, c).recorded = x.recorded
         /\ SendHeader(x, c).logged = x.logged
         /\ SendHeader(x, c).panic = x.panic
         /\ SendHeader(x, c).broken = x.broken
<1> DEFINE s == IF x.lines = 0 THEN c ELSE x.status
           l == x.lines + 1
<1>1. s \in Codes \cup {0} /\ l \in 0 .. 2
  BY DEF Exchanges
<1>2. SendHeader(x, c) = [x EXCEPT !.status = s, !.lines = l]
  BY DEF SendHeader, Exchanges
<1> HIDE DEF s, l
<1>3. /\ SendHeader(x, c) \in Exchanges
      /\ SendHeader(x, c).status = s
      /\ SendHeader(x, c).lines = l
      /\ SendHeader(x, c).recorded = x.recorded
      /\ SendHeader(x, c).logged = x.logged
      /\ SendHeader(x, c).panic = x.panic
      /\ SendHeader(x, c).broken = x.broken
  BY <1>1, <1>2 DEF Exchanges
<1> QED BY <1>3 DEF s, l

(* What WriteHeader changes: it records the status, even of a line that    *)
(* net/http ignores.                                                       *)
LEMMA WriteHeaderOf ==
  ASSUME NEW x \in Exchanges, x.lines < 2, NEW c \in Codes
  PROVE  /\ WriteHeader(x, c) \in Exchanges
         /\ WriteHeader(x, c).status = IF x.lines = 0 THEN c ELSE x.status
         /\ WriteHeader(x, c).lines = x.lines + 1
         /\ WriteHeader(x, c).recorded = c
         /\ WriteHeader(x, c).logged = x.logged
         /\ WriteHeader(x, c).panic = x.panic
         /\ WriteHeader(x, c).broken = x.broken
<1> DEFINE y == SendHeader(x, c)
<1>1. /\ y \in Exchanges
      /\ y.status = IF x.lines = 0 THEN c ELSE x.status
      /\ y.lines = x.lines + 1
      /\ y.logged = x.logged
      /\ y.panic = x.panic
      /\ y.broken = x.broken
  BY SendHeaderOf
<1> HIDE DEF y
<1> QED BY <1>1 DEF WriteHeader, y, Exchanges

(* Writing a body changes nothing but whether it is whole.                 *)
LEMMA BodyOf ==
  ASSUME NEW x \in Exchanges
  PROVE  /\ Body(x) \in Exchanges
         /\ Body(x).status = x.status
         /\ Body(x).lines = x.lines
         /\ Body(x).recorded = x.recorded
         /\ Body(x).logged = x.logged
         /\ Body(x).panic = x.panic
         /\ Body(x).broken = x.broken
<1> DEFINE w == ~x.broken /\ x.lines = 1
<1>1. w \in BOOLEAN
  OBVIOUS
<1>2. Body(x) = [x EXCEPT !.whole = w]
  BY Zenon DEF Body
<1> HIDE DEF w
<1> QED BY <1>1, <1>2 DEF Exchanges

(* The first status line is sent and recorded.                             *)
LEMMA HeaderOfNew ==
  ASSUME NEW c \in Codes
  PROVE  /\ WriteHeader(NewExchange, c) \in Exchanges
         /\ WriteHeader(NewExchange, c).status = c
         /\ WriteHeader(NewExchange, c).lines = 1
         /\ WriteHeader(NewExchange, c).recorded = c
         /\ WriteHeader(NewExchange, c).logged = 0
         /\ WriteHeader(NewExchange, c).panic = "none"
<1>1. NewExchange \in Exchanges /\ NewExchange.lines = 0 /\ NewExchange.logged = 0
        /\ NewExchange.panic = "none"
  BY NewType, NewFields
<1> QED BY <1>1, WriteHeaderOf

(* Every answer given on one line is.                                      *)
LEMMA ResponseHandled ==
  ASSUME NEW c \in Codes
  PROVE  Handled(WriteResponse(NewExchange, c))
BY HeaderOfNew, BodyOf DEF WriteResponse, Handled

(* The generated Visit functions give one status line, or a second one     *)
(* over a broken connection, whatever goes wrong.                          *)
LEMMA VisitHandled ==
  ASSUME NEW c \in Codes, NEW fault \in Faults
  PROVE  Handled(Visit(NewExchange, c, fault))
<1> DEFINE headed == WriteHeader(NewExchange, c)
<1>1. /\ headed \in Exchanges /\ headed.status = c /\ headed.lines = 1
      /\ headed.recorded = c /\ headed.logged = 0 /\ headed.panic = "none"
  BY HeaderOfNew
<1>2. CASE fault = "unencodable" /\ c # 204
  BY <1>2, ResponseHandled DEF Visit, ResponseError, Codes
<1>3. CASE fault = "latePanic"
  <2>1. Visit(NewExchange, c, fault) = [headed EXCEPT !.panic = "panic"]
    BY <1>3 DEF Visit
  <2> HIDE DEF headed
  <2> QED BY <1>1, <2>1 DEF Handled, Exchanges
<1>4. CASE fault = "cut" /\ c # 204
  <2> DEFINE cut == [headed EXCEPT !.broken = TRUE]
  <2>1. Visit(NewExchange, c, fault) = ResponseError(cut)
    BY <1>4 DEF Visit
  <2>2. /\ cut \in Exchanges /\ cut.lines = 1 /\ cut.logged = 0 /\ cut.panic = "none"
        /\ cut.broken
    <3> HIDE DEF headed
    <3> DEFINE T == TRUE
    <3>1. T \in BOOLEAN /\ T
      OBVIOUS
    <3>2. cut = [headed EXCEPT !.broken = T]
      BY Zenon
    <3> HIDE DEF T, cut
    <3> QED BY <1>1, <3>1, <3>2 DEF Exchanges
  <2> HIDE DEF cut
  <2>3. LET y == WriteHeader(cut, 500)
        IN  y \in Exchanges /\ y.lines = 2 /\ y.logged = 0 /\ y.panic = "none" /\ y.broken
    BY <2>2, WriteHeaderOf DEF Codes
  <2> QED BY <2>1, <2>3, BodyOf DEF ResponseError, WriteResponse, Handled
<1>5. CASE ~(fault = "unencodable" /\ c # 204) /\ fault # "latePanic"
             /\ ~(fault = "cut" /\ c # 204)
  BY <1>5, ResponseHandled DEF Visit, WriteResponse
<1> QED BY <1>2, <1>3, <1>4, <1>5

(* The strict handler does, for every flaw, status and fault.              *)
LEMMA StrictHandled ==
  ASSUME NEW flaw \in Flaws \cup {"none"}, NEW c \in Codes, NEW fault \in Faults
  PROVE  Handled(StrictHandler(NewExchange, flaw, c, fault))
<1>1. CASE flaw = "undecodable"
  BY <1>1, ResponseHandled DEF StrictHandler, BadRequest, Codes
<1>2. CASE flaw # "undecodable" /\ fault \in {"panic", "abort"}
  <2>1. StrictHandler(NewExchange, flaw, c, fault) = [NewExchange EXCEPT !.panic = fault]
    BY <1>2 DEF StrictHandler
  <2> DEFINE x == NewExchange
  <2>2. x \in Exchanges /\ x.lines = 0 /\ x.logged = 0
    BY NewType, NewFields
  <2>3. StrictHandler(NewExchange, flaw, c, fault) = [x EXCEPT !.panic = fault]
    BY <2>1
  <2> HIDE DEF x
  <2> QED BY <1>2, <2>2, <2>3 DEF Handled, Exchanges
<1>3. CASE flaw # "undecodable" /\ fault \notin {"panic", "abort"}
  BY <1>3, VisitHandled DEF StrictHandler
<1> QED BY <1>1, <1>2, <1>3

(* Binding, routing and validation answer in one line or leave the         *)
(* exchange to the next layer.                                             *)
LEMMA LayersHandled ==
  ASSUME NEW flaw \in Flaws \cup {"none"}, NEW x, Handled(x)
  PROVE  Handled(Validate(Route(Bind(x, NewExchange, flaw), NewExchange, flaw), NewExchange, flaw))
<1>1. Handled(WriteResponse(NewExchange, 400)) /\ Handled(WriteResponse(NewExchange, 404))
  BY ResponseHandled DEF Codes
<1>2. Handled(Bind(x, NewExchange, flaw))
  BY <1>1 DEF Bind, BadRequest
<1>3. Handled(Route(Bind(x, NewExchange, flaw), NewExchange, flaw))
  BY <1>1, <1>2 DEF Route, BadRequest
<1> QED BY <1>1, <1>3 DEF Validate, BadRequest

(* What LoggedAsAnswered and AnsweredOnce say of one exchange.             *)
Answered(x) ==
  /\ x \in Exchanges
  /\ x.logged = 0 => x.panic # "none"
  /\ x.logged # 0 /\ Received(x) => x.logged = x.status
  /\ x.lines = 0 => x.panic = "abort"
  /\ x.lines > 1 => ~Received(x)

(* Logging and recovery make an answered exchange of what the layers below *)
(* them leave, panics before and after the status line included.           *)
LEMMA RecoveredAnswered ==
  ASSUME NEW x, Handled(x)
  PROVE  Answered(Recovered(Log(x)))
<1> USE DEF Handled
<1>1. CASE x.panic = "none"
  <2> DEFINE y == [x EXCEPT !.logged = x.recorded]
  <2>1. y \in Exchanges /\ y.logged = x.recorded /\ y.panic = "none" /\ y.lines = x.lines
          /\ y.broken = x.broken /\ y.status = x.status /\ y.recorded = x.recorded
    BY <1>1 DEF Exchanges
  <2>2. Recovered(Log(x)) = y
    BY <1>1, <2>1 DEF Log, Recovered
  <2>3. x.recorded # 0
    BY DEF Exchanges, Codes
  <2>4. x.lines \in 0 .. 2
    BY DEF Exchanges
  <2> HIDE DEF y
  <2> QED BY <1>1, <2>1, <2>2, <2>3, <2>4 DEF Answered, Received
<1>2. CASE x.panic = "abort"
  <2> DEFINE T == TRUE
             y == [x EXCEPT !.broken = T]
  <2>1. T \in BOOLEAN /\ T
    OBVIOUS
  <2>2. Recovered(Log(x)) = y
    BY <1>2, Zenon DEF Log, Recovered
  <2> HIDE DEF T
  <2>3. y \in Exchanges /\ y.logged = 0 /\ y.panic = "abort" /\ y.broken
    BY <1>2, <2>1 DEF Exchanges
  <2> HIDE DEF y
  <2> QED BY <2>2, <2>3 DEF Answered, Received
<1>3. CASE x.panic = "panic" /\ x.lines > 0
  <2>1. Recovered(Log(x)) = x
    BY <1>3 DEF Log, Recovered
  <2> QED BY <1>3, <2>1 DEF Answered, Exchanges
<1>4. CASE x.panic = "panic" /\ x.lines = 0
  <2>1. Recovered(Log(x)) = Body(SendHeader(x, 500))
    BY <1>4 DEF Log, Recovered
  <2> DEFINE y == SendHeader(x, 500)
  <2>2. y \in Exchanges /\ y.lines = 1 /\ y.logged = 0 /\ y.panic = "panic"
    BY <1>4, SendHeaderOf DEF Codes
  <2> HIDE DEF y
  <2>3. Recovered(Log(x)) = Body(y)
    BY <2>1 DEF y
  <2> QED BY <2>2, <2>3, BodyOf DEF Answered
<1> QED BY <1>1, <1>2, <1>3, <1>4 DEF Exchanges

(* So every request is answered and logged as answered, whatever flaw it   *)
(* has, whatever status its handler decides on and whatever fault hits.    *)
LEMMA ServeAnswered ==
  ASSUME NEW flaw \in Flaws \cup {"none"}, NEW c \in Codes, NEW fault \in Faults
  PROVE  Answered(Serve(flaw, c, fault))
<1> DEFINE x      == StrictHandler(NewExchange, flaw, c, fault)
           v      == Validate(Route(Bind(x, NewExchange, flaw), NewExchange, flaw),
                              NewExchange, flaw)
           served == Recovered(Log(v))
           broken == served.broken \/ fault = "lost"
<1>1. Answered(served)
  BY StrictHandled, LayersHandled, RecoveredAnswered
<1>2. Serve(flaw, c, fault) = [served EXCEPT !.broken = broken]
  BY Zenon DEF Serve
<1>3. broken \in BOOLEAN /\ (~broken => ~served.broken)
  <2> HIDE DEF served
  <2> QED BY <1>1 DEF Answered, Exchanges
<1> HIDE DEF served, broken
<1> QED BY <1>1, <1>2, <1>3 DEF Answered, Exchanges, Received

-----------------------------------------------------------------------------
(* Conversion.                                                             *)

(* The units a create stores, up to what the parser makes of the amount.   *)
LEMMA UnitOf ==
  ASSUME NEW q
  PROVE  /\ q.unit = "MB" => ConvertMemory(q) = Parsed(Amount(q.n, "Mi"))
         /\ q.unit = "GB" => ConvertMemory(q) = Parsed(Amount(q.n, "Gi"))
         /\ q.unit = "TB" => ConvertMemory(q) = Parsed(Amount(q.n, "Ti"))
<1>1. /\ (CHOOSE pair \in UnitPairs : pair[1] = "MB") = <<"MB", "Mi">>
      /\ (CHOOSE pair \in UnitPairs : pair[1] = "GB") = <<"GB", "Gi">>
      /\ (CHOOSE pair \in UnitPairs : pair[1] = "TB") = <<"TB", "Ti">>
  BY DEF UnitPairs
<1> DEFINE Row(u) == CHOOSE pair \in UnitPairs : pair[1] = u
<1>2. ConvertMemory(q) = Parsed(Amount(q.n, Row(q.unit)[2]))
  BY DEF ConvertMemory
<1>3. Row("MB") = <<"MB", "Mi">> /\ Row("GB") = <<"GB", "Gi">> /\ Row("TB") = <<"TB", "Ti">>
  BY <1>1
<1> HIDE DEF Row
<1> QED BY <1>2, <1>3

(* The units a read shows; it passes on what the API has no unit for.      *)
LEMMA UnitBack ==
  ASSUME NEW q
  PROVE  /\ q.unit = "Mi" => MemoryQuantityToAPI(q) = Amount(q.n, "MB")
         /\ q.unit = "Gi" => MemoryQuantityToAPI(q) = Amount(q.n, "GB")
         /\ q.unit = "Ti" => MemoryQuantityToAPI(q) = Amount(q.n, "TB")
         /\ q.unit \in {"Ei", "Pi", "bytes"} => MemoryQuantityToAPI(q) = q
<1>1. /\ (CHOOSE pair \in UnitPairs : pair[2] = "Mi") = <<"MB", "Mi">>
      /\ (CHOOSE pair \in UnitPairs : pair[2] = "Gi") = <<"GB", "Gi">>
      /\ (CHOOSE pair \in UnitPairs : pair[2] = "Ti") = <<"TB", "Ti">>
  BY DEF UnitPairs
<1>2. \A u : (\E pair \in UnitPairs : pair[2] = u) <=> u \in {"Mi", "Gi", "Ti"}
  BY DEF UnitPairs
<1> DEFINE Row(u) == CHOOSE pair \in UnitPairs : pair[2] = u
<1>3. MemoryQuantityToAPI(q) =
        IF q.unit \in {"Mi", "Gi", "Ti"} THEN Amount(q.n, Row(q.unit)[1]) ELSE q
  BY <1>2 DEF MemoryQuantityToAPI
<1>4. Row("Mi") = <<"MB", "Mi">> /\ Row("Gi") = <<"GB", "Gi">> /\ Row("Ti") = <<"TB", "Ti">>
  BY <1>1
<1> HIDE DEF Row
<1> QED BY <1>3, <1>4

(* The units are positive, whatever the step between them, ...             *)
LEMMA UnitSizes == /\ {Mi, Gi, Ti, Pi, Ei} \subseteq Nat \ {0}
                   /\ MaxBytes \in Nat
<1>1. \A a, b \in Nat \ {0} : a * b \in Nat \ {0}
  BY SMT
<1>2. Mi \in Nat \ {0}
  BY <1>1, ListPagingAssumption DEF Mi
<1>3. Gi \in Nat \ {0}
  BY <1>1, <1>2, ListPagingAssumption DEF Gi
<1>4. Ti \in Nat \ {0}
  BY <1>1, <1>3, ListPagingAssumption DEF Ti
<1>5. Pi \in Nat \ {0}
  BY <1>1, <1>4, ListPagingAssumption DEF Pi
<1>6. Ei \in Nat \ {0}
  BY <1>1, <1>5, ListPagingAssumption DEF Ei
<1> QED BY <1>2, <1>3, <1>4, <1>5, <1>6, SMT DEF MaxBytes

(* ... and this is the value of an amount in each of them.                 *)
LEMMA Amounts ==
  ASSUME NEW n
  PROVE  /\ InBytes(Amount(n, "MB")) = n * Mi /\ InBytes(Amount(n, "Mi")) = n * Mi
         /\ InBytes(Amount(n, "GB")) = n * Gi /\ InBytes(Amount(n, "Gi")) = n * Gi
         /\ InBytes(Amount(n, "TB")) = n * Ti /\ InBytes(Amount(n, "Ti")) = n * Ti
         /\ InBytes(Amount(n, "Pi")) = n * Pi /\ InBytes(Amount(n, "Ei")) = n * Ei
         /\ InBytes(Amount(n, "bytes")) = n * 1
BY DEF InBytes, Amount

(* A number is the multiple of what divides it.                            *)
LEMMA Divided ==
  ASSUME NEW x \in Nat, NEW size \in Nat \ {0}
  PROVE  /\ x \div size \in Nat
         /\ x % size = 0 => (x \div size) * size = x
BY SMT

(* Kubernetes' canonical form keeps the value, and leaves the units of the *)
(* API only for zero, for multiples of 1024TB, and for what is no multiple *)
(* of 1MB.                                                                 *)
LEMMA CanonicalOf ==
  ASSUME NEW q, InBytes(q) \in Nat
  PROVE  \E n \in Nat, unit \in {"Mi", "Gi", "Ti", "Pi", "Ei", "bytes"} :
           /\ Canonical(q) = Amount(n, unit)
           /\ InBytes(Amount(n, unit)) = InBytes(q)
           /\ unit = "bytes" => InBytes(q) = 0 \/ InBytes(q) % Mi # 0
<1> DEFINE x == InBytes(q)
<1>1. /\ InBytes(Amount(1, "Mi")) = Mi /\ InBytes(Amount(1, "Gi")) = Gi
      /\ InBytes(Amount(1, "Ti")) = Ti /\ InBytes(Amount(1, "Pi")) = Pi
      /\ InBytes(Amount(1, "Ei")) = Ei /\ InBytes(Amount(1, "bytes")) = 1
  BY Amounts, UnitSizes, SMT
<1>2. Canonical(q) =
        IF x # 0 /\ x % Ei = 0 THEN Amount(x \div Ei, "Ei")
        ELSE IF x # 0 /\ x % Pi = 0 THEN Amount(x \div Pi, "Pi")
        ELSE IF x # 0 /\ x % Ti = 0 THEN Amount(x \div Ti, "Ti")
        ELSE IF x # 0 /\ x % Gi = 0 THEN Amount(x \div Gi, "Gi")
        ELSE IF x # 0 /\ x % Mi = 0 THEN Amount(x \div Mi, "Mi")
        ELSE Amount(x \div 1, "bytes")
  BY <1>1 DEF Canonical
<1> HIDE DEF x
<1>3. x \in Nat
  BY DEF x
<1>4. \A size \in {Mi, Gi, Ti, Pi, Ei} :
        x \div size \in Nat /\ (x % size = 0 => (x \div size) * size = x)
  BY <1>3, Divided, UnitSizes
<1>5. x \div 1 = x /\ x * 1 = x
  BY <1>3, SMT
<1>6. CASE x # 0 /\ x % Ei = 0
  BY <1>2, <1>4, <1>6, Amounts DEF x
<1>7. CASE ~(x # 0 /\ x % Ei = 0) /\ x # 0 /\ x % Pi = 0
  BY <1>2, <1>4, <1>7, Amounts DEF x
<1>8. CASE x # 0 /\ x % Ei # 0 /\ x % Pi # 0 /\ x % Ti = 0
  BY <1>2, <1>4, <1>8, Amounts DEF x
<1>9. CASE x # 0 /\ x % Ei # 0 /\ x % Pi # 0 /\ x % Ti # 0 /\ x % Gi = 0
  BY <1>2, <1>4, <1>9, Amounts DEF x
<1>10. CASE x # 0 /\ x % Ei # 0 /\ x % Pi # 0 /\ x % Ti # 0 /\ x % Gi # 0 /\ x % Mi = 0
  BY <1>2, <1>4, <1>10, Amounts DEF x
<1>11. CASE x = 0 \/ (x % Ei # 0 /\ x % Pi # 0 /\ x % Ti # 0 /\ x % Gi # 0 /\ x % Mi # 0)
  <2>1. Canonical(q) = Amount(x, "bytes")
    BY <1>2, <1>5, <1>11
  <2> QED BY <1>3, <1>5, <1>11, <2>1, Amounts DEF x
<1> QED BY <1>6, <1>7, <1>8, <1>9, <1>10, <1>11

(* Showing an amount in the API's unit keeps the value, and only a unit    *)
(* that the API does not have is passed on.                                *)
LEMMA ApiAmount ==
  ASSUME NEW n, NEW unit \in {"Mi", "Gi", "Ti", "Pi", "Ei", "bytes"}
  PROVE  LET q == MemoryQuantityToAPI(Amount(n, unit))
         IN  /\ InBytes(q) = InBytes(Amount(n, unit))
             /\ unit \in {"Mi", "Gi", "Ti"} => q.unit \in ApiUnits
<1>1. {"MB", "GB", "TB"} = ApiUnits
  BY DEF ApiUnits, UnitPairs
<1>2. \A k, u : Amount(k, u).n = k /\ Amount(k, u).unit = u
  BY DEF Amount
<1>3. /\ InBytes(Amount(n, "MB")) = InBytes(Amount(n, "Mi"))
      /\ InBytes(Amount(n, "GB")) = InBytes(Amount(n, "Gi"))
      /\ InBytes(Amount(n, "TB")) = InBytes(Amount(n, "Ti"))
  BY Amounts
<1>4. CASE unit = "Mi"
  BY <1>1, <1>2, <1>3, <1>4, UnitBack
<1>5. CASE unit = "Gi"
  BY <1>1, <1>2, <1>3, <1>5, UnitBack
<1>6. CASE unit = "Ti"
  BY <1>1, <1>2, <1>3, <1>6, UnitBack
<1>7. CASE unit \in {"Pi", "Ei", "bytes"}
  BY <1>2, <1>7, UnitBack
<1> QED BY <1>4, <1>5, <1>6, <1>7

(* What the larger units divide, the units below them divide too.          *)
LEMMA Multiples ==
  ASSUME NEW n \in Nat
  PROVE  /\ (n * Mi) % Mi = 0 /\ (n * Gi) % Mi = 0 /\ (n * Ti) % Mi = 0
         /\ (n * Pi) % Pi = 0 /\ (n * Ei) % Pi = 0
<1>1. \A k \in Nat, size \in Nat \ {0} : (k * size) % size = 0
  BY SMT
<1>2. \A a, b \in Nat : a * b \in Nat
  BY SMT
<1>3. \A a, b, c \in Nat : (a * b) * c = a * (b * c) /\ a * b = b * a
  BY SMT
<1>4. Step \in Nat /\ Mi \in Nat /\ Gi \in Nat /\ Ti \in Nat /\ Pi \in Nat
  BY UnitSizes, ListPagingAssumption
<1>5. n * Step \in Nat /\ (n * Step) * Step \in Nat
  BY <1>2, <1>4
<1>6. n * Gi = (n * Step) * Mi
  BY <1>3, <1>4 DEF Gi
<1>7. n * Ti = (n * Step) * Gi
  BY <1>3, <1>4 DEF Ti
<1>8. (n * Step) * Gi = ((n * Step) * Step) * Mi
  BY <1>3, <1>4, <1>5 DEF Gi
<1>9. n * Ei = (n * Step) * Pi
  BY <1>3, <1>4 DEF Ei
<1> QED BY <1>1, <1>5, <1>6, <1>7, <1>8, <1>9, UnitSizes

(* A memory quantity that is created, stored in canonical form or as it    *)
(* is, and read, is the same, up to Kubernetes' largest amount.            *)
LEMMA MemoryShown ==
  ASSUME NEW q, q.unit \in ApiUnits, q.n \in Nat
  PROVE  SameMemory(MemoryQuantityToAPI(Stored(ConvertMemory(q))), q)
<1> DEFINE c == ConvertMemory(q)
           s == Stored(c)
           r == MemoryQuantityToAPI(s)
           b == InBytes(q)
<1>1. {"MB", "GB", "TB"} = ApiUnits
  BY DEF ApiUnits, UnitPairs
<1>2. PICK unit \in {"Mi", "Gi", "Ti"} :
        c = Parsed(Amount(q.n, unit)) /\ InBytes(Amount(q.n, unit)) = b
  BY <1>1, UnitOf DEF InBytes, Amount
<1>3. b \in Nat /\ b % Mi = 0
  <2>1. b \in {q.n * Mi, q.n * Gi, q.n * Ti}
    BY <1>2, Amounts
  <2>2. \A size \in {Mi, Gi, Ti} : q.n * size \in Nat
    BY UnitSizes, SMT
  <2> HIDE DEF b
  <2> QED BY <2>1, <2>2, Multiples
<1>4. c = IF b <= MaxBytes THEN Amount(q.n, unit) ELSE Amount(MaxBytes, "bytes")
  BY <1>2 DEF Parsed
<1>5. InBytes(c) = IF b <= MaxBytes THEN b ELSE MaxBytes
  <2>1. InBytes(Amount(MaxBytes, "bytes")) = MaxBytes
    BY Amounts, UnitSizes, SMT
  <2> HIDE DEF c, b
  <2> QED BY <1>2, <1>4, <2>1
<1>6. InBytes(c) \in Nat
  BY <1>3, <1>5, UnitSizes
<1> HIDE DEF c
<1>7. \E n \in Nat, u \in {"Mi", "Gi", "Ti", "Pi", "Ei", "bytes"} :
        /\ s = Amount(n, u) /\ InBytes(Amount(n, u)) = InBytes(c)
        /\ u = "bytes" => InBytes(c) = 0 \/ InBytes(c) % Mi # 0 \/ b > MaxBytes
  <2>1. CASE c \in KeptTexts
    <3>1. s = c
      BY <2>1 DEF Stored
    <3> QED BY <1>3, <1>4, <3>1, UnitSizes
  <2>2. CASE c \notin KeptTexts
    BY <1>6, <2>2, CanonicalOf DEF Stored
  <2> QED BY <2>1, <2>2
<1>8. PICK n \in Nat, u \in {"Mi", "Gi", "Ti", "Pi", "Ei", "bytes"} :
        /\ s = Amount(n, u) /\ InBytes(Amount(n, u)) = InBytes(c)
        /\ u = "bytes" => InBytes(c) = 0 \/ InBytes(c) % Mi # 0 \/ b > MaxBytes
  BY <1>7
<1> HIDE DEF s
<1>9. InBytes(r) = InBytes(c) /\ (u \in {"Mi", "Gi", "Ti"} => r.unit \in ApiUnits)
  BY <1>8, ApiAmount
<1>10. r.unit \in ApiUnits \/ b % Pi = 0 \/ b > MaxBytes
  <2> SUFFICES ASSUME b <= MaxBytes, u \in {"Pi", "Ei", "bytes"}
               PROVE  b % Pi = 0
    BY <1>3, <1>9, UnitSizes
  <2>1. InBytes(c) = b
    BY <1>5
  <2>2. CASE u = "bytes"
    <3>1. b = 0
      BY <1>3, <1>8, <2>1, <2>2, UnitSizes
    <3>2. 0 % Pi = 0
      BY UnitSizes, SMT
    <3> QED BY <3>1, <3>2
  <2>3. CASE u \in {"Pi", "Ei"}
    <3>1. b = n * Pi \/ b = n * Ei
      BY <1>8, <2>1, <2>3, Amounts
    <3> HIDE DEF b
    <3> QED BY <3>1, Multiples
  <2> QED BY <2>2, <2>3
<1> QED BY <1>5, <1>9, <1>10 DEF SameMemory, r, s, c

(* What is inferred for a port from the type of the Service and from its   *)
(* targets is a visibility asked for its number; it is hidden only if      *)
(* nothing else was asked, and external if another port is.                *)
LEMMA InferredVisibility ==
  ASSUME NEW ports, \A p \in ports : p.visibility \in Visibilities, ValidServiceType,
         NEW k \in Numbers(ports)
  PROVE  LET service == IF NeedsService(ports) THEN BuildService(ports) ELSE NoService
             v == IF k \in service.targets THEN InferVisibility(service.type) ELSE "none"
         IN  \/ v \in Wanted(ports, k) /\ (v = "none" => Wanted(ports, k) = {"none"})
             \/ v = "external" /\ "internal" \in Wanted(ports, k) /\ HasExternalPort(ports)
<1> DEFINE service == IF NeedsService(ports) THEN BuildService(ports) ELSE NoService
           v == IF k \in service.targets THEN InferVisibility(service.type) ELSE "none"
<1>1. PICK r \in ports : r.number = k
  BY DEF Numbers
<1>2. CASE \A p \in ports : p.number = k => p.visibility = "none"
  <2>1. k \notin service.targets
    BY <1>2 DEF NoService, BuildService, Numbers, PortsWithVisibility
  <2>2. Wanted(ports, k) = {"none"}
    BY <1>1, <1>2 DEF Wanted
  <2> QED BY <2>1, <2>2
<1>3. ASSUME NEW p \in ports, p.number = k, p.visibility # "none"
      PROVE  \/ v \in Wanted(ports, k) /\ v # "none"
             \/ v = "external" /\ "internal" \in Wanted(ports, k) /\ HasExternalPort(ports)
  <2>1. service = BuildService(ports)
    BY <1>3 DEF NeedsService, PortsWithVisibility
  <2>2. k \in service.targets
    BY <1>3, <2>1 DEF BuildService, Numbers, PortsWithVisibility
  <2>3. service.type = ResolveServiceType(ports)
    BY <2>1 DEF BuildService
  <2>4. InferVisibility(service.type) = IF HasExternalPort(ports) THEN "external" ELSE "internal"
    BY <2>3 DEF InferVisibility, ResolveServiceType, ValidServiceType
  <2>5. v = IF HasExternalPort(ports) THEN "external" ELSE "internal"
    BY <2>2, <2>4
  <2>6. p.visibility \in Wanted(ports, k) /\ p.visibility \in {"internal", "external"}
    BY <1>3 DEF Wanted, Visibilities
  <2>7. p.visibility = "external" => HasExternalPort(ports)
    BY DEF HasExternalPort
  <2> HIDE DEF v
  <2> QED BY <2>5, <2>6, <2>7
<1> QED BY <1>2, <1>3

(* A container before its Service is known.                                *)
LEMMA BareOf ==
  ASSUME NEW spec \in Specs
  PROVE  Bare[spec] =
           [ports  |-> {[number |-> k, visibility |-> "none"] : k \in Numbers(spec.ports)},
            memory |-> [min |-> MemoryQuantityToAPI(Stored(ConvertMemory(spec.memory.min))),
                        max |-> MemoryQuantityToAPI(Stored(ConvertMemory(spec.memory.max)))]]
BY DEF Bare, ContainerFromDeployment, BuildDeployment

(* From creating to reading: with the Service its create has made, a       *)
(* container shows the ports as they were asked for, and its memory with   *)
(* any Service.                                                            *)
LEMMA ContainerShown ==
  ASSUME NEW spec \in Specs, NEW service
  PROVE  LET c == EnrichWithService(Bare[spec], service)
         IN  /\ \A p \in c.ports : p.visibility \in Visibilities
             /\ service = (IF NeedsService(spec.ports) THEN BuildService(spec.ports) ELSE NoService)
                  => ShownAsAsked(c.ports, spec.ports)
             /\ SameMemory(c.memory.min, spec.memory.min)
             /\ SameMemory(c.memory.max, spec.memory.max)
<1> DEFINE bare     == Bare[spec]
           c        == EnrichWithService(bare, service)
           memory   == [min |-> MemoryQuantityToAPI(Stored(ConvertMemory(spec.memory.min))),
                        max |-> MemoryQuantityToAPI(Stored(ConvertMemory(spec.memory.max)))]
           numbers  == Numbers(spec.ports)
           Shown(k) == IF k \in service.targets THEN InferVisibility(service.type) ELSE "none"
           Made(p)  == [p EXCEPT !.visibility =
                          IF p.number \in service.targets THEN InferVisibility(service.type) ELSE @]
           Unmade(k) == [number |-> k, visibility |-> "none"]
<1>1. bare = [ports |-> {Unmade(k) : k \in numbers}, memory |-> memory]
  BY Zenon, BareOf
<1>2. bare.ports = {Unmade(k) : k \in numbers} /\ bare.memory = memory
  <2> HIDE DEF Unmade, numbers, memory, bare
  <2> QED BY <1>1
<1>3. /\ ValidServiceType
      /\ \A p \in spec.ports : p.visibility \in Visibilities
      /\ spec.memory.min.unit \in ApiUnits /\ spec.memory.max.unit \in ApiUnits
      /\ spec.memory.min.n \in Nat /\ spec.memory.max.n \in Nat
  BY ListPagingAssumption
<1>4. SameMemory(memory.min, spec.memory.min) /\ SameMemory(memory.max, spec.memory.max)
  BY <1>3, MemoryShown
<1>5. ASSUME NEW k \in numbers
      PROVE  Made(Unmade(k)) = [number |-> k, visibility |-> Shown(k)]
  OBVIOUS
<1>6. c = [bare EXCEPT !.ports = {Made(p) : p \in bare.ports}]
  BY DEF EnrichWithService
<1>7. ASSUME NEW k \in numbers,
             service = (IF NeedsService(spec.ports) THEN BuildService(spec.ports) ELSE NoService)
      PROVE  LET wanted == Wanted(spec.ports, k)
             IN  \/ Shown(k) \in wanted /\ (Shown(k) = "none" => wanted = {"none"})
                 \/ /\ Shown(k) = "external" /\ "internal" \in wanted
                    /\ HasExternalPort(spec.ports)
  BY <1>3, <1>7, InferredVisibility
<1>8. \A k : Shown(k) \in Visibilities
  BY DEF InferVisibility, Visibilities
<1>9. bare = [ports |-> bare.ports, memory |-> memory]
  <2> HIDE DEF Unmade, numbers, memory, bare
  <2> QED BY <1>1
<1> HIDE DEF Shown, Made, Unmade, bare, memory
<1>10. c.memory = memory /\ c.ports = {Made(p) : p \in bare.ports}
  <2> DEFINE ports == {Made(p) : p \in bare.ports}
  <2> HIDE DEF ports
  <2>1. c = [bare EXCEPT !.ports = ports]
    BY <1>6 DEF ports
  <2>2. c.memory = memory /\ c.ports = ports
    BY <1>9, <2>1
  <2> QED BY <2>2 DEF ports
<1> HIDE DEF c, numbers
<1>11. c.ports = {[number |-> k, visibility |-> Shown(k)] : k \in numbers}
  BY <1>2, <1>5, <1>10
<1>12. \A p \in c.ports : p.visibility \in Visibilities
  BY <1>8, <1>11
<1>13. service = (IF NeedsService(spec.ports) THEN BuildService(spec.ports) ELSE NoService)
         => ShownAsAsked(c.ports, spec.ports)
  <2>1. \A p \in c.ports : p.number \in numbers /\ p.visibility = Shown(p.number)
    BY <1>11
  <2>2. Numbers(c.ports) = numbers
    <3>1. ASSUME NEW k \in numbers PROVE \E p \in c.ports : p.number = k
      <4> DEFINE p == [number |-> k, visibility |-> Shown(k)]
      <4>1. p \in c.ports
        BY <1>11
      <4>2. p.number = k
        OBVIOUS
      <4> HIDE DEF p
      <4> QED BY <4>1, <4>2
    <3> QED BY <2>1, <3>1 DEF Numbers
  <2> QED BY <1>7, <2>1, <2>2 DEF ShownAsAsked, Wanted, numbers
<1> QED BY <1>4, <1>10, <1>12, <1>13 DEF c, bare, memory

-----------------------------------------------------------------------------
(* Counting names.                                                         *)

(* How many names of S there are up to n.                                  *)
Count(S, n) == Cardinality(UpTo(S, n))

(* A set of numbers has a least element: strict order is well-founded.     *)
LEMMA LeastElement ==
  ASSUME NEW T \in SUBSET Nat, T # {}
  PROVE  \E x \in T : \A y \in T : x <= y
<1> DEFINE R == {ss \in Nat \X Nat : ss[1] < ss[2]}
<1>1. IsWellFoundedOn(R, Nat)
  BY NatLessThanWellFounded DEF OpToRel
<1> HIDE DEF R
<1>2. PICK x \in T : \A y \in T : <<y, x>> \notin R
  BY <1>1, WFMin
<1>3. \A y \in T : x <= y
  <2> TAKE y \in T
  <2>1. x \in Nat /\ y \in Nat /\ <<y, x>> \notin R
    BY <1>2
  <2>2. ~(y < x)
    BY <2>1 DEF R
  <2> QED BY <2>1, <2>2
<1> QED BY <1>3

(* Names are finitely many numbers.                                        *)
LEMMA NamesFinite ==
  /\ N \in Nat /\ IsFiniteSet(Names) /\ Cardinality(Names) = N
  /\ \A S : S \subseteq Names => IsFiniteSet(S) /\ Cardinality(S) \in 0 .. N
  /\ \A m \in Names : m \in Nat /\ m - 1 \in Nat /\ 1 <= m /\ m <= N
  /\ \A m \in Nat : 1 <= m /\ m <= N => m \in Names
<1>1. N \in Nat
  BY ListPagingAssumption
<1>2. IsFiniteSet(Names) /\ Cardinality(Names) = N
  BY <1>1, FS_Interval DEF Names
<1>3. ASSUME NEW S, S \subseteq Names
      PROVE  IsFiniteSet(S) /\ Cardinality(S) \in 0 .. N
  BY <1>1, <1>2, <1>3, FS_Subset, FS_CardinalityType
<1>4. /\ \A m \in Names : m \in Nat /\ m - 1 \in Nat /\ 1 <= m /\ m <= N
      /\ \A m \in Nat : 1 <= m /\ m <= N => m \in Names
  BY <1>1 DEF Names
<1> QED BY <1>1, <1>2, <1>3, <1>4

(* A count is a number, at most that of the whole set.                     *)
LEMMA CountNat ==
  ASSUME NEW S, S \subseteq Names, NEW n
  PROVE  /\ UpTo(S, n) \subseteq Names /\ IsFiniteSet(UpTo(S, n))
         /\ Count(S, n) \in Nat /\ Count(S, n) <= Cardinality(S)
<1>1. UpTo(S, n) \subseteq Names /\ UpTo(S, n) \subseteq S
  BY DEF UpTo
<1>2. IsFiniteSet(UpTo(S, n)) /\ Cardinality(UpTo(S, n)) \in Nat /\ IsFiniteSet(S)
  BY <1>1, NamesFinite
<1>3. Cardinality(UpTo(S, n)) <= Cardinality(S)
  BY <1>1, <1>2, FS_Subset
<1> QED BY <1>1, <1>2, <1>3 DEF Count

(* More names count more.                                                  *)
LEMMA CountMonotone ==
  ASSUME NEW S, NEW T, T \subseteq Names, NEW m \in Nat, NEW n \in Nat,
         UpTo(S, m) \subseteq UpTo(T, n)
  PROVE  Count(S, m) <= Count(T, n)
BY CountNat, FS_Subset DEF Count

(* The counts of disjoint sets add up.                                     *)
LEMMA CountOfUnion ==
  ASSUME NEW S, NEW T, S \subseteq Names, T \subseteq Names, S \cap T = {}, NEW n
  PROVE  Count(S \cup T, n) = Count(S, n) + Count(T, n)
<1>1. UpTo(S \cup T, n) = UpTo(S, n) \cup UpTo(T, n) /\ UpTo(S, n) \cap UpTo(T, n) = {}
  BY DEF UpTo
<1>2. /\ IsFiniteSet(UpTo(S, n)) /\ IsFiniteSet(UpTo(T, n))
      /\ Count(S, n) \in Nat /\ Count(T, n) \in Nat
  BY CountNat
<1>3. Cardinality(UpTo(S, n) \cup UpTo(T, n)) =
        Cardinality(UpTo(S, n)) + Cardinality(UpTo(T, n)) - Cardinality({})
  BY <1>1, <1>2, FS_Union
<1>4. Cardinality({}) = 0
  BY FS_EmptySet
<1> QED BY <1>1, <1>2, <1>3, <1>4 DEF Count

(* A new name adds one to every count that reaches it.                     *)
LEMMA CountAdds ==
  ASSUME NEW S, S \subseteq Names, NEW c, c \notin S, NEW n
  PROVE  c <= n => Count(S \cup {c}, n) = Count(S, n) + 1
<1>1. SUFFICES ASSUME c <= n PROVE Count(S \cup {c}, n) = Count(S, n) + 1
  OBVIOUS
<1>2. UpTo(S \cup {c}, n) = UpTo(S, n) \cup {c} /\ c \notin UpTo(S, n)
  BY <1>1 DEF UpTo
<1> QED BY <1>2, CountNat, FS_AddElement DEF Count

(* The names below x are those up to its predecessor, and x adds itself.   *)
LEMMA CountBelow ==
  ASSUME NEW S, S \subseteq Names, NEW x \in Names
  PROVE  /\ Below(S, x) = UpTo(S, x - 1)
         /\ Count(S, x) = Count(S, x - 1) + (IF x \in S THEN 1 ELSE 0)
<1>1. x \in Nat /\ N \in Nat
  BY ListPagingAssumption DEF Names
<1>2. \A m \in S : /\ m < x <=> m <= x - 1
                   /\ m <= x <=> (m <= x - 1 \/ m = x)
  BY <1>1, NamesFinite
<1>3. ~(x <= x - 1) /\ x <= x
  BY <1>1
<1>4. Below(S, x) = UpTo(S, x - 1)
  BY <1>2 DEF Below, UpTo
<1>5. CASE x \in S
  <2>1. UpTo(S, x) = UpTo(S, x - 1) \cup {x} /\ x \notin UpTo(S, x - 1)
    BY <1>3, <1>2, <1>5 DEF UpTo
  <2> QED BY <1>4, <1>5, <2>1, CountNat, FS_AddElement DEF Count
<1>6. CASE x \notin S
  <2>1. UpTo(S, x) = UpTo(S, x - 1)
    BY <1>2, <1>6 DEF UpTo
  <2>2. Count(S, x - 1) \in Nat
    BY CountNat
  <2> QED BY <1>4, <1>6, <2>1, <2>2 DEF Count
<1> QED BY <1>4, <1>5, <1>6

(* The position of a name in the sorted list is how many are below it.     *)
LEMMA PositionIsCount ==
  ASSUME NEW m \in Names
  PROVE  Position(m) = Count(Deployments, m - 1) /\ Position(m) \in Nat
<1>1. Deployments \subseteq Names
  BY DEF Deployments
<1>2. {d \in Deployments : d < m} = Below(Deployments, m)
  BY DEF Below
<1>3. Below(Deployments, m) = UpTo(Deployments, m - 1)
  BY <1>1, CountBelow
<1>4. Count(Deployments, m - 1) \in Nat
  BY <1>1, CountNat
<1> QED BY <1>2, <1>3, <1>4 DEF Position, Count

(* An offset into the sorted list is a place between two names: those up   *)
(* to some k are exactly the first o.                                      *)
LEMMA Frontier ==
  ASSUME NEW D, D \subseteq Names, NEW o \in Nat, o <= Cardinality(D)
  PROVE  \E k \in 0 .. N : /\ Count(D, k) = o
                           /\ \A m \in D : Count(D, m - 1) < o <=> m <= k
<1> DEFINE T == {x \in Names : Count(D, x) > o}
<1>1. D \subseteq Names /\ N \in Nat /\ \A S : S \subseteq Names => Cardinality(S) \in Nat
  BY NamesFinite
<1>2. \A x : Count(D, x) \in Nat
  BY <1>1, CountNat
<1>3. \A x, y \in Nat : x <= y => Count(D, x) <= Count(D, y)
  <2> TAKE x, y \in Nat
  <2> HAVE x <= y
  <2>1. UpTo(D, x) \subseteq UpTo(D, y)
    BY <1>1, NamesFinite DEF UpTo
  <2> QED BY <1>1, <2>1, CountMonotone
<1>4. ASSUME NEW k \in 0 .. N, Count(D, k) = o
      PROVE  \A m \in D : Count(D, m - 1) < o <=> m <= k
  <2> TAKE m \in D
  <2>1. m \in Names /\ m \in 1 .. N /\ m - 1 \in Nat
    BY <1>1 DEF Names
  <2>2. Count(D, m) = Count(D, m - 1) + 1
    BY <1>1, <2>1, CountBelow
  <2>3. CASE m <= k
    BY <1>2, <1>3, <1>4, <2>1, <2>2, <2>3
  <2>4. CASE ~(m <= k)
    <3>1. k <= m - 1
      BY <2>1, <2>4
    <3>2. Count(D, k) <= Count(D, m - 1)
      BY <1>3, <2>1, <3>1
    <3> QED BY <1>2, <1>4, <2>2, <2>4, <3>2
  <2> QED BY <2>3, <2>4
<1>5. CASE T = {}
  <2>1. Count(D, N) = Cardinality(D)
    <3>1. UpTo(D, N) = D
      BY <1>1, NamesFinite DEF UpTo
    <3> QED BY <3>1 DEF Count
  <2>2. Count(D, N) = o
    <3>1. CASE N = 0
      <4>1. Names = {}
        BY <3>1 DEF Names
      <4>2. Cardinality(D) = 0
        BY <1>1, <4>1, NamesFinite, <3>1
      <4> QED BY <2>1, <4>2
    <3>2. CASE N # 0
      <4>1. N \in Names
        BY <1>1, <3>2 DEF Names
      <4> QED BY <1>2, <1>5, <2>1, <4>1
    <3> QED BY <3>1, <3>2
  <2> QED BY <1>1, <1>4, <2>2
<1>6. CASE T # {}
  <2>1. T \subseteq Nat
    BY DEF Names
  <2>2. PICK x \in T : \A y \in T : x <= y
    BY <1>6, <2>1, LeastElement
  <2>3. x \in Names /\ x \in 1 .. N /\ x - 1 \in 0 .. N /\ Count(D, x) > o
    BY <1>1, NamesFinite
  <2>4. Count(D, x) <= Count(D, x - 1) + 1
    <3>1. Count(D, x) = Count(D, x - 1) + (IF x \in D THEN 1 ELSE 0)
      BY <1>1, <2>3, CountBelow
    <3> QED BY <1>2, <3>1
  <2>5. Count(D, x - 1) <= o
    <3>1. CASE x = 1
      <4>1. UpTo(D, x - 1) = {}
        <5>1. \A m \in D : ~(m <= x - 1)
          BY <1>1, <3>1, NamesFinite
        <5> QED BY <5>1 DEF UpTo
      <4> QED BY <4>1, FS_EmptySet DEF Count
    <3>2. CASE x # 1
      <4>1. x - 1 \in Names /\ ~(x <= x - 1)
        BY <2>3, <3>2 DEF Names
      <4> QED BY <1>2, <2>2, <4>1
    <3> QED BY <3>1, <3>2
  <2>6. Count(D, x - 1) = o
    BY <1>2, <2>3, <2>4, <2>5
  <2> QED BY <1>4, <2>3, <2>6
<1> QED BY <1>5, <1>6

(* Up to each name, the containers S a client has missed so far are no     *)
(* more than those gone there; or the token t still points before them:    *)
(* those missed and the t it has passed fit among all that ever existed    *)
(* there. The last page leaves the first alternative only.                 *)
Skips(S, t, gone, existed) ==
  \A n \in 0 .. N :
    \/ Count(S, n) <= Count(gone, n)
    \/ t # End /\ Count(S, n) + t <= Count(existed, n)

(* Those of S that a client with token t will be shown in D.               *)
Ahead(S, t, D) == {m \in S \cap D : t <= Count(D, m - 1)}

(* Each of R, in the order of the names, has one of born below it.         *)
Paired(R, born) == \A n \in Names : Count(R, n) <= Count(born, n - 1)

(* A larger set has larger counts, and further ones are larger still.      *)
LEMMA CountGrows ==
  ASSUME NEW S, NEW T, S \subseteq T, T \subseteq Names, NEW m \in Nat, NEW n \in Nat, m <= n
  PROVE  Count(S, m) <= Count(T, n)
<1>1. \A i \in S : i \in Nat
  BY NamesFinite
<1>2. UpTo(S, m) \subseteq UpTo(T, n)
  BY <1>1 DEF UpTo
<1> QED BY <1>2, CountMonotone

(* Deletes and creates let Skips be: a delete makes one more gone, a       *)
(* create one more existing, and neither makes one missed.                 *)
LEMMA SkipsMonotone ==
  ASSUME NEW S1, NEW S2, S2 \subseteq S1, S1 \subseteq Names, NEW t \in 0 .. End,
         NEW gone1, NEW gone2, gone1 \subseteq gone2, gone2 \subseteq Names,
         NEW existed1, NEW existed2, existed1 \subseteq existed2, existed2 \subseteq Names,
         Skips(S1, t, gone1, existed1)
  PROVE  Skips(S2, t, gone2, existed2)
<1> SUFFICES ASSUME NEW n \in 0 .. N
             PROVE  \/ Count(S2, n) <= Count(gone2, n)
                    \/ t # End /\ Count(S2, n) + t <= Count(existed2, n)
  BY DEF Skips
<1>1. n \in Nat /\ t \in Nat /\ N \in Nat
  BY NamesFinite DEF End
<1>2. /\ Count(S2, n) <= Count(S1, n) /\ Count(gone1, n) <= Count(gone2, n)
      /\ Count(existed1, n) <= Count(existed2, n)
  BY <1>1, CountGrows
<1>3. /\ Count(S1, n) \in Nat /\ Count(S2, n) \in Nat
      /\ Count(gone1, n) \in Nat /\ Count(gone2, n) \in Nat
      /\ Count(existed1, n) \in Nat /\ Count(existed2, n) \in Nat
  BY CountNat
<1>4. \/ Count(S1, n) <= Count(gone1, n)
      \/ t # End /\ Count(S1, n) + t <= Count(existed1, n)
  BY DEF Skips
<1> QED BY <1>1, <1>2, <1>3, <1>4

(* Reading a page keeps it: what is left is before the page, where the     *)
(* token cannot excuse it, or after it, where the next token does.         *)
LEMMA SkipsPage ==
  ASSUME NEW D, NEW gone, NEW missing,
         D \subseteq Names, gone \subseteq Names, D \cap gone = {}, missing \subseteq D,
         NEW t \in 0 .. N, NEW o \in 0 .. N, NEW x \in 0 .. N,
         o <= t, x <= Cardinality(D), o < x \/ (o = x /\ x = Cardinality(D)),
         Skips(missing, t, gone, D \cup gone),
         NEW read, read \subseteq D,
         \A m \in D : m \in read <=> o <= Count(D, m - 1) /\ Count(D, m - 1) < x,
         NEW nxt, nxt = IF x < Cardinality(D) THEN x ELSE End
  PROVE  Skips(missing \ read, nxt, gone, D \cup gone)
<1> DEFINE rest == missing \ read
<1>1. /\ N \in Nat /\ Cardinality(D) \in Nat /\ o <= Cardinality(D)
      /\ rest \subseteq missing /\ rest \subseteq Names /\ missing \subseteq Names
      /\ \A m \in Names : m \in Nat
  BY NamesFinite
<1>2. PICK ko \in 0 .. N : Count(D, ko) = o /\ \A m \in D : Count(D, m - 1) < o <=> m <= ko
  BY <1>1, Frontier
<1>3. PICK kx \in 0 .. N : Count(D, kx) = x /\ \A m \in D : Count(D, m - 1) < x <=> m <= kx
  BY <1>1, Frontier
<1>4. \A m \in D : Count(D, m - 1) \in Nat
  BY CountNat
<1>5. \A m \in rest : m <= ko \/ ~(m <= kx)
  BY <1>2, <1>3, <1>4
<1> HIDE DEF rest
<1>6. ASSUME NEW n \in 0 .. N, n <= ko
      PROVE  Count(missing, n) <= Count(gone, n)
  <2>1. \/ Count(missing, n) <= Count(gone, n)
        \/ Count(missing, n) + t <= Count(D \cup gone, n)
    BY DEF Skips
  <2>2. Count(D \cup gone, n) = Count(D, n) + Count(gone, n)
    BY CountOfUnion
  <2>3. Count(D, n) <= o
    BY <1>2, <1>6, CountGrows
  <2>4. Count(D, n) \in Nat /\ Count(gone, n) \in Nat /\ Count(missing, n) \in Nat
    BY <1>1, CountNat
  <2> QED BY <2>1, <2>2, <2>3, <2>4
<1>7. Count(missing, ko) <= Count(gone, ko)
  BY <1>6
<1>8. ASSUME NEW n \in 0 .. N, n <= kx \/ nxt = End
      PROVE  Count(rest, n) <= Count(gone, n)
  <2>1. CASE n <= ko
    <3>1. Count(rest, n) <= Count(missing, n)
      BY <1>1, CountGrows
    <3>2. Count(rest, n) \in Nat /\ Count(missing, n) \in Nat /\ Count(gone, n) \in Nat
      BY <1>1, CountNat
    <3> QED BY <1>6, <2>1, <3>1, <3>2
  <2>2. CASE ~(n <= ko)
    <3>1. \A m \in D : m <= n => m <= kx
      <4>1. CASE n <= kx
        BY <1>1, <4>1
      <4>2. CASE nxt = End
        <5>1. x = Cardinality(D)
          BY <1>1, <4>2 DEF End
        <5>2. \A m \in D : Count(D, m) <= Cardinality(D) /\ Count(D, m) = Count(D, m - 1) + 1
          BY CountNat, CountBelow
        <5> QED BY <1>3, <1>4, <5>1, <5>2
      <4> QED BY <1>8, <4>1, <4>2
    <3>2. UpTo(rest, n) \subseteq UpTo(missing, ko)
      BY <1>1, <1>5, <3>1 DEF UpTo
    <3>3. Count(rest, n) <= Count(missing, ko)
      BY <1>1, <3>2, CountMonotone
    <3>4. Count(gone, ko) <= Count(gone, n)
      BY <2>2, CountGrows
    <3>5. /\ Count(rest, n) \in Nat /\ Count(missing, ko) \in Nat
          /\ Count(gone, n) \in Nat /\ Count(gone, ko) \in Nat
      BY <1>1, CountNat
    <3> QED BY <1>7, <3>3, <3>4, <3>5
  <2> QED BY <2>1, <2>2
<1>9. ASSUME NEW n \in 0 .. N, ~(n <= kx), nxt # End
      PROVE  Count(rest, n) + nxt <= Count(D \cup gone, n)
  <2> DEFINE low  == UpTo(missing, ko)
             high == {m \in D : ~(m <= kx) /\ m <= n}
  <2>1. nxt = x
    BY <1>9
  <2>2. low \subseteq Names /\ high \subseteq Names
    BY <1>1 DEF UpTo
  <2>3. UpTo(rest, n) \subseteq low \cup high
    BY <1>1, <1>5 DEF UpTo
  <2>4. Count(rest, n) <= Cardinality(low) + Cardinality(high)
    <3>1. /\ IsFiniteSet(low) /\ IsFiniteSet(high) /\ IsFiniteSet(low \cap high)
          /\ Cardinality(low) \in Nat /\ Cardinality(high) \in Nat
          /\ Cardinality(low \cap high) \in Nat
          /\ Cardinality(UpTo(rest, n)) \in Nat
      <4>1. low \cap high \subseteq Names /\ UpTo(rest, n) \subseteq Names
        BY <2>2, <2>3
      <4> HIDE DEF low, high
      <4> QED BY <2>2, <4>1, NamesFinite
    <3> HIDE DEF low, high
    <3>2. /\ IsFiniteSet(low \cup high)
          /\ Cardinality(low \cup high) =
               Cardinality(low) + Cardinality(high) - Cardinality(low \cap high)
      BY <3>1, FS_Union
    <3>3. Cardinality(UpTo(rest, n)) <= Cardinality(low \cup high)
      BY <2>3, <3>2, FS_Subset
    <3> QED BY <3>1, <3>2, <3>3 DEF Count
  <2>5. Cardinality(high) = Count(D, n) - x
    <3>1. UpTo(D, n) = UpTo(D, kx) \cup high /\ UpTo(D, kx) \cap high = {}
      BY <1>1, <1>9 DEF UpTo
    <3>2. /\ IsFiniteSet(UpTo(D, kx)) /\ IsFiniteSet(high)
          /\ Cardinality(UpTo(D, kx)) \in Nat /\ Cardinality(high) \in Nat
      BY <2>2, CountNat, NamesFinite
    <3> HIDE DEF high
    <3>3. Cardinality(UpTo(D, n)) = Cardinality(UpTo(D, kx)) + Cardinality(high) - Cardinality({})
      BY <3>1, <3>2, FS_Union
    <3> QED BY <1>3, <3>2, <3>3, FS_EmptySet DEF Count
  <2>6. Cardinality(low) <= Count(gone, ko)
    BY <1>7 DEF Count
  <2>7. Count(gone, ko) <= Count(gone, n)
    <3>1. ko <= n
      <4>1. ko <= kx
        <5>1. CASE ~(ko <= kx)
          <6>1. Count(D, kx) <= Count(D, ko)
            BY <5>1, CountGrows
          <6>2. x <= o
            BY <1>2, <1>3, <6>1
          <6> QED BY <1>1, <1>9, <6>2
        <5> QED BY <5>1
      <4> QED BY <1>9, <4>1
    <3> QED BY <3>1, CountGrows
  <2>8. Count(D \cup gone, n) = Count(D, n) + Count(gone, n)
    BY CountOfUnion
  <2>9. /\ Count(rest, n) \in Nat /\ Cardinality(low) \in Nat /\ Count(gone, ko) \in Nat
        /\ Count(gone, n) \in Nat /\ Count(D, n) \in Nat
    BY <1>1, CountNat DEF Count
  <2> HIDE DEF low, high
  <2> QED BY <2>1, <2>4, <2>5, <2>6, <2>7, <2>8, <2>9
<1> QED BY <1>8, <1>9 DEF Skips, rest

(* Fewer are paired as well.                                               *)
LEMMA PairedFewer ==
  ASSUME NEW R1, NEW R2, NEW born, R1 \subseteq R2, R2 \subseteq Names, born \subseteq Names,
         Paired(R2, born)
  PROVE  Paired(R1, born)
<1> SUFFICES ASSUME NEW n \in Names PROVE Count(R1, n) <= Count(born, n - 1)
  BY DEF Paired
<1>1. Count(R1, n) <= Count(R2, n)
  BY NamesFinite, CountGrows
<1>2. Count(R2, n) <= Count(born, n - 1)
  BY DEF Paired
<1>3. Count(R1, n) \in Nat /\ Count(R2, n) \in Nat /\ Count(born, n - 1) \in Nat
  BY CountNat
<1> QED BY <1>1, <1>2, <1>3

(* A create moves the containers above it by one position, so that at most *)
(* one that was shown comes before the client again; the one created is    *)
(* below it.                                                               *)
LEMMA PairedAdds ==
  ASSUME NEW D, NEW S, NEW R, NEW born, D \subseteq Names, S \subseteq Names, R \subseteq Names,
         born \subseteq Names, NEW t \in Nat,
         NEW c \in Names, c \notin D, c \notin S, c \notin born,
         Paired(R \cup Ahead(S, t, D), born)
  PROVE  Paired(R \cup Ahead(S, t, D \cup {c}), born \cup {c})
<1> DEFINE before == R \cup Ahead(S, t, D)
           after  == R \cup Ahead(S, t, D \cup {c})
<1>1. before \subseteq Names /\ after \subseteq Names /\ \A m \in Names : m \in Nat /\ m - 1 \in Nat
  BY NamesFinite DEF Ahead
<1>2. \A m \in D : /\ Count(D, m - 1) \in Nat
                   /\ c < m => Count(D \cup {c}, m - 1) = Count(D, m - 1) + 1
                   /\ ~(c < m) => Count(D \cup {c}, m - 1) = Count(D, m - 1)
  <2> TAKE m \in D
  <2>1. Count(D, m - 1) \in Nat
    BY CountNat
  <2>2. ASSUME c < m PROVE Count(D \cup {c}, m - 1) = Count(D, m - 1) + 1
    <3>1. c <= m - 1
      BY <1>1, <2>2
    <3> QED BY <3>1, CountAdds
  <2>3. ASSUME ~(c < m) PROVE Count(D \cup {c}, m - 1) = Count(D, m - 1)
    <3>1. ~(c <= m - 1)
      BY <1>1, <2>3
    <3>2. UpTo(D \cup {c}, m - 1) = UpTo(D, m - 1)
      BY <3>1 DEF UpTo
    <3> QED BY <3>2 DEF Count
  <2> QED BY <2>1, <2>2, <2>3
<1>3. \A m \in after \ before : m \in D /\ c < m /\ Count(D, m - 1) + 1 = t
  BY <1>2 DEF Ahead
<1> HIDE DEF before, after
<1>4. \A d, e \in after \ before : d = e
  <2>1. \A d, e \in after \ before : d \in Nat /\ e \in Nat
    BY <1>1
  <2> SUFFICES ASSUME NEW d \in after \ before, NEW e \in after \ before, d < e PROVE FALSE
    BY <2>1
  <2>2. d \in D /\ e \in D /\ Count(D, d - 1) = Count(D, e - 1) /\ Count(D, d - 1) \in Nat
    BY <1>2, <1>3
  <2>3. Count(D, d) = Count(D, d - 1) + 1 /\ Count(D, d) \in Nat
    BY <2>2, CountBelow, CountNat
  <2>4. Count(D, d) <= Count(D, e - 1)
    <3>1. d <= e - 1 /\ d \in Nat /\ e - 1 \in Nat
      BY <1>1, <2>2
    <3> QED BY <3>1, CountGrows
  <2> QED BY <2>2, <2>3, <2>4
<1> SUFFICES ASSUME NEW n \in Names PROVE Count(after, n) <= Count(born \cup {c}, n - 1)
  BY DEF Paired, after
<1>5. Count(before, n) <= Count(born, n - 1)
  BY DEF Paired, before
<1>6. /\ Count(before, n) \in Nat /\ Count(after, n) \in Nat /\ Count(born, n - 1) \in Nat
      /\ Count(born \cup {c}, n - 1) \in Nat
  BY <1>1, CountNat
<1>7. CASE \A e \in after \ before : n < e
  <2>1. UpTo(after, n) \subseteq UpTo(before, n)
    BY <1>1, <1>7 DEF UpTo
  <2>2. Count(after, n) <= Count(before, n)
    BY <1>1, <2>1, CountMonotone
  <2>3. Count(born, n - 1) <= Count(born \cup {c}, n - 1)
    BY <1>1, CountGrows
  <2> QED BY <1>5, <1>6, <2>2, <2>3
<1>8. CASE \E e \in after \ before : ~(n < e)
  <2>1. PICK e \in after \ before : ~(n < e)
    BY <1>8
  <2>2. c <= n - 1
    BY <1>1, <1>3, <2>1
  <2>3. Count(born \cup {c}, n - 1) = Count(born, n - 1) + 1
    BY <2>2, CountAdds
  <2>4. UpTo(after, n) \subseteq UpTo(before \cup {e}, n)
    BY <1>4, <2>1 DEF UpTo
  <2>5. before \cup {e} \subseteq Names /\ e \notin before /\ e <= n
    BY <1>1, <2>1
  <2>6. Count(after, n) <= Count(before \cup {e}, n)
    BY <1>1, <2>4, <2>5, CountMonotone
  <2>7. Count(before \cup {e}, n) = Count(before, n) + 1
    BY <1>1, <2>5, CountAdds
  <2> QED BY <1>5, <1>6, <2>3, <2>6, <2>7
<1> QED BY <1>7, <1>8

(* A delete and a later token put fewer before the client.                 *)
LEMMA AheadOfFewer ==
  ASSUME NEW D1, NEW D2, NEW S1, NEW S2, NEW t1 \in Nat, NEW t2 \in Nat,
         D2 \subseteq D1, D1 \subseteq Names, S2 \subseteq S1, t1 <= t2
  PROVE  Ahead(S2, t2, D2) \subseteq Ahead(S1, t1, D1)
<1>1. ASSUME NEW m \in Ahead(S2, t2, D2) PROVE m \in Ahead(S1, t1, D1)
  <2>1. m \in S1 \cap D1 /\ t2 <= Count(D2, m - 1) /\ m - 1 \in Nat
    BY <1>1, NamesFinite DEF Ahead
  <2>2. Count(D2, m - 1) <= Count(D1, m - 1)
    BY <2>1, CountGrows
  <2>3. Count(D1, m - 1) \in Nat /\ Count(D2, m - 1) \in Nat
    BY CountNat
  <2> QED BY <2>1, <2>2, <2>3 DEF Ahead
<1> QED BY <1>1

(* Reading a page repeats only what was ahead, and those ahead of the next *)
(* token were ahead of this one.                                           *)
LEMMA AheadPage ==
  ASSUME NEW D, NEW seen, D \subseteq Names, seen \subseteq Names,
         NEW t \in 0 .. N, NEW o \in 0 .. N, NEW x \in 0 .. N,
         o = t \/ (o = Cardinality(D) /\ o <= t), o <= x, x <= Cardinality(D),
         NEW read, read \subseteq D,
         \A m \in D : m \in read <=> o <= Count(D, m - 1) /\ Count(D, m - 1) < x,
         NEW nxt, nxt = IF x < Cardinality(D) THEN x ELSE End
  PROVE  /\ seen \cap read \subseteq Ahead(seen, t, D)
         /\ Ahead(seen \cup read, nxt, D) \subseteq Ahead(seen, t, D)
<1>1. \A m \in D : Count(D, m - 1) \in Nat /\ Count(D, m - 1) < Cardinality(D)
  <2> TAKE m \in D
  <2>1. Count(D, m) <= Cardinality(D) /\ Count(D, m) = Count(D, m - 1) + 1
    BY CountNat, CountBelow
  <2> QED BY <2>1, CountNat, NamesFinite
<1>2. N \in Nat /\ Cardinality(D) \in 0 .. N
  BY NamesFinite
<1>3. \A m \in seen \cap read : m \in Ahead(seen, t, D)
  BY <1>1, <1>2 DEF Ahead
<1>4. ASSUME NEW m \in Ahead(seen \cup read, nxt, D)
      PROVE  m \in Ahead(seen, t, D)
  <2>1. m \in D /\ m \in seen \cup read /\ nxt <= Count(D, m - 1)
    BY DEF Ahead
  <2>2. x < Cardinality(D) /\ nxt = x
    BY <1>1, <1>2, <2>1 DEF End
  <2>3. m \notin read /\ m \in seen
    BY <1>1, <2>1, <2>2
  <2>4. o = t
    BY <2>2, <1>2
  <2> QED BY <1>1, <2>1, <2>2, <2>3, <2>4 DEF Ahead
<1> QED BY <1>3, <1>4

-----------------------------------------------------------------------------
(* One page.                                                               *)

(* A client holds only containers that there were, and a page is of        *)
(* complete ones, except for those that change while it is read.           *)
Existing ==
  /\ \A n \in old \cup page : life[n] # "absent"
  /\ \A n \in Names : times[n] > 0 => life[n] # "absent"
  /\ phase # "reading" => page = {} /\ shown = <<>>
  /\ phase = "reading" => \A n \in page \ touched : life[n] = "live"

(* What the layers make of the request that ended last.                    *)
Ended == last = NewExchange \/ Answered(last)

(* The table of exchanges has what the layers make of a request.           *)
LEMMA ServedAnswered ==
  ASSUME NEW flaw \in Flaws \cup {"none"}, NEW c \in Codes, NEW fault \in Faults
  PROVE  Answered(Served[<<flaw, c, fault>>])
<1>1. <<flaw, c, fault>> \in (Flaws \cup {"none"}) \X Codes \X Faults
  OBVIOUS
<1>2. Served[<<flaw, c, fault>>] = Serve(flaw, c, fault)
  BY <1>1 DEF Served
<1> QED BY <1>2, ServeAnswered

(* A request that a handler has decided on ends answered.                  *)
LEMMA AnswerEnds ==
  ASSUME NEW code \in Codes, NEW fault \in Faults, failures \in 0 .. MaxFailures,
         Answer(code, fault)
  PROVE  failures' \in 0 .. MaxFailures /\ Answered(last')
<1>1. Answered(last')
  BY ServedAnswered DEF Answer
<1>2. failures' \in 0 .. MaxFailures
  BY ListPagingAssumption DEF Answer
<1> QED BY <1>1, <1>2

(* The inductive invariant of one page.                                    *)
PageInv == TypeOK /\ Ended /\ Existing /\ ListedAsAsked

(* The initial states satisfy it.                                          *)
LEMMA InitPaged == Init => PageInv
<1> SUFFICES ASSUME Init PROVE PageInv
  OBVIOUS
<1>1. last \in Exchanges /\ last = NewExchange
  BY NewType DEF Init
<1>2. N \in Nat /\ MaxFailures \in Nat
  BY ListPagingAssumption
<1>3. /\ DOMAIN asked = {n \in Names : life[n] # "absent"}
      /\ \A n \in DOMAIN asked : asked[n] \in Specs
  BY DEF Init
<1>4. TypeOK /\ Ended
  BY <1>1, <1>2, <1>3 DEF Init, TypeOK, Exchanges, Ended, Lives, End
<1>5. Existing /\ ListedAsAsked
  BY DEF Init, Existing, ListedAsAsked
<1> QED BY <1>4, <1>5 DEF PageInv

(* A call lists Deployments, and calls touched what is being created or    *)
(* deleted.                                                                *)
LEMMA ListDeploymentsPaged ==
  ASSUME PageInv, NEW size \in 0 .. MaxPageSize, ListDeployments(size)
  PROVE  PageInv'
<1> DEFINE total  == Cardinality(Deployments)
           offset == Least(token, total)
           limit  == Least(PageSize(size), total - offset)
<1> USE DEF PageInv
<1>1. total \in 0 .. N
  BY NamesFinite DEF Deployments
<1>2. offset \in 0 .. N /\ offset <= total
  BY <1>1, NamesFinite DEF Least, TypeOK
<1>3. PageSize(size) \in Nat
  BY ListPagingAssumption DEF PageSize
<1>4. limit \in 0 .. N
  <2> HIDE DEF total, offset
  <2> QED BY <1>1, <1>2, <1>3, NamesFinite DEF Least
<1>5. NextToken(offset, limit, total) \in 0 .. End
  <2> HIDE DEF total, offset, limit
  <2> QED BY <1>1, <1>2, <1>4, NamesFinite DEF NextToken, End
<1>6. /\ Slice(offset, limit) \subseteq Deployments
      /\ Deployments \subseteq Names /\ Unsettled \subseteq Names
  BY DEF Slice, Deployments, Unsettled
<1>7. last' \in Exchanges /\ last' = NewExchange /\ UNCHANGED failures
  BY NewType DEF ListDeployments, NoAnswer
<1>8. /\ phase' = "reading" /\ page' = Slice(offset, limit)
      /\ next' = NextToken(offset, limit, total) /\ shown' = <<>> /\ touched' = Unsettled
      /\ UNCHANGED <<cluster, token, times>>
  BY DEF ListDeployments
<1> HIDE DEF total, offset, limit
<1>9. TypeOK' /\ Ended'
  BY <1>5, <1>6, <1>7, <1>8 DEF TypeOK, Ended, Exchanges, cluster
<1>10. Existing' /\ ListedAsAsked'
  BY <1>6, <1>8 DEF Existing, ListedAsAsked, cluster, Deployments, Unsettled, TypeOK
<1> QED BY <1>9, <1>10

(* A container is shown as it was asked for: if it is not touched, it is   *)
(* live, so its Service is the one its create made.                        *)
LEMMA BuildContainerPaged ==
  ASSUME PageInv, BuildContainer
  PROVE  PageInv'
<1> USE DEF PageInv
<1>1. PICK n \in Unread :
        shown' = [k \in DOMAIN shown \cup {n} |->
                    IF k = n THEN EnrichWithService(Bare[asked[n]], Service(n)) ELSE shown[k]]
  BY DEF BuildContainer
<1>2. last' \in Exchanges /\ last' = NewExchange /\ UNCHANGED failures
        /\ UNCHANGED <<cluster, phase, token, next, page, touched, times>> /\ phase = "reading"
  BY NewType DEF BuildContainer, NoAnswer
<1>3. n \in page /\ DOMAIN shown' \subseteq page /\ n \notin DOMAIN shown
  BY <1>1 DEF TypeOK, Unread
<1>4. asked[n] \in Specs
  BY <1>3 DEF TypeOK, Existing
<1> DEFINE c == EnrichWithService(Bare[asked[n]], Service(n))
<1>5. /\ \A p \in c.ports : p.visibility \in Visibilities
      /\ SameMemory(c.memory.min, asked[n].memory.min)
      /\ SameMemory(c.memory.max, asked[n].memory.max)
  BY <1>4, ContainerShown
<1>6. n \notin touched => ShownAsAsked(c.ports, asked[n].ports)
  <2> SUFFICES ASSUME n \notin touched PROVE ShownAsAsked(c.ports, asked[n].ports)
    OBVIOUS
  <2>1. life[n] = "live"
    BY <1>2, <1>3 DEF Existing
  <2>2. Service(n) = IF NeedsService(asked[n].ports)
                       THEN BuildService(asked[n].ports) ELSE NoService
    BY <2>1 DEF Service
  <2> QED BY <1>4, <2>2, ContainerShown
<1>7. shown' = [k \in DOMAIN shown \cup {n} |-> IF k = n THEN c ELSE shown[k]]
  BY <1>1
<1> HIDE DEF c
<1>8. \A k \in DOMAIN shown' : \/ k = n /\ shown'[k] = c
                               \/ k \in DOMAIN shown /\ shown'[k] = shown[k]
  <2>1. DOMAIN shown' = DOMAIN shown \cup {n}
    BY <1>7
  <2> TAKE k \in DOMAIN shown'
  <2>2. shown'[k] = IF k = n THEN c ELSE shown[k]
    BY <1>7, <2>1
  <2> QED BY <2>1, <2>2
<1>9. \A k \in DOMAIN shown' : \A p \in shown'[k].ports : p.visibility \in Visibilities
  BY <1>5, <1>8 DEF TypeOK
<1>10. TypeOK' /\ Ended'
  BY <1>2, <1>3, <1>9 DEF TypeOK, Ended, Exchanges, cluster
<1>11. ListedAsAsked'
  BY <1>2, <1>5, <1>6, <1>8 DEF ListedAsAsked, cluster
<1>12. Existing'
  BY <1>2 DEF Existing, cluster
<1> QED BY <1>10, <1>11, <1>12

(* An answer, good or bad, ends the page and the request.                  *)
LEMMA AnswersPaged ==
  ASSUME PageInv, ListFails \/ ListReturns \/ Refused
  PROVE  PageInv'
<1> USE DEF PageInv
<1>1. CASE ListFails
  <2>1. Answered(last')
    BY <1>1, ServedAnswered DEF ListFails, Codes
  <2>2. failures' \in 0 .. MaxFailures
    BY <1>1, ListPagingAssumption DEF ListFails, TypeOK
  <2>3. /\ phase' = "asking" /\ page' = {} /\ shown' = <<>> /\ touched' = {} /\ next' = 0
        /\ UNCHANGED <<cluster, token, times>>
    BY <1>1 DEF ListFails, Forget
  <2>4. TypeOK' /\ Ended'
    BY <2>1, <2>2, <2>3, NamesFinite DEF TypeOK, Ended, Answered, Exchanges, cluster, End
  <2>5. Existing' /\ ListedAsAsked'
    BY <2>3 DEF Existing, ListedAsAsked, cluster
  <2> QED BY <2>4, <2>5
<1>2. CASE ListReturns
  <2>1. Answered(last') /\ failures' \in 0 .. MaxFailures
    BY <1>2, AnswerEnds DEF ListReturns, TypeOK, Codes
  <2>2. /\ phase' \in {"asking", "done"}
        /\ page' = {} /\ shown' = <<>> /\ touched' = {} /\ next' = 0
        /\ UNCHANGED cluster
    BY <1>2 DEF ListReturns, Forget
  <2>3. times' \in [Names -> Nat] /\ token' \in 0 .. N
    BY <1>2, NamesFinite DEF ListReturns, TypeOK, End
  <2>4. TypeOK' /\ Ended'
    BY <2>1, <2>2, <2>3, NamesFinite DEF TypeOK, Ended, Answered, Exchanges, cluster, End
  <2>5. \A n \in Names : times'[n] > 0 => times[n] > 0 \/ n \in page
    BY <1>2 DEF ListReturns, TypeOK
  <2>6. Existing' /\ ListedAsAsked'
    BY <2>2, <2>5 DEF Existing, ListedAsAsked, cluster
  <2> QED BY <2>4, <2>6
<1>3. CASE Refused
  <2>1. Answered(last')
    <3>1. last' = TokenRefused \/ \E flaw \in Flaws : last' = Served[<<flaw, 200, "none">>]
      BY <1>3 DEF Refused
    <3>2. 200 \in Codes /\ 400 \in Codes /\ "none" \in Faults
      BY DEF Codes, Faults
    <3>3. Answered(TokenRefused)
      BY <3>2, ServedAnswered DEF TokenRefused
    <3>4. \A flaw \in Flaws : Answered(Served[<<flaw, 200, "none">>])
      BY <3>2, ServedAnswered
    <3> QED BY <3>1, <3>3, <3>4
  <2>2. failures' \in 0 .. MaxFailures
    BY <1>3, ListPagingAssumption DEF Refused, TypeOK
  <2>3. UNCHANGED <<cluster, phase, token, listing, times>>
    BY <1>3 DEF Refused
  <2>4. TypeOK' /\ Ended'
    BY <2>1, <2>2, <2>3 DEF TypeOK, Ended, Answered, Exchanges, cluster, listing
  <2>5. Existing' /\ ListedAsAsked'
    BY <2>3 DEF Existing, ListedAsAsked, cluster, listing
  <2> QED BY <2>4, <2>5
<1> QED BY <1>1, <1>2, <1>3

(* What a step of the other clients does to the container n and to the     *)
(* client that pages.                                                      *)
Change(n, value) ==
  /\ life[n] # "gone" /\ value \in Lives \ {"absent"} /\ (life[n] = "absent" => value # "gone")
  /\ phase # "done"
  /\ Moves(n, value)
  /\ DOMAIN asked' = DOMAIN asked \cup {n}
  /\ \A m \in DOMAIN asked' : asked'[m] \in Specs
  /\ \A m \in DOMAIN asked : asked'[m] = asked[m]
  /\ failures' \in 0 .. MaxFailures /\ last' \in Exchanges /\ Ended'

(* Every step of theirs is such a change.                                  *)
LEMMA OthersChange ==
  ASSUME TypeOK, Others
  PROVE  \E n \in Names, value \in Lives : Change(n, value)
<1>1. ASSUME NoAnswer \/ \E code \in Codes : Answer(code, "none")
      PROVE  failures' \in 0 .. MaxFailures /\ last' \in Exchanges /\ Ended'
  BY <1>1, NewType, AnswerEnds DEF NoAnswer, Ended, TypeOK, Faults, Answered
<1>2. ASSUME NEW n \in Names, NEW value \in Lives \ {"absent"},
             life[n] \notin {"absent", "gone"}, phase # "done", Becomes(n, value),
             NoAnswer \/ \E code \in Codes : Answer(code, "none")
      PROVE  Change(n, value)
  <2>1. asked' = asked /\ Moves(n, value)
    BY <1>2 DEF Becomes
  <2>2. DOMAIN asked = DOMAIN asked \cup {n}
    BY <1>2 DEF TypeOK
  <2>3. \A m \in DOMAIN asked : asked[m] \in Specs
    BY DEF TypeOK
  <2> QED BY <1>1, <1>2, <2>1, <2>2, <2>3 DEF Change
<1>3. PICK n \in Names : \/ CreateDeployment(n) \/ CreateService(n) \/ Rollback(n)
                         \/ DeleteService(n) \/ DeleteDeployment(n)
  BY DEF Others
<1>4. CASE CreateDeployment(n)
  <2>1. PICK spec \in Specs :
          /\ asked' = [m \in DOMAIN asked \cup {n} |-> IF m = n THEN spec ELSE asked[m]]
          /\ \/ NeedsService(spec.ports) /\ Moves(n, "creating") /\ NoAnswer
             \/ ~NeedsService(spec.ports) /\ Moves(n, "live") /\ Answer(201, "none")
    BY <1>4 DEF CreateDeployment
  <2>2. n \notin DOMAIN asked
    BY <1>4 DEF CreateDeployment, TypeOK
  <2>3. /\ DOMAIN asked' = DOMAIN asked \cup {n}
        /\ \A m \in DOMAIN asked' : asked'[m] \in Specs
        /\ \A m \in DOMAIN asked : asked'[m] = asked[m]
    BY <2>1, <2>2 DEF TypeOK
  <2>4. phase # "done" /\ life[n] = "absent"
    BY <1>4 DEF CreateDeployment, MayChange
  <2>5. NoAnswer \/ \E code \in Codes : Answer(code, "none")
    BY <2>1 DEF Codes
  <2>6. \E value \in {"creating", "live"} : Moves(n, value)
    BY <2>1
  <2> QED BY <1>1, <2>3, <2>4, <2>5, <2>6 DEF Change, Lives
<1>5. CASE CreateService(n)
  BY <1>2, <1>5 DEF CreateService, Codes, Lives
<1>6. CASE Rollback(n)
  BY <1>2, <1>6 DEF Rollback, MayChange, Codes, Lives
<1>7. CASE DeleteService(n)
  BY <1>2, <1>7 DEF DeleteService, MayChange, Codes, Lives
<1>8. CASE DeleteDeployment(n)
  BY <1>2, <1>8 DEF DeleteDeployment, MayChange, Codes, Lives
<1> QED BY <1>3, <1>4, <1>5, <1>6, <1>7, <1>8

(* A change touches its container and no other.                            *)
LEMMA ChangePaged ==
  ASSUME PageInv, NEW n \in Names, NEW value \in Lives, Change(n, value)
  PROVE  PageInv'
<1> USE DEF PageInv
<1>1. /\ life' = [life EXCEPT ![n] = value] /\ life' \in [Names -> Lives]
      /\ UNCHANGED <<old, phase, token, next, page, shown, times>>
      /\ touched' = IF phase = "reading" THEN touched \cup {n} ELSE touched
      /\ value # "absent"
  BY DEF Change, Moves, TypeOK
<1>2. DOMAIN asked' = {m \in Names : life'[m] # "absent"}
  BY <1>1 DEF Change, TypeOK
<1>3. /\ \A m \in DOMAIN asked' : asked'[m] \in Specs
      /\ \A m \in DOMAIN asked : asked'[m] = asked[m]
      /\ failures' \in 0 .. MaxFailures /\ last' \in Exchanges /\ Ended'
  BY DEF Change
<1>4. TypeOK' /\ Ended'
  BY <1>1, <1>2, <1>3 DEF TypeOK, Exchanges
<1>5. \A m \in Names : /\ life[m] # "absent" => life'[m] # "absent"
                      /\ m # n => life'[m] = life[m]
  BY <1>1 DEF TypeOK
<1>6. old \subseteq Names /\ page \subseteq Names
  BY DEF TypeOK
<1>7. Existing'
  BY <1>1, <1>5, <1>6 DEF Existing
<1>8. \A m \in DOMAIN shown : m \in DOMAIN asked
  BY DEF TypeOK, Existing
<1>9. ListedAsAsked'
  BY <1>1, <1>3, <1>8 DEF ListedAsAsked
<1> QED BY <1>4, <1>7, <1>9

(* Every step keeps the invariant of a page.                               *)
LEMMA NextPaged == PageInv /\ [Next]_vars => PageInv'
<1> SUFFICES ASSUME PageInv, [Next]_vars PROVE PageInv'
  OBVIOUS
<1>1. CASE \E size \in 0 .. MaxPageSize : ListDeployments(size)
  BY <1>1, ListDeploymentsPaged
<1>2. CASE BuildContainer
  BY <1>2, BuildContainerPaged
<1>3. CASE ListFails \/ ListReturns \/ Refused
  BY <1>3, AnswersPaged
<1>4. CASE Others
  <2>1. \E n \in Names, value \in Lives : Change(n, value)
    BY <1>4, OthersChange DEF PageInv
  <2> QED BY <2>1, ChangePaged
<1>5. CASE UNCHANGED vars
  BY <1>5 DEF vars, cluster, listing, PageInv, TypeOK, Ended, Existing, ListedAsAsked
<1> QED BY <1>1, <1>2, <1>3, <1>4, <1>5 DEF Next, Listing

(* It holds in every state.                                                *)
THEOREM Paged == Spec => []PageInv
BY InitPaged, NextPaged, PTL DEF Spec

(* Every variable keeps its type: offsets stay within the list, a page     *)
(* within the names, failures within their bound.                          *)
THEOREM TypesHold == Spec => []TypeOK
<1>1. PageInv => TypeOK
  BY DEF PageInv
<1> QED BY <1>1, Paged, PTL

(* A listing shows ports and memory as they were asked for, except for the *)
(* visibility of containers created or deleted during the call, for any    *)
(* number of containers and any ports and quantities.                      *)
THEOREM ListedAsAskedHolds == Spec => []ListedAsAsked
<1>1. PageInv => ListedAsAsked
  BY DEF PageInv
<1> QED BY <1>1, Paged, PTL

(* Every request is logged with the status its client receives, unless its *)
(* handler panics.                                                         *)
THEOREM LoggedAsAnsweredHolds == Spec => []LoggedAsAnswered
<1>1. PageInv => LoggedAsAnswered
  BY DEF PageInv, Ended, Answered, LoggedAsAnswered
<1> QED BY <1>1, Paged, PTL

(* Every request is answered unless it is aborted on purpose, and by two   *)
(* status lines only over a broken connection.                             *)
THEOREM AnsweredOnceHolds == Spec => []AnsweredOnce
<1>1. PageInv => AnsweredOnce
  BY DEF PageInv, Ended, Answered, AnsweredOnce
<1> QED BY <1>1, Paged, PTL

-----------------------------------------------------------------------------
(* The paging.                                                             *)

(* Created at some time, or there from the start.                          *)
Existed == {n \in Names : life[n] # "absent"}
(* There all the time, and not listed yet.                                 *)
Missing == {n \in Stayed : times[n] = 0}
(* Listed.                                                                 *)
Seen    == {n \in Names : times[n] > 0}
(* Listed again.                                                           *)
Again   == {n \in Names : times[n] > 1}

(* The inductive invariant of the whole paging. While a page is read it    *)
(* holds for the token of the call, which is used again if the answer is   *)
(* lost, and for the token after it, as if the page were received.         *)
PagingInv ==
  /\ phase = "asking" =>
       /\ Skips(Missing, token, Gone, Existed)
       /\ Paired(Again \cup Ahead(Seen, token, Deployments), Born)
  /\ phase = "reading" =>
       /\ Skips(Missing, token, Gone, Existed)
       /\ Skips(Missing \ page, next, Gone, Existed)
       /\ Paired(Again \cup Ahead(Seen, token, Deployments), Born)
       /\ Paired(Again \cup (Seen \cap page) \cup Ahead(Seen \cup page, next, Deployments), Born)
  /\ phase = "done" =>
       /\ Skips(Missing, End, Gone, Existed)
       /\ Paired(Again \cup Ahead(Seen, End, Deployments), Born)

(* The initial states satisfy it: everything is ahead of the token.        *)
LEMMA InitPaging == Init => PagingInv
<1> SUFFICES ASSUME Init PROVE PagingInv
  OBVIOUS
<1>1. /\ phase = "asking" /\ token = 0 /\ Gone = {} /\ Born = {} /\ Seen = {} /\ Again = {}
      /\ Missing \subseteq Existed /\ Existed \subseteq Names
  BY DEF Init, Gone, Born, Seen, Again, Missing, Stayed, Existed
<1>2. Skips(Missing, token, Gone, Existed)
  <2> SUFFICES ASSUME NEW n \in 0 .. N
               PROVE  token # End /\ Count(Missing, n) + token <= Count(Existed, n)
    BY DEF Skips
  <2>1. n \in Nat /\ N \in Nat
    BY NamesFinite
  <2>2. Count(Missing, n) <= Count(Existed, n) /\ Count(Missing, n) \in Nat
    BY <1>1, <2>1, CountGrows, CountNat
  <2> QED BY <1>1, <2>1, <2>2 DEF End
<1>3. Paired(Again \cup Ahead(Seen, token, Deployments), Born)
  <2>1. Again \cup Ahead(Seen, token, Deployments) = {}
    BY <1>1 DEF Ahead
  <2>2. \A n : UpTo({}, n) = {}
    BY DEF UpTo
  <2> QED BY <1>1, <2>1, <2>2, FS_EmptySet DEF Paired, Count
<1> QED BY <1>1, <1>2, <1>3 DEF PagingInv

(* A call reads the containers from one position to another, and the next  *)
(* token is the latter unless the list ends there.                         *)
LEMMA PageRead ==
  ASSUME TypeOK, NEW size \in 0 .. MaxPageSize, ListDeployments(size)
  PROVE  \E o, x \in 0 .. N :
           /\ o = token \/ (o = Cardinality(Deployments) /\ o <= token)
           /\ x <= Cardinality(Deployments)
           /\ o < x \/ (o = x /\ x = Cardinality(Deployments))
           /\ page' = {m \in Deployments : /\ o <= Count(Deployments, m - 1)
                                           /\ Count(Deployments, m - 1) < x}
           /\ next' = IF x < Cardinality(Deployments) THEN x ELSE End
<1> DEFINE total  == Cardinality(Deployments)
           offset == Least(token, total)
           limit  == Least(PageSize(size), total - offset)
<1>1. Deployments \subseteq Names
  BY DEF Deployments
<1>2. total \in 0 .. N
  BY <1>1, NamesFinite
<1>3. PageSize(size) \in Nat \ {0}
  BY ListPagingAssumption DEF PageSize
<1>4. page' = Slice(offset, limit) /\ next' = NextToken(offset, limit, total)
  BY DEF ListDeployments
<1>5. page' = {m \in Deployments : offset <= Count(Deployments, m - 1)
                                   /\ Count(Deployments, m - 1) < offset + limit}
  <2> HIDE DEF offset, limit
  <2>1. \A m \in Deployments : Position(m) = Count(Deployments, m - 1)
    BY <1>1, PositionIsCount
  <2> QED BY <1>4, <2>1 DEF Slice
<1> HIDE DEF total
<1>6. /\ offset \in 0 .. N /\ offset <= total
      /\ offset = token \/ (offset = total /\ offset <= token)
  BY <1>2, NamesFinite DEF Least, TypeOK
<1> HIDE DEF offset
<1>7. /\ offset + limit \in 0 .. N /\ offset + limit <= total
      /\ offset < offset + limit \/ (offset = offset + limit /\ offset + limit = total)
  BY <1>2, <1>3, <1>6, NamesFinite DEF Least
<1> HIDE DEF limit
<1>8. next' = IF offset + limit < total THEN offset + limit ELSE End
  BY <1>4 DEF NextToken
<1> QED BY <1>5, <1>6, <1>7, <1>8 DEF total

(* How the sets of containers lie in each other.                           *)
LEMMA Sets ==
  ASSUME PageInv
  PROVE  /\ Deployments \subseteq Names /\ Gone \subseteq Names /\ Born \subseteq Names
         /\ Existed = Deployments \cup Gone /\ Deployments \cap Gone = {}
         /\ Missing \subseteq Deployments /\ Seen \subseteq Existed /\ Again \subseteq Seen
         /\ page \subseteq Existed
         /\ token \in 0 .. End /\ token \in 0 .. N /\ next \in 0 .. End
<1> USE DEF PageInv
<1>1. \A n \in Names : life[n] \in Lives
  BY DEF TypeOK
<1>2. /\ Deployments \subseteq Names /\ Gone \subseteq Names /\ Born \subseteq Names
      /\ Existed = Deployments \cup Gone /\ Deployments \cap Gone = {}
  BY <1>1 DEF Deployments, Gone, Born, Existed, Lives
<1>3. Missing \subseteq Existed /\ Missing \cap Gone = {} /\ Seen \subseteq Existed
        /\ page \subseteq Existed
  BY DEF Existing, TypeOK, Missing, Stayed, Seen, Existed
<1>4. Again \subseteq Seen
  BY DEF Again, Seen, TypeOK
<1>5. token \in 0 .. End /\ token \in 0 .. N /\ next \in 0 .. End
  BY NamesFinite DEF TypeOK, End
<1> QED BY <1>2, <1>3, <1>4, <1>5

(* Reading a page keeps the invariant.                                     *)
LEMMA ListDeploymentsPaging ==
  ASSUME PageInv, PagingInv, NEW size \in 0 .. MaxPageSize, ListDeployments(size)
  PROVE  PagingInv'
<1> DEFINE D == Deployments
<1>1. PICK o, x \in 0 .. N :
        /\ o = token \/ (o = Cardinality(D) /\ o <= token)
        /\ x <= Cardinality(D)
        /\ o < x \/ (o = x /\ x = Cardinality(D))
        /\ page' = {m \in D : o <= Count(D, m - 1) /\ Count(D, m - 1) < x}
        /\ next' = IF x < Cardinality(D) THEN x ELSE End
  BY PageRead DEF PageInv
<1>2. /\ phase = "asking" /\ phase' = "reading" /\ UNCHANGED <<cluster, token, times>>
  BY DEF ListDeployments
<1>3. /\ D' = D /\ Missing' = Missing /\ Gone' = Gone /\ Existed' = Existed /\ Born' = Born
      /\ Seen' = Seen /\ Again' = Again /\ token' = token
  BY <1>2 DEF cluster, Missing, Stayed, Gone, Existed, Born, Seen, Again, Deployments
<1>4. /\ Skips(Missing, token, Gone, Existed)
      /\ Paired(Again \cup Ahead(Seen, token, D), Born)
  BY <1>2 DEF PagingInv
<1>5. /\ D \subseteq Names /\ Gone \subseteq Names /\ Born \subseteq Names
      /\ Existed = D \cup Gone /\ D \cap Gone = {}
      /\ Missing \subseteq D /\ Seen \subseteq Names /\ Again \subseteq Names
      /\ token \in 0 .. N
  BY Sets
<1> HIDE DEF D
<1>6. o <= token /\ o <= x
  BY <1>1, <1>5
<1>7. /\ page' \subseteq D
       /\ \A m \in D : m \in page' <=> o <= Count(D, m - 1) /\ Count(D, m - 1) < x
  BY <1>1
<1>8. Skips(Missing \ page', next', Gone, Existed)
  BY <1>1, <1>4, <1>5, <1>6, <1>7, SkipsPage
<1>9. /\ Seen \cap page' \subseteq Ahead(Seen, token, D)
      /\ Ahead(Seen \cup page', next', D) \subseteq Ahead(Seen, token, D)
  BY <1>1, <1>5, <1>6, <1>7, AheadPage
<1>10. Again \cup Ahead(Seen, token, D) \subseteq Names
  BY <1>5 DEF Ahead
<1>11. Paired(Again \cup (Seen \cap page') \cup Ahead(Seen \cup page', next', D), Born)
  BY <1>4, <1>5, <1>9, <1>10, PairedFewer
<1> QED BY <1>2, <1>3, <1>4, <1>8, <1>11 DEF PagingInv, D

(* Receiving it does, and so does losing it.                               *)
LEMMA ListReturnsPaging ==
  ASSUME PageInv, PagingInv, ListReturns
  PROVE  PagingInv'
<1>1. phase = "reading" /\ UNCHANGED cluster
  BY DEF ListReturns
<1>2. /\ Deployments' = Deployments /\ Gone' = Gone /\ Existed' = Existed /\ Born' = Born
      /\ Stayed' = Stayed /\ Stayed \subseteq Names
  BY <1>1 DEF PageInv, TypeOK, cluster, Deployments, Gone, Existed, Born, Stayed
<1>3. CASE /\ times' = [n \in Names |-> IF n \in page THEN times[n] + 1 ELSE times[n]]
           /\ phase' = IF next = End THEN "done" ELSE "asking"
           /\ token' = IF next = End THEN 0 ELSE next
  <2>1. \A n \in Names : /\ times[n] \in Nat
                         /\ times'[n] = IF n \in page THEN times[n] + 1 ELSE times[n]
    BY <1>3 DEF PageInv, TypeOK
  <2>2. page \subseteq Names
    BY DEF PageInv, TypeOK
  <2>3. Missing' = Missing \ page /\ Seen' = Seen \cup page /\ Again' = Again \cup (Seen \cap page)
    BY <1>2, <2>1, <2>2 DEF Missing, Seen, Again
  <2> QED BY <1>1, <1>2, <1>3, <2>3 DEF PagingInv
<1>4. CASE phase' = "asking" /\ UNCHANGED <<times, token>>
  <2>1. Missing' = Missing /\ Seen' = Seen /\ Again' = Again
    BY <1>2, <1>4 DEF Missing, Seen, Again
  <2> QED BY <1>1, <1>2, <1>4, <2>1 DEF PagingInv
<1> QED BY <1>3, <1>4 DEF ListReturns

(* What a change of the cluster does to the sets: one is born, or one at   *)
(* most goes.                                                              *)
LEMMA ChangedSets ==
  ASSUME PageInv, NEW n \in Names, NEW value \in Lives, Change(n, value)
  PROVE  /\ UNCHANGED <<phase, token, next, page, Seen, Again>> /\ phase # "done"
         /\ Missing' \subseteq Missing /\ Gone \subseteq Gone' /\ Existed \subseteq Existed'
         /\ \/ /\ n \notin Existed /\ n \notin Born
               /\ Deployments' = Deployments \cup {n} /\ Born' = Born \cup {n}
            \/ Deployments' \subseteq Deployments /\ Born' = Born
<1>1. /\ life' = [life EXCEPT ![n] = value] /\ value # "absent" /\ life[n] # "gone"
      /\ life[n] = "absent" => value # "gone"
      /\ UNCHANGED <<old, phase, token, next, page, times>> /\ phase # "done"
  BY DEF Change, Moves
<1>2. /\ \A m \in Names : life[m] \in Lives /\ life'[m] = IF m = n THEN value ELSE life[m]
      /\ \A m \in old : m \in Names /\ life[m] # "absent"
  BY <1>1 DEF PageInv, TypeOK, Existing
<1>3. UNCHANGED <<Seen, Again>>
  BY <1>1 DEF Seen, Again
<1>4. Missing' \subseteq Missing /\ Gone \subseteq Gone' /\ Existed \subseteq Existed'
  BY <1>1, <1>2 DEF Missing, Stayed, Gone, Existed
<1>5. CASE life[n] = "absent"
  <2>1. n \notin Existed /\ n \notin Born /\ n \notin Deployments /\ n \notin old
    BY <1>2, <1>5 DEF Existed, Born, Deployments
  <2>2. value \in {"creating", "live", "deleting"}
    BY <1>1, <1>5 DEF Lives
  <2>3. Deployments' = Deployments \cup {n}
    BY <1>2, <2>2 DEF Deployments
  <2>4. Born' = Born \cup {n}
    BY <1>1, <1>2, <2>1 DEF Born
  <2> QED BY <1>1, <1>3, <1>4, <2>1, <2>3, <2>4
<1>6. CASE life[n] # "absent"
  <2>1. Deployments' \subseteq Deployments
    BY <1>1, <1>2, <1>6 DEF Deployments, Lives
  <2>2. Born' = Born
    BY <1>1, <1>2, <1>6 DEF Born
  <2> QED BY <1>1, <1>3, <1>4, <2>1, <2>2
<1> QED BY <1>1, <1>3, <1>4, <1>5, <1>6

(* It keeps the invariant.                                                 *)
LEMMA ChangePaging ==
  ASSUME PageInv, PageInv', PagingInv,
         NEW n \in Names, NEW value \in Lives, Change(n, value)
  PROVE  PagingInv'
<1>1. /\ UNCHANGED <<phase, token, next, page, Seen, Again>> /\ phase # "done"
      /\ Missing' \subseteq Missing /\ Gone \subseteq Gone' /\ Existed \subseteq Existed'
      /\ \/ /\ n \notin Existed /\ n \notin Born
            /\ Deployments' = Deployments \cup {n} /\ Born' = Born \cup {n}
         \/ Deployments' \subseteq Deployments /\ Born' = Born
  BY ChangedSets
<1>2. /\ Deployments \subseteq Names /\ Gone \subseteq Names /\ Born \subseteq Names
      /\ Existed = Deployments \cup Gone /\ Missing \subseteq Names
      /\ Seen \subseteq Existed /\ Again \subseteq Seen /\ page \subseteq Existed
      /\ token \in 0 .. End /\ next \in 0 .. End
  BY Sets
<1>3. Gone' \subseteq Names /\ Existed' \subseteq Names
  BY DEF Gone, Existed
<1>4. ASSUME NEW S1, NEW S2, NEW t \in 0 .. End, S2 \subseteq S1, S1 \subseteq Names,
             Skips(S1, t, Gone, Existed)
      PROVE  Skips(S2, t, Gone', Existed')
  BY <1>1, <1>3, <1>4, SkipsMonotone
<1>5. ASSUME NEW S, NEW R, NEW t \in 0 .. End, S \subseteq Existed, R \subseteq Existed,
             Paired(R \cup Ahead(S, t, Deployments), Born)
      PROVE  Paired(R \cup Ahead(S, t, Deployments'), Born')
  <2>1. t \in Nat /\ S \subseteq Names /\ R \subseteq Names
    BY <1>2, <1>5, NamesFinite DEF End
  <2>2. CASE /\ n \notin Existed /\ n \notin Born
             /\ Deployments' = Deployments \cup {n} /\ Born' = Born \cup {n}
    <3>1. n \notin Deployments /\ n \notin S
      BY <1>2, <1>5, <2>2
    <3> QED BY <1>2, <1>5, <2>1, <2>2, <3>1, PairedAdds
  <2>3. CASE Deployments' \subseteq Deployments /\ Born' = Born
    <3>1. Ahead(S, t, Deployments') \subseteq Ahead(S, t, Deployments)
      BY <1>2, <2>1, <2>3, AheadOfFewer
    <3>2. R \cup Ahead(S, t, Deployments) \subseteq Names
      BY <1>2, <2>1 DEF Ahead
    <3> QED BY <1>2, <1>5, <2>3, <3>1, <3>2, PairedFewer
  <2> QED BY <1>1, <2>2, <2>3
<1>6. CASE phase = "asking"
  <2>1. Skips(Missing', token, Gone', Existed')
    BY <1>1, <1>2, <1>4, <1>6 DEF PagingInv
  <2>2. Paired(Again \cup Ahead(Seen, token, Deployments'), Born')
    BY <1>2, <1>5, <1>6 DEF PagingInv
  <2> QED BY <1>1, <1>6, <2>1, <2>2 DEF PagingInv
<1>7. CASE phase = "reading"
  <2>1. Skips(Missing', token, Gone', Existed')
    BY <1>1, <1>2, <1>4, <1>7 DEF PagingInv
  <2>2. Skips(Missing' \ page, next, Gone', Existed')
    <3>1. Missing' \ page \subseteq Missing \ page /\ Missing \ page \subseteq Names
      BY <1>1, <1>2
    <3> QED BY <1>2, <1>4, <1>7, <3>1 DEF PagingInv
  <2>3. Paired(Again \cup Ahead(Seen, token, Deployments'), Born')
    BY <1>2, <1>5, <1>7 DEF PagingInv
  <2>4. Paired(Again \cup (Seen \cap page) \cup Ahead(Seen \cup page, next, Deployments'), Born')
    <3>1. Again \cup (Seen \cap page) \subseteq Existed /\ Seen \cup page \subseteq Existed
      BY <1>2
    <3> QED BY <1>2, <1>5, <1>7, <3>1 DEF PagingInv
  <2> QED BY <1>1, <1>7, <2>1, <2>2, <2>3, <2>4 DEF PagingInv
<1> QED BY <1>1, <1>6, <1>7 DEF PageInv, TypeOK

(* So does every step.                                                     *)
LEMMA NextPaging == PageInv /\ PageInv' /\ PagingInv /\ [Next]_vars => PagingInv'
<1> SUFFICES ASSUME PageInv, PageInv', PagingInv, [Next]_vars PROVE PagingInv'
  OBVIOUS
<1>1. CASE \E size \in 0 .. MaxPageSize : ListDeployments(size)
  BY <1>1, ListDeploymentsPaging
<1>2. ASSUME UNCHANGED <<cluster, token, times>>
      PROVE  UNCHANGED <<Missing, Gone, Existed, Born, Seen, Again, Deployments, token>>
  BY <1>2 DEF cluster, Missing, Stayed, Gone, Existed, Born, Seen, Again, Deployments
<1>3. CASE BuildContainer
  <2>1. UNCHANGED <<cluster, phase, token, next, page, times>>
    BY <1>3 DEF BuildContainer
  <2> QED BY <1>2, <2>1 DEF PagingInv
<1>4. CASE ListFails
  <2>1. /\ UNCHANGED <<cluster, token, times>> /\ phase = "reading" /\ phase' = "asking"
    BY <1>4 DEF ListFails
  <2> QED BY <1>2, <2>1 DEF PagingInv
<1>5. CASE ListReturns
  BY <1>5, ListReturnsPaging
<1>6. CASE Refused \/ UNCHANGED vars
  <2>1. UNCHANGED <<cluster, phase, token, next, page, times>>
    BY <1>6 DEF Refused, vars, listing
  <2> QED BY <1>2, <2>1 DEF PagingInv
<1>7. CASE Others
  <2>1. \E n \in Names, value \in Lives : Change(n, value)
    BY <1>7, OthersChange DEF PageInv
  <2> QED BY <2>1, ChangePaging
<1> QED BY <1>1, <1>3, <1>4, <1>5, <1>6, <1>7 DEF Next, Listing

(* It holds in every state.                                                *)
THEOREM Paging == Spec => [](PageInv /\ PagingInv)
<1>1. PageInv /\ PagingInv /\ [Next]_vars => (PageInv /\ PagingInv)'
  BY NextPaged, NextPaging
<1> QED BY InitPaged, InitPaging, <1>1, PTL DEF Spec

(* A listing misses no more of the containers that stayed, up to any of    *)
(* them, than were deleted below it, for any number of containers, any     *)
(* page sizes and any interleaving of creates, deletes, failures and       *)
(* retries: without deletes it is complete.                                *)
THEOREM SkippedByDeletesHolds == Spec => []SkippedByDeletes
<1>1. PageInv /\ PagingInv => SkippedByDeletes
  <2> SUFFICES ASSUME PageInv, PagingInv, phase = "done", NEW n \in Missing
               PROVE  Cardinality(UpTo(Missing, n)) <= Cardinality(Below(Gone, n))
    BY DEF SkippedByDeletes, Missing
  <2>1. n \in 0 .. N /\ n \notin Gone
    BY NamesFinite, Sets DEF Missing, Stayed
  <2>2. Count(Missing, n) <= Count(Gone, n)
    BY <2>1 DEF PagingInv, Skips
  <2>3. Below(Gone, n) = UpTo(Gone, n)
    <3>1. \A m \in Gone : m < n <=> m <= n
      BY <2>1, NamesFinite, Sets
    <3> QED BY <3>1 DEF Below, UpTo
  <2> QED BY <2>2, <2>3 DEF Count
<1> QED BY <1>1, Paging, PTL

(* ... and repeats no more than were created below.                        *)
THEOREM RepeatedByCreatesHolds == Spec => []RepeatedByCreates
<1>1. PageInv /\ PagingInv => RepeatedByCreates
  <2> SUFFICES ASSUME PageInv, PagingInv, NEW n \in Again
               PROVE  Cardinality(UpTo(Again, n)) <= Cardinality(Below(Born, n))
    BY DEF RepeatedByCreates, Again
  <2>1. /\ Again \subseteq Names /\ Born \subseteq Names
        /\ \A S, t : Ahead(S, t, Deployments) \subseteq Names
    BY Sets DEF Ahead
  <2>2. \E t : Paired(Again \cup Ahead(Seen, t, Deployments), Born)
    BY DEF PagingInv, PageInv, TypeOK
  <2>3. PICK t : Paired(Again \cup Ahead(Seen, t, Deployments), Born)
    BY <2>2
  <2>4. Again \cup Ahead(Seen, t, Deployments) \subseteq Names
    BY <2>1
  <2>5. Paired(Again, Born)
    BY <2>1, <2>3, <2>4, PairedFewer
  <2>6. Count(Again, n) <= Count(Born, n - 1)
    BY <2>1, <2>5 DEF Paired
  <2>7. Below(Born, n) = UpTo(Born, n - 1)
    BY <2>1, CountBelow
  <2> QED BY <2>6, <2>7 DEF Count
<1> QED BY <1>1, Paging, PTL
=============================================================================
