----------------------------- MODULE ServerProofs -----------------------------
(***************************************************************************)
(* Proofs about the connections of the server, for any number of clients,  *)
(* workers and descriptors and for any requests: a client that waits for   *)
(* its answers is served by one thread at a time, so that its connection   *)
(* is not deleted under a worker; what the server writes for it goes to it *)
(* and to nobody else, in the order of its requests, and tells what became *)
(* of each; and what was committed is what was asked for.                  *)
(***************************************************************************)
EXTENDS Server, FiniteSetTheorems, InductionLemmas, SequenceTheorems, TLAPS

-----------------------------------------------------------------------------
(* The inductive invariant *)

Requests == [id : Nat, stmt : Kinds, half : BOOLEAN]
PartSet == [c : Clients, id : Nat, what : Terminators \cup {"cols", "row", "debug"}]
Nets == [reqs : Seq(Requests), closed : BOOLEAN, script : Seq([stmt : Kinds, half : BOOLEAN])]

\* Between the request and its answer; afterwards the connection is used, or ended,
\* without a request that is open.
Served == {"sql", "open", "rows", "debug", "flush"}
WkSet == [pc : Served \cup {"idle", "close", "free", "finish"}, c : Clients \cup {None},
          req : Requests \cup {None}, op : BOOLEAN, rc : BOOLEAN, drop : BOOLEAN]
WkOK(k) ==
  /\ k \in WkSet
  /\ k.pc = "idle" => k.c = None
  /\ k.pc # "idle" => k.c \in Clients /\ k.req \in Requests

TypeInv ==
  /\ owner \in [Fds -> Clients \cup {"file", None}]
  /\ comm \in [Clients -> {"none", "live", "closing", "freed"}]
  /\ fd \in [Clients -> Fds \cup {None}] /\ \A c \in Clients : comm[c] # "none" => fd[c] \in Fds
  /\ session = [c \in Clients |-> session[c]]
  /\ out \in [Clients -> Seq(PartSet)] /\ got \in [Clients \cup {"file"} -> Seq(PartSet)]
  /\ net \in [Clients -> Nets] /\ sent \in [Clients -> Seq([id : Nat, stmt : Kinds])]
  /\ queue \in Seq([c : Clients, req : Requests])
  /\ wk = [w \in Workers |-> wk[w]] /\ \A w \in Workers : WkOK(wk[w])

ConnInv ==
  /\ \A c \in Clients : comm[c] = "freed" => session[c] = NoSession
  /\ \A c \in Clients : comm[c] = "live" => owner[fd[c]] = c
  /\ \A w \in Workers : wk[w].pc = "free" => comm[wk[w].c] \in {"closing", "freed"}

EvInv ==
  /\ ev \in [pc : {"idle", "read", "close", "free"}, c : Clients \cup {None}]
  /\ ev.pc # "idle" => ev.c \in Clients
  /\ ev.pc \in {"read", "close"} => comm[ev.c] = "live"
  /\ ev.pc \in {"close", "free"} => net[ev.c].closed
  /\ ev.pc = "free" => comm[ev.c] \in {"closing", "freed"}

\* A writer holds nothing but its own connection's answers.
OutInv == \A c \in Clients : \A i \in 1 .. Len(out[c]) : out[c][i].c = c

\* The three places a request can be in: on its way, in the queue, with a worker.
InQueue(q, c) == \E i \in 1 .. Len(q) : q[i].c = c
Once(q, c) == \A i, j \in 1 .. Len(q) : q[i].c = c /\ q[j].c = c => i = j
Serves(k, c) == k.c = c /\ k.pc \in Served
Busy(c, n, q, k) == n.reqs # <<>> \/ InQueue(q, c) \/ \E w \in Workers : Serves(k[w], c)

\* A sequence of parts has the end of one answer at most.
OneEnd(p) == \A i, j \in 1 .. Len(p) : p[i].what \in Terminators /\ p[j].what \in Terminators => i = j

\* A client that has waited has at most one request open.  Its connection cm is
\* neither closed nor given up while the request is in one of the three places, its
\* writer o holds no more than the answer being written.  n is what it has sent and
\* not been read, e of its l requests are answered, q is the queue, k the workers.
OneRequest(c, n, q, k) ==
  /\ Len(n.reqs) <= 1 /\ Once(q, c)
  /\ \A v, w \in Workers : Serves(k[v], c) /\ Serves(k[w], c) => v = w
  /\ n.reqs # <<>> => ~InQueue(q, c) /\ \A w \in Workers : ~Serves(k[w], c)
  /\ InQueue(q, c) => \A w \in Workers : ~Serves(k[w], c)

Undisturbed(c, o, k) ==
  /\ \A w \in Workers : k[w].c = c => k[w].pc \in Served \cup {"finish"} /\ ~k[w].drop
  /\ o # <<>> => \E w \in Workers : k[w].c = c /\ k[w].pc \in {"debug", "flush"}
  /\ OneEnd(o)

ClientOK(c, cm, o, n, e, l, q, k) ==
  /\ e <= l
  /\ Busy(c, n, q, k) => e < l /\ ~n.closed
  /\ cm \in {"closing", "freed"} => n.closed
  /\ OneRequest(c, n, q, k)
  /\ Undisturbed(c, o, k)

EndCount(c) == Cardinality(Ends(got[c], c))
Fits(c) == ClientOK(c, comm[c], out[c], net[c], EndCount(c), Len(sent[c]), queue, wk)
ClientInv == \A c \in Clients \ hasty : Fits(c)

IInv == TypeInv /\ ConnInv /\ EvInv /\ OutInv /\ NoStrayBytes /\ FreedInTime /\ ClientInv

-----------------------------------------------------------------------------
(* Sequences of parts                                                      *)

LEMMA EndsFinite ==
  \A q, c : q \in Seq(PartSet) => IsFiniteSet(Ends(q, c)) /\ Cardinality(Ends(q, c)) \in Nat
<1> SUFFICES ASSUME NEW q, NEW c, q \in Seq(PartSet)
             PROVE  IsFiniteSet(Ends(q, c)) /\ Cardinality(Ends(q, c)) \in Nat
  OBVIOUS
<1>1. Ends(q, c) \subseteq 1 .. Len(q) /\ 1 \in Int /\ Len(q) \in Int
  BY DEF Ends
<1>2. IsFiniteSet(Ends(q, c))
  BY <1>1, FS_Interval, FS_Subset
<1> QED BY <1>2, FS_CardinalityType

LEMMA Concat ==
  \A q, p : q \in Seq(PartSet) /\ p \in Seq(PartSet) =>
    /\ q \o p \in Seq(PartSet) /\ Len(q \o p) = Len(q) + Len(p)
    /\ \A i \in 1 .. Len(q \o p) :
         \/ i \in 1 .. Len(q) /\ (q \o p)[i] = q[i]
         \/ i - Len(q) \in 1 .. Len(p) /\ (q \o p)[i] = p[i - Len(q)]
    /\ \A i \in 1 .. Len(q) : i \in 1 .. Len(q \o p) /\ (q \o p)[i] = q[i]
  OBVIOUS

\* What a client counts: parts of other clients' answers do not count, an answer counts once.
EndsMore(q, r, p, c) ==
  /\ (\A i \in 1 .. Len(p) : p[i].c # c \/ p[i].what \notin Terminators) => Ends(r, c) = Ends(q, c)
  /\ OneEnd(p) => Cardinality(Ends(r, c)) <= Cardinality(Ends(q, c)) + 1

LEMMA EndsConcat ==
  \A q, p, c : q \in Seq(PartSet) /\ p \in Seq(PartSet) => EndsMore(q, q \o p, p, c)
<1> SUFFICES ASSUME NEW q, NEW p, NEW c, q \in Seq(PartSet), p \in Seq(PartSet)
             PROVE  EndsMore(q, q \o p, p, c)
  OBVIOUS
<1>1. PICK r : r = q \o p
  OBVIOUS
<1>2. /\ r \in Seq(PartSet) /\ Len(q) \in Nat /\ Len(p) \in Nat
      /\ \A i \in 1 .. Len(r) : \/ i \in 1 .. Len(q) /\ r[i] = q[i]
                                \/ i - Len(q) \in 1 .. Len(p) /\ r[i] = p[i - Len(q)]
      /\ \A i \in 1 .. Len(q) : i \in 1 .. Len(r) /\ r[i] = q[i]
  BY <1>1, Concat
<1>3. Ends(q, c) \subseteq Ends(r, c)
  BY <1>2 DEF Ends
<1>4. \A i \in Ends(r, c) \ Ends(q, c) :
        /\ i \in Int /\ i - Len(q) \in 1 .. Len(p)
        /\ p[i - Len(q)].c = c /\ p[i - Len(q)].what \in Terminators
  BY <1>2 DEF Ends
<1>5. ASSUME \A i \in 1 .. Len(p) : p[i].c # c \/ p[i].what \notin Terminators
      PROVE  Ends(r, c) = Ends(q, c)
  BY <1>3, <1>4, <1>5
<1>6. ASSUME OneEnd(p)
      PROVE  Cardinality(Ends(r, c)) <= Cardinality(Ends(q, c)) + 1
  <2>1. IsFiniteSet(Ends(q, c)) /\ Cardinality(Ends(q, c)) \in Nat
    BY EndsFinite
  <2>2. CASE Ends(r, c) = Ends(q, c)
    BY <2>1, <2>2
  <2>3. CASE Ends(r, c) # Ends(q, c)
    <3>1. PICK x : x \in Ends(r, c) \ Ends(q, c)
      BY <1>3, <2>3
    <3>2. \A y \in Ends(r, c) \ Ends(q, c) : y = x
      <4> SUFFICES ASSUME NEW y \in Ends(r, c) \ Ends(q, c) PROVE y = x
        OBVIOUS
      <4>1. x - Len(q) = y - Len(q)
        BY <1>4, <1>6, <3>1 DEF OneEnd
      <4> QED BY <1>2, <1>4, <3>1, <4>1
    <3>3. Ends(r, c) = Ends(q, c) \cup {x} /\ x \notin Ends(q, c)
      BY <1>3, <3>1, <3>2
    <3>4. Cardinality(Ends(q, c) \cup {x}) = Cardinality(Ends(q, c)) + 1
      BY <2>1, <3>3, FS_AddElement
    <3> QED BY <2>1, <3>3, <3>4
  <2> QED BY <2>2, <2>3
<1> QED BY <1>1, <1>5, <1>6 DEF EndsMore

LEMMA NoEnd == OneEnd(<<>>)
  BY DEF OneEnd

-----------------------------------------------------------------------------
(* What a flush does: the parts reach whoever has the descriptor           *)

LEMMA FlushStep ==
  ASSUME IInv, NEW c \in Clients, comm[c] # "none", NEW p, p \in Seq(PartSet),
         \A i \in 1 .. Len(p) : p[i].c = c,
         Flush(c, p), hasty' = hasty,
         c \notin hasty => p = <<>> \/ owner[fd[c]] = c
  PROVE  /\ out' \in [Clients -> Seq(PartSet)] /\ got' \in [Clients \cup {"file"} -> Seq(PartSet)]
         /\ OutInv' /\ NoStrayBytes'
         /\ \A d \in Clients : d # c => out'[d] = out[d] /\ EndCount(d)' = EndCount(d)
         /\ c \notin hasty /\ (p = <<>> \/ ~net[c].closed) => out'[c] = <<>>
         /\ c \notin hasty /\ p = <<>> => EndCount(c)' = EndCount(c)
         /\ c \notin hasty /\ OneEnd(p) => EndCount(c)' <= EndCount(c) + 1
<1> USE ServerAssumption
<1>1. /\ out \in [Clients -> Seq(PartSet)] /\ got \in [Clients \cup {"file"} -> Seq(PartSet)]
      /\ DOMAIN got = Clients \cup {"file"} /\ OutInv /\ NoStrayBytes /\ fd[c] \in Fds
      /\ owner[fd[c]] \in Clients \cup {"file", None}
      /\ <<>> \in Seq(PartSet) /\ Len(<<>>) = 0
  BY DEF IInv, TypeInv
<1>2. PICK x : x = owner[fd[c]]
  OBVIOUS
<1>3. CASE ~CanWrite(c)
  <2>1. out' = [out EXCEPT ![c] = p] /\ got' = got
    BY <1>3 DEF Flush
  <2>2. out'[c] = p /\ \A d \in Clients : d # c => out'[d] = out[d]
    BY <1>1, <2>1
  <2>3. out' \in [Clients -> Seq(PartSet)] /\ OutInv'
    BY <1>1, <2>1, <2>2 DEF OutInv
  <2>4. EndCount(c) \in Nat /\ \A d \in Clients : EndCount(d)' = EndCount(d)
    BY <1>1, <2>1, EndsFinite DEF EndCount
  <2>5. NoStrayBytes'
    BY <1>1, <2>1 DEF NoStrayBytes
  <2>6. c \notin hasty => p = <<>> \/ net[c].closed
    BY <1>3 DEF CanWrite, Reaches
  <2> QED BY <1>1, <2>1, <2>2, <2>3, <2>4, <2>5, <2>6
<1>4. CASE CanWrite(c)
  <2>1. /\ out' = [out EXCEPT ![c] = <<>>]
        /\ got' = [y \in DOMAIN got |-> IF y = x THEN got[y] \o p ELSE got[y]]
    BY <1>2, <1>4 DEF Flush, Reaches
  <2>2. out'[c] = <<>> /\ \A d \in Clients : d # c => out'[d] = out[d]
    BY <1>1, <2>1
  <2>3. out' \in [Clients -> Seq(PartSet)] /\ OutInv'
    BY <1>1, <2>1, <2>2 DEF OutInv
  <2>4. /\ \A y \in DOMAIN got : y # x => got'[y] = got[y]
        /\ x \in DOMAIN got => got'[x] = got[x] \o p
        /\ DOMAIN got' = DOMAIN got
    BY <2>1
  <2>5. got' \in [Clients \cup {"file"} -> Seq(PartSet)]
    <3>1. \A y \in DOMAIN got : got'[y] \in Seq(PartSet)
      <4> SUFFICES ASSUME NEW y \in DOMAIN got PROVE got'[y] \in Seq(PartSet)
        OBVIOUS
      <4>1. got[y] \in Seq(PartSet) /\ got[y] \o p \in Seq(PartSet)
        BY <1>1, Concat
      <4> QED BY <2>4, <4>1
    <3>2. got' = [y \in DOMAIN got |-> got'[y]]
      BY <2>1
    <3> QED BY <1>1, <3>1, <3>2
  <2>6. ASSUME NEW d \in Clients, d = x => d # c \/ p = <<>>
        PROVE  EndCount(d)' = EndCount(d)
    <3>1. CASE d # x
      BY <1>1, <2>4, <3>1 DEF EndCount
    <3>2. CASE d = x
      <4>1. \A i \in 1 .. Len(p) : p[i].c # d \/ p[i].what \notin Terminators
        BY <1>1, <2>6, <3>2
      <4>2. EndsMore(got[d], got[d] \o p, p, d)
        BY <1>1, EndsConcat
      <4> QED BY <1>1, <2>4, <3>2, <4>1, <4>2 DEF EndsMore, EndCount
    <3> QED BY <3>1, <3>2
  <2>7. \A d \in Clients : d # c => EndCount(d)' = EndCount(d)
    BY <2>6
  <2>8. p = <<>> => EndCount(c)' = EndCount(c)
    BY <2>6
  <2>9. OneEnd(p) => EndCount(c)' <= EndCount(c) + 1
    <3>1. CASE c # x
      <4>1. EndCount(c)' = EndCount(c) /\ EndCount(c) \in Nat
        BY <1>1, <2>6, <3>1, EndsFinite DEF EndCount
      <4> QED BY <4>1
    <3>2. CASE c = x
      <4>1. EndsMore(got[c], got[c] \o p, p, c)
        BY <1>1, EndsConcat
      <4> QED BY <1>1, <2>4, <3>2, <4>1 DEF EndsMore, EndCount
    <3> QED BY <3>1, <3>2
  <2>10. NoStrayBytes'
    <3> SUFFICES ASSUME NEW y \in DOMAIN got, NEW i \in 1 .. Len(got'[y])
                 PROVE  got'[y][i].c = y \/ got'[y][i].c \in hasty
      BY <2>4 DEF NoStrayBytes
    <3>1. CASE y # x
      BY <1>1, <2>4, <3>1 DEF NoStrayBytes
    <3>2. CASE y = x
      <4>1. \/ i \in 1 .. Len(got[y]) /\ got'[y][i] = got[y][i]
            \/ i - Len(got[y]) \in 1 .. Len(p) /\ got'[y][i] = p[i - Len(got[y])]
        BY <1>1, <2>4, <3>2, Concat
      <4>2. CASE i \in 1 .. Len(got[y]) /\ got'[y][i] = got[y][i]
        BY <1>1, <4>2 DEF NoStrayBytes
      <4>3. CASE i - Len(got[y]) \in 1 .. Len(p) /\ got'[y][i] = p[i - Len(got[y])]
        <5>1. got'[y][i].c = c /\ p # <<>>
          BY <1>1, <4>3
        <5> QED BY <1>2, <3>2, <5>1
      <4> QED BY <4>1, <4>2, <4>3
    <3> QED BY <3>1, <3>2
  <2> QED BY <2>2, <2>3, <2>5, <2>7, <2>8, <2>9, <2>10
<1> QED BY <1>3, <1>4

-----------------------------------------------------------------------------
(* What a step leaves to the clients it is not about                       *)

SameElsewhere(q, r, k, m, d) ==
  /\ InQueue(r, d) => InQueue(q, d)
  /\ Once(q, d) => Once(r, d)
  /\ \A w \in Workers : m[w] = k[w] \/ (k[w].c # d /\ m[w].c # d)

LEMMA OtherClient ==
  \A d, cm, o, n, e, l, q, k, r, m :
    ClientOK(d, cm, o, n, e, l, q, k) /\ SameElsewhere(q, r, k, m, d) => ClientOK(d, cm, o, n, e, l, r, m)
<1> SUFFICES ASSUME NEW d, NEW cm, NEW o, NEW n, NEW e, NEW l, NEW q, NEW k, NEW r, NEW m,
                    ClientOK(d, cm, o, n, e, l, q, k), SameElsewhere(q, r, k, m, d)
             PROVE  ClientOK(d, cm, o, n, e, l, r, m)
  OBVIOUS
<1>1. \A w \in Workers : k[w].c = d \/ m[w].c = d => m[w] = k[w]
  BY DEF SameElsewhere
<1>2. \A w \in Workers : Serves(m[w], d) <=> Serves(k[w], d)
  BY <1>1 DEF Serves
<1>3. Busy(d, n, r, m) => Busy(d, n, q, k)
  BY <1>2 DEF Busy, SameElsewhere
<1>4. OneRequest(d, n, r, m)
  BY <1>2 DEF OneRequest, ClientOK, SameElsewhere
<1>5. Undisturbed(d, o, m)
  BY <1>1 DEF Undisturbed, ClientOK
<1> QED BY <1>3, <1>4, <1>5 DEF ClientOK

SameClient(d) ==
  /\ comm'[d] = comm[d] /\ out'[d] = out[d] /\ net'[d] = net[d] /\ EndCount(d)' = EndCount(d) /\ sent'[d] = sent[d]
  /\ SameElsewhere(queue, queue', wk, wk', d)

\* A step of client c: the invariant's parts, and c's own part if it has waited.
LEMMA StepOf ==
  ASSUME IInv, NEW c, hasty \subseteq hasty',
         \A d \in Clients : d # c => SameClient(d),
         c \in Clients \ hasty' => Fits(c)',
         TypeInv', ConnInv', EvInv', OutInv', NoStrayBytes',
         corrupt' = "early" => corrupt = "early" \/ hasty' # {}
  PROVE  IInv'
<1>1. ClientInv'
  <2> SUFFICES ASSUME NEW d \in Clients \ hasty' PROVE Fits(d)'
    BY DEF ClientInv
  <2>1. CASE d = c
    BY <2>1
  <2>2. CASE d # c
    <3>1. SameClient(d) /\ d \in Clients \ hasty
      BY <2>2
    <3>2. ClientOK(d, comm[d], out[d], net[d], EndCount(d), Len(sent[d]), queue, wk)
      BY <3>1 DEF IInv, ClientInv, Fits
    <3>3. ClientOK(d, comm[d], out[d], net[d], EndCount(d), Len(sent[d]), queue', wk')
      BY <3>1, <3>2, OtherClient DEF SameClient
    <3> QED BY <3>1, <3>3 DEF SameClient, Fits
  <2> QED BY <2>1, <2>2
<1>2. FreedInTime'
  BY DEF IInv, FreedInTime
<1> QED BY <1>1, <1>2 DEF IInv

LEMMA SameThreads ==
  \A q, k, d : SameElsewhere(q, q, k, k, d)
  BY DEF SameElsewhere

LEMMA OneThread ==
  \A q, k, d, w, m : k = [v \in Workers |-> k[v]] /\ w \in Workers /\ k[w].c # d /\ m.c # d
                       => SameElsewhere(q, q, k, [k EXCEPT ![w] = m], d)
  BY DEF SameElsewhere

-----------------------------------------------------------------------------
(* The steps of the clients                                                *)

\* Requests on their way
LEMMA OneMore ==
  \A q, x : q \in Seq(Requests) /\ x \in Requests => Append(q, x) \in Seq(Requests) /\ Len(Append(q, x)) = Len(q) + 1
  OBVIOUS

LEMMA SentMore ==
  \A q, x : q \in Seq([id : Nat, stmt : Kinds]) /\ x \in [id : Nat, stmt : Kinds]
              => Append(q, x) \in Seq([id : Nat, stmt : Kinds]) /\ Len(Append(q, x)) = Len(q) + 1
  OBVIOUS

LEMMA NotHalf ==
  \A q : q \in Seq(Requests) =>
    LET r == [i \in 1 .. Len(q) |-> [q[i] EXCEPT !.half = FALSE]]
    IN  r \in Seq(Requests) /\ Len(r) = Len(q)
<1> SUFFICES ASSUME NEW q, q \in Seq(Requests)
             PROVE  LET r == [i \in 1 .. Len(q) |-> [q[i] EXCEPT !.half = FALSE]]
                    IN  r \in Seq(Requests) /\ Len(r) = Len(q)
  OBVIOUS
<1> DEFINE r == [i \in 1 .. Len(q) |-> [q[i] EXCEPT !.half = FALSE]]
<1>1. \A i \in 1 .. Len(q) : [q[i] EXCEPT !.half = FALSE] \in Requests
  <2> SUFFICES ASSUME NEW i \in 1 .. Len(q) PROVE [q[i] EXCEPT !.half = FALSE] \in Requests
    OBVIOUS
  <2>1. q[i] \in Requests
    OBVIOUS
  <2> QED BY <2>1 DEF Requests
<1>2. Len(q) \in Nat /\ r \in [1 .. Len(q) -> Requests]
  BY <1>1
<1> HIDE DEF r
<1>3. r \in Seq(Requests) /\ Len(r) = Len(q)
  BY <1>2
<1> QED BY <1>3 DEF r

LEMMA Empty ==
  \A q : q \in Seq(Requests) => Len(q) \in Nat /\ (q = <<>> <=> Len(q) = 0)
  OBVIOUS

\* A step that changes nothing but what one client has sent, or closed.
LEMMA ClientStep0 ==
  ASSUME IInv, NEW c \in Clients, NEW n \in Nets, net' = [net EXCEPT ![c] = n],
         net[c].closed => n.closed,
         UNCHANGED <<conns, ev, queue, wk, got, corrupt>>,
         hasty \subseteq hasty', sent' \in [Clients -> Seq([id : Nat, stmt : Kinds])],
         \A d \in Clients : d # c => sent'[d] = sent[d],
         c \in Clients \ hasty' => Fits(c)'
  PROVE  IInv'
<1> USE ServerAssumption DEF conns
<1>1. net' \in [Clients -> Nets] /\ net'[c] = n /\ \A d \in Clients : d # c => net'[d] = net[d]
  BY DEF IInv, TypeInv
<1>2. TypeInv'
  BY <1>1 DEF IInv, TypeInv
<1>3. ConnInv'
  BY DEF IInv, ConnInv
<1>4. EvInv'
  <2>1. \A d \in Clients : net[d].closed => net'[d].closed
    BY <1>1
  <2> QED BY <2>1 DEF IInv, EvInv
<1>5. OutInv'
  BY DEF IInv, OutInv
<1>6. NoStrayBytes'
  BY DEF IInv, NoStrayBytes
<1>7. \A d \in Clients : d # c => SameClient(d)
  BY <1>1, SameThreads DEF SameClient, EndCount
<1> QED BY <1>2, <1>3, <1>4, <1>5, <1>6, <1>7, StepOf

\* A client that has its answers has no request open.
LEMMA NotBusy ==
  ASSUME IInv, NEW c \in Clients \ hasty, ~Waiting(c)
  PROVE  /\ ~Busy(c, net[c], queue, wk)
         /\ ClientOK(c, comm[c], out[c], net[c], EndCount(c), Len(sent[c]), queue, wk)
BY DEF IInv, ClientInv, Fits, ClientOK, Waiting, EndCount

LEMMA Counts ==
  ASSUME IInv, NEW c \in Clients
  PROVE  EndCount(c) \in Nat /\ Len(sent[c]) \in Nat /\ net[c] \in Nets /\ net[c].reqs \in Seq(Requests)
<1>1. got[c] \in Seq(PartSet) /\ sent[c] \in Seq([id : Nat, stmt : Kinds]) /\ net[c] \in Nets
  BY DEF IInv, TypeInv
<1> QED BY <1>1, EndsFinite DEF EndCount, Nets

LEMMA SendKeeps ==
  ASSUME IInv, NEW c \in Clients, Send(c)
  PROVE  IInv'
<1> DEFINE k == Len(sent[c]) + 1
           r == [id |-> k, stmt |-> net[c].script[k].stmt, half |-> net[c].script[k].half]
<1>1. PICK n : n = [net[c] EXCEPT !.reqs = Append(@, r)]
  OBVIOUS
<1>2. /\ ~net[c].closed /\ k <= Len(net[c].script) /\ net' = [net EXCEPT ![c] = n]
      /\ sent' = [sent EXCEPT ![c] = Append(@, [id |-> k, stmt |-> net[c].script[k].stmt])]
      /\ hasty' = (IF Waiting(c) THEN hasty \cup {c} ELSE hasty)
      /\ UNCHANGED <<conns, ev, queue, wk, got, corrupt>>
  BY <1>1 DEF Send, IInv, TypeInv
<1>3. k \in Nat \ {0} /\ r \in Requests /\ [id |-> k, stmt |-> net[c].script[k].stmt] \in [id : Nat, stmt : Kinds]
  <2>1. PICK s, x : s = net[c].script /\ x = s[k]
    OBVIOUS
  <2>2. s \in Seq([stmt : Kinds, half : BOOLEAN]) /\ Len(s) \in Nat /\ Len(sent[c]) \in Nat
    <3>1. net[c] \in Nets /\ Len(sent[c]) \in Nat
      BY Counts
    <3>2. s \in Seq([stmt : Kinds, half : BOOLEAN])
      BY <2>1, <3>1 DEF Nets
    <3> QED BY <3>1, <3>2, LenProperties
  <2>3. k \in 1 .. Len(s)
    BY <1>2, <2>1, <2>2
  <2>4. x \in [stmt : Kinds, half : BOOLEAN]
    <3> HIDE DEF k
    <3> QED BY <2>1, <2>2, <2>3, ElementOfSeq
  <2> QED BY <2>1, <2>3, <2>4 DEF Requests
<1> HIDE DEF r
<1>4. PICK q : q = Append(net[c].reqs, r)
  OBVIOUS
<1>5. q \in Seq(Requests) /\ Len(q) = Len(net[c].reqs) + 1
  BY <1>3, <1>4, Counts, OneMore
<1>6. n \in Nets /\ n.reqs = q /\ n.closed = net[c].closed
  BY <1>1, <1>4, <1>5, Counts DEF Nets
<1>7. /\ sent' \in [Clients -> Seq([id : Nat, stmt : Kinds])]
      /\ \A d \in Clients : d # c => sent'[d] = sent[d]
      /\ Len(sent'[c]) = Len(sent[c]) + 1
  <2>1. sent \in [Clients -> Seq([id : Nat, stmt : Kinds])]
    BY DEF IInv, TypeInv
  <2>2. PICK x : x = [id |-> k, stmt |-> net[c].script[k].stmt]
    OBVIOUS
  <2>3. Append(sent[c], x) \in Seq([id : Nat, stmt : Kinds]) /\ Len(Append(sent[c], x)) = Len(sent[c]) + 1
    BY <1>3, <2>1, <2>2, SentMore
  <2>4. sent' = [sent EXCEPT ![c] = Append(sent[c], x)]
    BY <1>2, <2>2
  <2> QED BY <2>1, <2>3, <2>4
<1>8. ASSUME c \notin hasty' PROVE Fits(c)'
  <2>1. c \in Clients \ hasty /\ ~Waiting(c)
    BY <1>2, <1>8
  <2>2. /\ ~Busy(c, net[c], queue, wk)
        /\ ClientOK(c, comm[c], out[c], net[c], EndCount(c), Len(sent[c]), queue, wk)
    BY <2>1, NotBusy
  <2>3. net[c].reqs = <<>> /\ Len(n.reqs) = 1
    <3>1. net[c].reqs = <<>> /\ net[c].reqs \in Seq(Requests)
      BY <2>2, Counts DEF Busy
    <3>2. Len(net[c].reqs) = 0
      BY <3>1, Empty
    <3> QED BY <1>5, <1>6, <3>1, <3>2
  <2>4. OneRequest(c, n, queue, wk)
    BY <2>2, <2>3 DEF ClientOK, OneRequest, Busy
  <2>5. ClientOK(c, comm[c], out[c], n, EndCount(c), Len(sent[c]) + 1, queue, wk)
    BY <1>2, <1>6, <2>2, <2>4, Counts DEF ClientOK
  <2>6. net'[c] = n
    BY <1>2 DEF IInv, TypeInv
  <2>7. EndCount(c)' = EndCount(c)
    BY <1>2 DEF EndCount
  <2> QED BY <1>2, <1>7, <2>5, <2>6, <2>7 DEF Fits, conns
<1>9. hasty \subseteq hasty'
  BY <1>2
<1> QED BY <1>2, <1>6, <1>7, <1>8, <1>9, ClientStep0

LEMMA SendRestKeeps ==
  ASSUME IInv, NEW c \in Clients, SendRest(c)
  PROVE  IInv'
<1>1. PICK q : q = [i \in 1 .. Len(net[c].reqs) |-> [net[c].reqs[i] EXCEPT !.half = FALSE]]
  OBVIOUS
<1>2. PICK n : n = [net[c] EXCEPT !.reqs = q]
  OBVIOUS
<1>3. net' = [net EXCEPT ![c] = n] /\ UNCHANGED <<conns, ev, queue, wk, truth, corrupt>>
  BY <1>1, <1>2 DEF SendRest, IInv, TypeInv
<1>4. q \in Seq(Requests) /\ Len(q) = Len(net[c].reqs)
  BY <1>1, Counts, NotHalf
<1>5. n \in Nets /\ n.reqs = q /\ n.closed = net[c].closed
  BY <1>2, <1>4, Counts DEF Nets
<1>6. ASSUME c \notin hasty' PROVE Fits(c)'
  <2>1. ClientOK(c, comm[c], out[c], net[c], EndCount(c), Len(sent[c]), queue, wk)
    BY <1>3, <1>6 DEF IInv, ClientInv, Fits, truth
  <2>2. n.reqs # <<>> => net[c].reqs # <<>>
    BY <1>4, <1>5, Counts, Empty
  <2>3. OneRequest(c, n, queue, wk)
    BY <1>4, <1>5, <2>1, <2>2 DEF ClientOK, OneRequest
  <2>4. Busy(c, n, queue, wk) => Busy(c, net[c], queue, wk)
    BY <2>2 DEF Busy
  <2>5. ClientOK(c, comm[c], out[c], n, EndCount(c), Len(sent[c]), queue, wk)
    BY <1>5, <2>1, <2>3, <2>4 DEF ClientOK
  <2>6. net'[c] = n
    BY <1>3 DEF IInv, TypeInv
  <2> QED BY <1>3, <2>5, <2>6 DEF Fits, EndCount, conns, truth
<1>7. /\ UNCHANGED <<conns, ev, queue, wk, got, corrupt>>
      /\ hasty \subseteq hasty' /\ sent' = sent /\ sent \in [Clients -> Seq([id : Nat, stmt : Kinds])]
  BY <1>3 DEF truth, IInv, TypeInv
<1> QED BY <1>3, <1>5, <1>6, <1>7, ClientStep0

LEMMA CloseKeeps ==
  ASSUME IInv, NEW c \in Clients, Close(c)
  PROVE  IInv'
<1>1. PICK n : n = [net[c] EXCEPT !.closed = TRUE]
  OBVIOUS
<1>2. /\ net' = [net EXCEPT ![c] = n] /\ hasty' = (IF Waiting(c) THEN hasty \cup {c} ELSE hasty)
      /\ UNCHANGED <<conns, ev, queue, wk, got, sent, corrupt>>
  BY <1>1 DEF Close, IInv, TypeInv
<1>3. n \in Nets /\ n.closed /\ n.reqs = net[c].reqs
  BY <1>1, Counts DEF Nets
<1>4. ASSUME c \notin hasty' PROVE Fits(c)'
  <2>1. c \in Clients \ hasty /\ ~Waiting(c)
    BY <1>2, <1>4
  <2>2. /\ ~Busy(c, net[c], queue, wk)
        /\ ClientOK(c, comm[c], out[c], net[c], EndCount(c), Len(sent[c]), queue, wk)
    BY <2>1, NotBusy
  <2>3. OneRequest(c, n, queue, wk) /\ ~Busy(c, n, queue, wk)
    BY <1>3, <2>2 DEF ClientOK, OneRequest, Busy
  <2>4. ClientOK(c, comm[c], out[c], n, EndCount(c), Len(sent[c]), queue, wk)
    BY <1>3, <2>2, <2>3 DEF ClientOK
  <2>5. net'[c] = n
    BY <1>2 DEF IInv, TypeInv
  <2> QED BY <1>2, <2>4, <2>5 DEF Fits, EndCount, conns
<1>5. /\ UNCHANGED <<conns, ev, queue, wk, got, corrupt>>
      /\ hasty \subseteq hasty' /\ sent' = sent /\ sent \in [Clients -> Seq([id : Nat, stmt : Kinds])]
  BY <1>2 DEF IInv, TypeInv
<1> QED BY <1>2, <1>3, <1>4, <1>5, ClientStep0

-----------------------------------------------------------------------------
(* The steps of the event thread                                           *)

Events == [c : Clients, req : Requests]

LEMMA QueueAppend ==
  \A q, x : q \in Seq(Events) /\ x \in Events =>
    /\ Append(q, x) \in Seq(Events)
    /\ \A d : d # x.c => /\ InQueue(Append(q, x), d) => InQueue(q, d)
                         /\ Once(q, d) => Once(Append(q, x), d)
    /\ ~InQueue(q, x.c) => Once(Append(q, x), x.c)
<1> SUFFICES ASSUME NEW q, NEW x, q \in Seq(Events), x \in Events
             PROVE  /\ Append(q, x) \in Seq(Events)
                    /\ \A d : d # x.c => /\ InQueue(Append(q, x), d) => InQueue(q, d)
                                         /\ Once(q, d) => Once(Append(q, x), d)
                    /\ ~InQueue(q, x.c) => Once(Append(q, x), x.c)
  OBVIOUS
<1>1. PICK r : r = Append(q, x)
  OBVIOUS
<1>2. /\ r \in Seq(Events) /\ Len(q) \in Nat /\ Len(r) = Len(q) + 1
      /\ \A i \in 1 .. Len(r) : \/ i \in 1 .. Len(q) /\ r[i] = q[i]
                                \/ i = Len(r) /\ r[i] = x
  BY <1>1
<1>3. \A d : d # x.c => (InQueue(r, d) => InQueue(q, d)) /\ (Once(q, d) => Once(r, d))
  BY <1>2 DEF InQueue, Once
<1>4. ~InQueue(q, x.c) => Once(r, x.c)
  BY <1>2 DEF InQueue, Once
<1> QED BY <1>1, <1>2, <1>3, <1>4

LEMMA QueueTail ==
  \A q : q \in Seq(Events) /\ q # <<>> =>
    /\ Tail(q) \in Seq(Events) /\ Head(q) \in Events
    /\ \A d : (InQueue(Tail(q), d) => InQueue(q, d)) /\ (Once(q, d) => Once(Tail(q), d))
    /\ InQueue(q, Head(q).c)
    /\ Once(q, Head(q).c) => ~InQueue(Tail(q), Head(q).c)
<1> SUFFICES ASSUME NEW q, q \in Seq(Events), q # <<>>
             PROVE  /\ Tail(q) \in Seq(Events) /\ Head(q) \in Events
                    /\ \A d : (InQueue(Tail(q), d) => InQueue(q, d)) /\ (Once(q, d) => Once(Tail(q), d))
                    /\ InQueue(q, Head(q).c)
                    /\ Once(q, Head(q).c) => ~InQueue(Tail(q), Head(q).c)
  OBVIOUS
<1>1. PICK r, x : r = Tail(q) /\ x = Head(q)
  OBVIOUS
<1>2. /\ r \in Seq(Events) /\ x \in Events /\ Len(q) \in Nat \ {0} /\ Len(r) = Len(q) - 1 /\ x = q[1]
      /\ \A i \in 1 .. Len(r) : r[i] = q[i + 1]
  BY <1>1
<1>3. \A i \in 1 .. Len(r) : i + 1 \in 1 .. Len(q) /\ i + 1 # 1
  BY <1>2
<1>4. \A d : (InQueue(r, d) => InQueue(q, d)) /\ (Once(q, d) => Once(r, d))
  <2>1. ASSUME NEW d, InQueue(r, d) PROVE InQueue(q, d)
    BY <1>2, <1>3, <2>1 DEF InQueue
  <2>2. ASSUME NEW d, Once(q, d) PROVE Once(r, d)
    <3> SUFFICES ASSUME NEW i \in 1 .. Len(r), NEW j \in 1 .. Len(r), r[i].c = d, r[j].c = d
                 PROVE  i = j
      BY DEF Once
    <3>1. i + 1 = j + 1
      BY <1>2, <1>3, <2>2 DEF Once
    <3> QED BY <1>2, <3>1
  <2> QED BY <2>1, <2>2
<1>5. InQueue(q, x.c)
  BY <1>2 DEF InQueue
<1>6. Once(q, x.c) => ~InQueue(r, x.c)
  BY <1>2, <1>3 DEF InQueue, Once
<1> QED BY <1>1, <1>2, <1>4, <1>5, <1>6

\* A request that has been read: it is in the queue, or the event thread answers it.
LEMMA ReadRequest ==
  \A c, cm, o, n, m, e, l, q, k :
    ClientOK(c, cm, o, n, e, l, q, k) /\ n.reqs # <<>> /\ m.reqs = <<>> /\ m.closed = n.closed =>
      /\ o = <<>> /\ ~n.closed /\ e < l /\ ~InQueue(q, c)
      /\ \A f : f <= l => ClientOK(c, cm, o, m, f, l, q, k)
      /\ \A r : Once(r, c) => ClientOK(c, cm, o, m, e, l, r, k)
<1> SUFFICES ASSUME NEW c, NEW cm, NEW o, NEW n, NEW m, NEW e, NEW l, NEW q, NEW k,
                    ClientOK(c, cm, o, n, e, l, q, k), n.reqs # <<>>, m.reqs = <<>>, m.closed = n.closed
             PROVE  /\ o = <<>> /\ ~n.closed /\ e < l /\ ~InQueue(q, c)
                    /\ \A f : f <= l => ClientOK(c, cm, o, m, f, l, q, k)
                    /\ \A r : Once(r, c) => ClientOK(c, cm, o, m, e, l, r, k)
  OBVIOUS
<1>1. /\ e < l /\ e <= l /\ ~n.closed /\ Once(q, c) /\ ~InQueue(q, c) /\ \A w \in Workers : ~Serves(k[w], c)
      /\ Undisturbed(c, o, k) /\ (cm \in {"closing", "freed"} => n.closed)
  BY DEF ClientOK, Busy, OneRequest
<1>2. o = <<>>
  BY <1>1 DEF Undisturbed, Serves, Served
<1>3. Len(m.reqs) <= 1
  OBVIOUS
<1>4. \A r : Once(r, c) => OneRequest(c, m, r, k)
  BY <1>1, <1>3 DEF OneRequest
<1>5. ~Busy(c, m, q, k)
  BY <1>1 DEF Busy
<1>6. \A f : f <= l => ClientOK(c, cm, o, m, f, l, q, k)
  BY <1>1, <1>4, <1>5 DEF ClientOK
<1>7. \A r : Once(r, c) => ClientOK(c, cm, o, m, e, l, r, k)
  BY <1>1, <1>4 DEF ClientOK
<1> QED BY <1>1, <1>2, <1>6, <1>7

LEMMA ReadStep ==
  ASSUME IInv, NEW c \in Clients, NEW req, ReadMessage(c, req)
  PROVE  /\ comm[c] = "live" /\ req \in Requests /\ net[c].reqs # <<>> /\ ev' = EvIdle
         /\ \E n \in Nets : /\ net' = [net EXCEPT ![c] = n] /\ n.closed = net[c].closed
                            /\ c \notin hasty => n.reqs = <<>>
<1>1. /\ ev.pc = "read" /\ ev.c = c /\ net[c].reqs # <<>> /\ req = net[c].reqs[1] /\ ev' = EvIdle
      /\ net' = [net EXCEPT ![c].reqs = IF c \in Mysql THEN Tail(@) ELSE <<>>]
  BY DEF ReadMessage, Complete
<1>2. comm[c] = "live"
  BY <1>1 DEF IInv, EvInv
<1>3. PICK q, r : q = net[c].reqs /\ r = IF c \in Mysql THEN Tail(q) ELSE <<>>
  OBVIOUS
<1>4. q \in Seq(Requests) /\ q # <<>>
  BY <1>1, <1>3, Counts
<1>5. req \in Requests /\ r \in Seq(Requests) /\ Len(q) \in Nat \ {0} /\ Len(r) \in Nat /\ Len(r) <= Len(q) - 1
  BY <1>1, <1>3, <1>4
<1>6. PICK n : n = [net[c] EXCEPT !.reqs = r]
  OBVIOUS
<1>7. n \in Nets /\ n.reqs = r /\ n.closed = net[c].closed
  BY <1>5, <1>6, Counts DEF Nets
<1>8. net' = [net EXCEPT ![c] = n]
  BY <1>1, <1>3, <1>6 DEF IInv, TypeInv
<1>9. c \notin hasty => r = <<>>
  <2> SUFFICES ASSUME c \notin hasty PROVE r = <<>>
    OBVIOUS
  <2>1. Len(q) <= 1
    BY <1>3 DEF IInv, ClientInv, Fits, ClientOK, OneRequest
  <2>2. Len(r) = 0
    BY <1>5, <2>1
  <2> QED BY <1>5, <2>2, Empty
<1> QED BY <1>1, <1>2, <1>5, <1>7, <1>8, <1>9

\* Parts that are added to what a writer holds: all are its connection's own.
LEMMA OwnParts ==
  ASSUME IInv, NEW c \in Clients, NEW p, p \in Seq(PartSet), \A i \in 1 .. Len(p) : p[i].c = c
  PROVE  LET o == out[c] \o p
         IN  /\ o \in Seq(PartSet) /\ \A i \in 1 .. Len(o) : o[i].c = c
             /\ out[c] = <<>> => o = p
<1>1. PICK q : q = out[c]
  OBVIOUS
<1>2. q \in Seq(PartSet) /\ \A i \in 1 .. Len(q) : q[i].c = c
  BY <1>1 DEF IInv, TypeInv, OutInv
<1>3. PICK o : o = q \o p
  OBVIOUS
<1>4. o \in Seq(PartSet) /\ \A i \in 1 .. Len(o) : o[i].c = c
  BY <1>2, <1>3, Concat
<1>5. q = <<>> => o = p
  BY <1>3, ConcatEmptySeq
<1> QED BY <1>1, <1>3, <1>4, <1>5

LEMMA ReadAnswered ==
  ASSUME IInv, NEW c \in Clients, NEW req, ReadMessage(c, req),
         NEW p, p \in Seq(PartSet), \A i \in 1 .. Len(p) : p[i].c = c, OneEnd(p), Flush(c, out[c] \o p),
         session' = [d \in Clients |-> session'[d]], \A d \in Clients : d # c => session'[d] = session[d],
         UNCHANGED <<owner, comm, fd, queue, wk, sent, hasty, corrupt>>
  PROVE  IInv'
<1> USE ServerAssumption
<1>1. /\ comm[c] = "live" /\ net[c].reqs # <<>> /\ ev' = EvIdle
  BY ReadStep
<1>2. PICK n \in Nets : /\ net' = [net EXCEPT ![c] = n] /\ n.closed = net[c].closed
                        /\ c \notin hasty => n.reqs = <<>>
  BY ReadStep
<1>3. c \notin hasty => ClientOK(c, comm[c], out[c], net[c], EndCount(c), Len(sent[c]), queue, wk)
  BY DEF IInv, ClientInv, Fits
<1>4. c \notin hasty => /\ out[c] = <<>> /\ ~net[c].closed /\ EndCount(c) < Len(sent[c])
                        /\ \A f : f <= Len(sent[c]) => ClientOK(c, comm[c], out[c], n, f, Len(sent[c]), queue, wk)
  BY <1>1, <1>2, <1>3, ReadRequest
<1>5. PICK o : o = out[c] \o p
  OBVIOUS
<1>6. /\ o \in Seq(PartSet) /\ \A i \in 1 .. Len(o) : o[i].c = c
      /\ c \notin hasty => o = p
  BY <1>4, <1>5, OwnParts
<1>7. Flush(c, o) /\ hasty' = hasty /\ owner[fd[c]] = c /\ comm[c] # "none"
  BY <1>1, <1>5 DEF IInv, ConnInv
<1>8. /\ out' \in [Clients -> Seq(PartSet)] /\ got' \in [Clients \cup {"file"} -> Seq(PartSet)]
      /\ OutInv' /\ NoStrayBytes'
      /\ \A d \in Clients : d # c => out'[d] = out[d] /\ EndCount(d)' = EndCount(d)
      /\ c \notin hasty /\ (o = <<>> \/ ~net[c].closed) => out'[c] = <<>>
      /\ c \notin hasty /\ OneEnd(o) => EndCount(c)' <= EndCount(c) + 1
  BY <1>6, <1>7, FlushStep
<1>9. net' \in [Clients -> Nets] /\ net'[c] = n /\ \A d \in Clients : d # c => net'[d] = net[d]
  BY <1>2 DEF IInv, TypeInv
<1>10. TypeInv'
  BY <1>8, <1>9 DEF IInv, TypeInv
<1>11. ConnInv'
  BY <1>1 DEF IInv, ConnInv
<1>12. EvInv'
  BY <1>1 DEF EvInv, EvIdle
<1>13. \A d \in Clients : d # c => SameClient(d)
  BY <1>8, <1>9, SameThreads DEF SameClient
<1>14. ASSUME c \in Clients \ hasty' PROVE Fits(c)'
  <2>1. c \notin hasty /\ EndCount(c) \in Nat /\ Len(sent[c]) \in Nat
    BY <1>14, Counts
  <2>2. EndCount(c)' \in Nat
    BY <1>8, EndsFinite DEF EndCount
  <2>3. EndCount(c)' <= Len(sent[c]) /\ out'[c] = out[c]
    BY <1>4, <1>6, <1>8, <2>1, <2>2
  <2>4. ClientOK(c, comm[c], out[c], n, EndCount(c)', Len(sent[c]), queue, wk)
    BY <1>4, <2>1, <2>3
  <2> QED BY <1>9, <2>3, <2>4 DEF Fits
<1>15. hasty \subseteq hasty' /\ (corrupt' = "early" => corrupt = "early")
  OBVIOUS
<1> QED BY <1>8, <1>10, <1>11, <1>12, <1>13, <1>14, <1>15, StepOf

LEMMA PartType ==
  \A c, req, what : c \in Clients /\ req \in Requests /\ what \in Terminators \cup {"cols", "row", "debug"} =>
    Part(c, req, what) \in PartSet /\ Part(c, req, what).c = c /\ Part(c, req, what).what = what
  BY DEF Part, PartSet, Requests

LEMMA Sequence1 ==
  \A x : x \in PartSet => <<x>> \in Seq(PartSet) /\ Len(<<x>>) = 1 /\ <<x>>[1] = x
  OBVIOUS

LEMMA Sequence3 ==
  \A x, y, z : x \in PartSet /\ y \in PartSet /\ z \in PartSet =>
    /\ <<x, y, z>> \in Seq(PartSet) /\ Len(<<x, y, z>>) = 3
    /\ \A i \in 1 .. 3 : <<x, y, z>>[i] = IF i = 1 THEN x ELSE IF i = 2 THEN y ELSE z
  OBVIOUS

LEMMA ReadLoginKeeps ==
  ASSUME IInv, NEW c \in Clients, ReadLogin(c)
  PROVE  IInv'
<1>1. PICK req : ReadMessage(c, req) /\ Flush(c, out[c] \o <<Part(c, req, "login")>>)
  BY DEF ReadLogin
<1>2. PICK x, p : x = Part(c, req, "login") /\ p = <<x>>
  OBVIOUS
<1>3. x \in PartSet /\ x.c = c
  BY <1>1, <1>2, ReadStep, PartType DEF Terminators
<1>4. p \in Seq(PartSet) /\ (\A i \in 1 .. Len(p) : p[i].c = c) /\ OneEnd(p)
  BY <1>2, <1>3, Sequence1 DEF OneEnd
<1>5. Flush(c, out[c] \o p)
  BY <1>1, <1>2
<1>6. /\ session' = [d \in Clients |-> session'[d]] /\ \A d \in Clients : d # c => session'[d] = session[d]
      /\ UNCHANGED <<owner, comm, fd, queue, wk, sent, hasty, corrupt>>
  BY DEF ReadLogin, IInv, TypeInv
<1> QED BY <1>1, <1>4, <1>5, <1>6, ReadAnswered

LEMMA EndTrxSession ==
  ASSUME IInv, NEW c \in Clients, EndTrx(c)
  PROVE  session' = [d \in Clients |-> session'[d]] /\ \A d \in Clients : d # c => session'[d] = session[d]
BY DEF EndTrx, IInv, TypeInv

LEMMA ReadVersionKeeps ==
  ASSUME IInv, NEW c \in Clients, ReadVersion(c)
  PROVE  IInv'
<1>1. PICK req : /\ ReadMessage(c, req)
                 /\ Flush(c, out[c] \o <<Part(c, req, "cols"), Part(c, req, "row"), Part(c, req, "eof")>>)
  BY DEF ReadVersion
<1>2. PICK x, y, z, p : /\ x = Part(c, req, "cols") /\ y = Part(c, req, "row") /\ z = Part(c, req, "eof")
                        /\ p = <<x, y, z>>
  OBVIOUS
<1>3. /\ {x, y, z} \subseteq PartSet /\ x.c = c /\ y.c = c /\ z.c = c
      /\ x.what \notin Terminators /\ y.what \notin Terminators
  BY <1>1, <1>2, ReadStep, PartType DEF Terminators
<1>4. p \in Seq(PartSet) /\ (\A i \in 1 .. Len(p) : p[i].c = c) /\ OneEnd(p)
  <2>1. /\ p \in Seq(PartSet) /\ Len(p) = 3
        /\ \A i \in 1 .. 3 : p[i] = IF i = 1 THEN x ELSE IF i = 2 THEN y ELSE z
    BY <1>2, <1>3, Sequence3
  <2> QED BY <1>3, <2>1 DEF OneEnd
<1>5. Flush(c, out[c] \o p)
  BY <1>1, <1>2
<1>6. session' = [d \in Clients |-> session'[d]] /\ \A d \in Clients : d # c => session'[d] = session[d]
  BY EndTrxSession DEF ReadVersion
<1>7. UNCHANGED <<owner, comm, fd, queue, wk, sent, hasty, corrupt>>
  BY DEF ReadVersion
<1> QED BY <1>1, <1>4, <1>5, <1>6, <1>7, ReadAnswered

LEMMA ReadQueryKeeps ==
  ASSUME IInv, NEW c \in Clients, ReadQuery(c)
  PROVE  IInv'
<1>1. PICK req : ReadMessage(c, req) /\ queue' = Append(queue, [c |-> c, req |-> req])
  BY DEF ReadQuery
<1>2. /\ comm[c] = "live" /\ net[c].reqs # <<>> /\ ev' = EvIdle /\ req \in Requests
  BY <1>1, ReadStep
<1>3. PICK n \in Nets : /\ net' = [net EXCEPT ![c] = n] /\ n.closed = net[c].closed
                        /\ c \notin hasty => n.reqs = <<>>
  BY <1>1, ReadStep
<1>4. UNCHANGED <<conns, wk, truth, corrupt>>
  BY DEF ReadQuery
<1>5. PICK x : x = [c |-> c, req |-> req]
  OBVIOUS
<1>6. x \in Events /\ x.c = c /\ queue \in Seq(Events)
  BY <1>2, <1>5 DEF Events, IInv, TypeInv
<1>7. /\ queue' \in Seq(Events)
      /\ \A d : d # c => (InQueue(queue', d) => InQueue(queue, d)) /\ (Once(queue, d) => Once(queue', d))
      /\ ~InQueue(queue, c) => Once(queue', c)
  BY <1>1, <1>5, <1>6, QueueAppend
<1>8. net' \in [Clients -> Nets] /\ net'[c] = n /\ \A d \in Clients : d # c => net'[d] = net[d]
  BY <1>3 DEF IInv, TypeInv
<1>9. TypeInv'
  BY <1>4, <1>7, <1>8 DEF IInv, TypeInv, Events, conns, truth
<1>10. ConnInv'
  BY <1>4 DEF IInv, ConnInv, conns
<1>11. EvInv'
  BY <1>2 DEF EvInv, EvIdle
<1>12. OutInv' /\ NoStrayBytes'
  BY <1>4 DEF IInv, OutInv, NoStrayBytes, conns, truth
<1>13. \A d \in Clients : d # c => SameClient(d)
  BY <1>4, <1>7, <1>8 DEF SameClient, SameElsewhere, EndCount, conns, truth
<1>14. ASSUME c \in Clients \ hasty' PROVE Fits(c)'
  <2>1. c \notin hasty /\ n.reqs = <<>>
    BY <1>3, <1>4, <1>14 DEF truth
  <2>2. ClientOK(c, comm[c], out[c], net[c], EndCount(c), Len(sent[c]), queue, wk)
    BY <2>1 DEF IInv, ClientInv, Fits
  <2>3. /\ ~InQueue(queue, c)
        /\ \A r : Once(r, c) => ClientOK(c, comm[c], out[c], n, EndCount(c), Len(sent[c]), r, wk)
    BY <1>2, <1>3, <2>1, <2>2, ReadRequest
  <2>4. ClientOK(c, comm[c], out[c], n, EndCount(c), Len(sent[c]), queue', wk)
    BY <1>7, <2>3
  <2> QED BY <1>4, <1>8, <2>4 DEF Fits, EndCount, conns, truth
<1>15. hasty \subseteq hasty' /\ (corrupt' = "early" => corrupt = "early")
  BY <1>4 DEF truth
<1> QED BY <1>9, <1>10, <1>11, <1>12, <1>13, <1>14, <1>15, StepOf

\* The lowest descriptor that is free.
LEMMA FreeFdIs ==
  ASSUME NEW f \in Fds, owner[f] = None
  PROVE  FreeFd \in Fds /\ owner[FreeFd] = None
<1> DEFINE F == {g \in Fds : owner[g] = None}
<1>1. F \subseteq Nat /\ F # {}
  BY ServerAssumption
<1>2. \E x \in F : \A y \in F : x <= y
  <2> HIDE DEF F
  <2> QED BY <1>1, LeastNat
<1>3. \E x \in F : \A g \in Fds : owner[g] = None => x <= g
  BY <1>2
<1> QED BY <1>3 DEF FreeFd

LEMMA AcceptKeeps ==
  ASSUME IInv, NEW c \in Clients, Accept(c)
  PROVE  IInv'
<1> USE ServerAssumption
<1>1. PICK f : f = FreeFd
  OBVIOUS
<1>2. /\ comm[c] = "none" /\ ev.pc = "idle" /\ owner' = [owner EXCEPT ![f] = c] /\ fd' = [fd EXCEPT ![c] = f]
      /\ comm' = [comm EXCEPT ![c] = "live"]
      /\ UNCHANGED <<session, authed, out, net, ev, queue, wk, truth, corrupt>>
  BY <1>1 DEF Accept
<1>3. f \in Fds /\ owner[f] = None
  BY <1>1, FreeFdIs DEF Accept
<1>4. /\ owner' \in [Fds -> Clients \cup {"file", None}] /\ owner'[f] = c
      /\ fd' \in [Clients -> Fds \cup {None}] /\ fd'[c] = f /\ comm'[c] = "live"
      /\ comm' \in [Clients -> {"none", "live", "closing", "freed"}]
      /\ \A g \in Fds : g # f => owner'[g] = owner[g]
      /\ \A d \in Clients : d # c => fd'[d] = fd[d] /\ comm'[d] = comm[d]
  BY <1>2, <1>3 DEF IInv, TypeInv
<1>5. TypeInv'
  <2>1. \A d \in Clients : comm[d] # "none" => fd[d] \in Fds
    BY DEF IInv, TypeInv
  <2>2. \A d \in Clients : comm'[d] # "none" => fd'[d] \in Fds
    BY <1>3, <1>4, <2>1
  <2>3. /\ session' = [d \in Clients |-> session'[d]]
        /\ out' \in [Clients -> Seq(PartSet)] /\ got' \in [Clients \cup {"file"} -> Seq(PartSet)]
        /\ net' \in [Clients -> Nets] /\ sent' \in [Clients -> Seq([id : Nat, stmt : Kinds])]
        /\ queue' \in Seq([c : Clients, req : Requests])
        /\ wk' = [w \in Workers |-> wk'[w]] /\ \A w \in Workers : WkOK(wk'[w])
    BY <1>2 DEF IInv, TypeInv, truth
  <2> QED BY <1>4, <2>2, <2>3 DEF TypeInv
<1>6. ConnInv'
  <2>1. \A d \in Clients : comm'[d] = "freed" => session'[d] = NoSession
    BY <1>2, <1>4 DEF IInv, ConnInv
  <2>2. \A d \in Clients : comm'[d] = "live" => owner'[fd'[d]] = d
    <3> SUFFICES ASSUME NEW d \in Clients, d # c, comm'[d] = "live" PROVE owner'[fd'[d]] = d
      BY <1>4
    <3>1. comm[d] = "live" /\ fd'[d] = fd[d] /\ fd[d] \in Fds /\ owner[fd[d]] = d
      BY <1>4 DEF IInv, ConnInv, TypeInv
    <3>2. fd[d] # f
      BY <1>3, <3>1
    <3> QED BY <1>4, <3>1, <3>2
  <2>3. \A w \in Workers : wk'[w].pc = "free" => comm'[wk'[w].c] \in {"closing", "freed"}
    <3> SUFFICES ASSUME NEW w \in Workers, wk[w].pc = "free" PROVE comm'[wk[w].c] \in {"closing", "freed"}
      BY <1>2
    <3>1. comm[wk[w].c] \in {"closing", "freed"} /\ wk[w].c \in Clients
      BY DEF IInv, ConnInv, TypeInv, WkOK
    <3> QED BY <1>2, <1>4, <3>1
  <2> QED BY <2>1, <2>2, <2>3 DEF ConnInv
<1>7. EvInv'
  BY <1>2 DEF IInv, EvInv
<1>8. OutInv' /\ NoStrayBytes'
  BY <1>2 DEF IInv, OutInv, NoStrayBytes, truth
<1>9. \A d \in Clients : d # c => SameClient(d)
  BY <1>2, <1>4, SameThreads DEF SameClient, EndCount, truth
<1>10. ASSUME c \in Clients \ hasty' PROVE Fits(c)'
  <2>1. ClientOK(c, comm[c], out[c], net[c], EndCount(c), Len(sent[c]), queue, wk)
    BY <1>2, <1>10 DEF IInv, ClientInv, Fits, truth
  <2>2. ClientOK(c, "live", out[c], net[c], EndCount(c), Len(sent[c]), queue, wk)
    BY <2>1 DEF ClientOK
  <2> QED BY <1>2, <1>4, <2>2 DEF Fits, EndCount, truth
<1>11. hasty \subseteq hasty' /\ (corrupt' = "early" => corrupt = "early")
  BY <1>2 DEF truth
<1> QED BY <1>5, <1>6, <1>7, <1>8, <1>9, <1>10, <1>11, StepOf

\* Only the event thread moves.
LEMMA EvStep ==
  ASSUME IInv, EvInv', UNCHANGED <<conns, net, queue, wk, truth, corrupt>>
  PROVE  IInv'
<1>1. TypeInv' /\ ConnInv' /\ OutInv' /\ NoStrayBytes' /\ FreedInTime'
  BY DEF IInv, TypeInv, ConnInv, OutInv, NoStrayBytes, FreedInTime, conns, truth
<1>2. ClientInv'
  BY DEF IInv, ClientInv, Fits, EndCount, conns, truth
<1> QED BY <1>1, <1>2 DEF IInv

LEMMA RecvKeeps ==
  ASSUME IInv, NEW c \in Clients, Recv(c)
  PROVE  IInv'
<1>1. EvInv'
  BY DEF Recv, EvInv, conns
<1> QED BY <1>1, EvStep DEF Recv

LEMMA ReadClosedKeeps ==
  ASSUME IInv, ReadClosed
  PROVE  IInv'
<1>1. EvInv'
  BY DEF ReadClosed, IInv, EvInv, conns
<1> QED BY <1>1, EvStep DEF ReadClosed

-----------------------------------------------------------------------------
(* The end of a connection, by the event thread or by a worker             *)

\* What the thread that ends it does besides.
Ending(c) ==
  /\ EvInv' /\ wk' = [w \in Workers |-> wk'[w]] /\ \A w \in Workers : WkOK(wk'[w])
  /\ \A w \in Workers : wk'[w].pc = "free" => wk'[w] = wk[w] \/ wk'[w].c = c
  /\ \A d \in Clients : d # c => SameElsewhere(queue, queue, wk, wk', d)
  /\ c \notin hasty => wk' = wk /\ net[c].closed

LEMMA CloseStep ==
  ASSUME IInv, NEW c \in Clients, comm[c] = "live", CloseFd(c), Ending(c),
         UNCHANGED <<fd, session, authed, out, net, queue, truth, corrupt>>
  PROVE  IInv'
<1> USE ServerAssumption
<1>1. /\ owner' = [owner EXCEPT ![fd[c]] = None] /\ comm' = [comm EXCEPT ![c] = "closing"]
      /\ fd[c] \in Fds /\ owner[fd[c]] = c
  BY DEF CloseFd, IInv, TypeInv, ConnInv
<1>2. /\ owner' \in [Fds -> Clients \cup {"file", None}]
      /\ comm' \in [Clients -> {"none", "live", "closing", "freed"}] /\ comm'[c] = "closing"
      /\ \A g \in Fds : g # fd[c] => owner'[g] = owner[g]
      /\ \A d \in Clients : d # c => comm'[d] = comm[d]
  BY <1>1 DEF IInv, TypeInv
<1>3. TypeInv'
  <2>1. \A d \in Clients : comm'[d] # "none" => fd[d] \in Fds
    BY <1>1, <1>2 DEF IInv, TypeInv
  <2> QED BY <1>2, <2>1 DEF IInv, TypeInv, Ending, truth
<1>4. ConnInv'
  <2>1. \A d \in Clients : comm'[d] = "freed" => session'[d] = NoSession
    BY <1>2 DEF IInv, ConnInv
  <2>2. \A d \in Clients : comm'[d] = "live" => owner'[fd'[d]] = d
    <3> SUFFICES ASSUME NEW d \in Clients, d # c, comm'[d] = "live" PROVE owner'[fd'[d]] = d
      BY <1>2
    <3>1. comm[d] = "live" /\ fd'[d] = fd[d] /\ fd[d] \in Fds /\ owner[fd[d]] = d
      BY <1>2 DEF IInv, ConnInv, TypeInv
    <3>2. fd[d] # fd[c]
      BY <1>1, <3>1
    <3> QED BY <1>2, <3>1, <3>2
  <2>3. \A w \in Workers : wk'[w].pc = "free" => comm'[wk'[w].c] \in {"closing", "freed"}
    <3> SUFFICES ASSUME NEW w \in Workers, wk'[w].pc = "free", wk'[w].c # c
                 PROVE  comm'[wk'[w].c] \in {"closing", "freed"}
      BY <1>2
    <3>1. wk'[w] = wk[w]
      BY DEF Ending
    <3>2. comm[wk[w].c] \in {"closing", "freed"} /\ wk[w].c \in Clients
      BY <3>1 DEF IInv, ConnInv, TypeInv, WkOK
    <3> QED BY <1>2, <3>1, <3>2
  <2> QED BY <2>1, <2>2, <2>3 DEF ConnInv
<1>5. OutInv' /\ NoStrayBytes'
  BY DEF IInv, OutInv, NoStrayBytes, truth
<1>6. \A d \in Clients : d # c => SameClient(d)
  BY <1>2 DEF SameClient, EndCount, Ending, truth
<1>7. ASSUME c \in Clients \ hasty' PROVE Fits(c)'
  <2>1. /\ ClientOK(c, comm[c], out[c], net[c], EndCount(c), Len(sent[c]), queue, wk)
        /\ wk' = wk /\ net[c].closed
    BY <1>7 DEF IInv, ClientInv, Fits, Ending, truth
  <2>2. ClientOK(c, "closing", out[c], net[c], EndCount(c), Len(sent[c]), queue, wk)
    BY <2>1 DEF ClientOK
  <2> QED BY <1>2, <2>1, <2>2 DEF Fits, EndCount, truth
<1>8. EvInv' /\ hasty \subseteq hasty' /\ (corrupt' = "early" => corrupt = "early")
  BY DEF Ending, truth
<1> QED BY <1>3, <1>4, <1>5, <1>6, <1>7, <1>8, StepOf

LEMMA FreeStep ==
  ASSUME IInv, NEW c \in Clients, comm[c] \in {"closing", "freed"}, FreeRest(c), Ending(c),
         UNCHANGED <<owner, fd, authed, net, queue, sent, hasty, corrupt>>
  PROVE  IInv'
<1> USE ServerAssumption
<1>1. /\ comm' = [comm EXCEPT ![c] = "freed"] /\ session' = [session EXCEPT ![c] = NoSession] /\ Flush(c, out[c])
  BY DEF FreeRest
<1>2. PICK o : o = out[c]
  OBVIOUS
<1>3. /\ o \in Seq(PartSet) /\ (\A i \in 1 .. Len(o) : o[i].c = c) /\ Flush(c, o) /\ comm[c] # "none"
  BY <1>1, <1>2 DEF IInv, TypeInv, OutInv
<1>4. c \notin hasty => /\ ClientOK(c, comm[c], out[c], net[c], EndCount(c), Len(sent[c]), queue, wk)
                        /\ o = <<>>
  <2> SUFFICES ASSUME c \notin hasty
               PROVE  /\ ClientOK(c, comm[c], out[c], net[c], EndCount(c), Len(sent[c]), queue, wk)
                      /\ o = <<>>
    OBVIOUS
  <2>1. ClientOK(c, comm[c], out[c], net[c], EndCount(c), Len(sent[c]), queue, wk)
    BY DEF IInv, ClientInv, Fits
  <2>2. \A w \in Workers : ~Serves(wk[w], c)
    BY <2>1 DEF ClientOK, Busy
  <2>3. o = <<>>
    BY <1>2, <2>1, <2>2 DEF ClientOK, Undisturbed, Serves, Served
  <2> QED BY <2>1, <2>3
<1>5. /\ out' \in [Clients -> Seq(PartSet)] /\ got' \in [Clients \cup {"file"} -> Seq(PartSet)]
      /\ OutInv' /\ NoStrayBytes'
      /\ \A d \in Clients : d # c => out'[d] = out[d] /\ EndCount(d)' = EndCount(d)
      /\ c \notin hasty => out'[c] = <<>> /\ EndCount(c)' = EndCount(c)
  BY <1>3, <1>4, FlushStep
<1>6. /\ comm' \in [Clients -> {"none", "live", "closing", "freed"}] /\ comm'[c] = "freed"
      /\ \A d \in Clients : d # c => comm'[d] = comm[d] /\ session'[d] = session[d]
      /\ session' = [d \in Clients |-> session'[d]] /\ session'[c] = NoSession
  BY <1>1 DEF IInv, TypeInv
<1>7. TypeInv'
  <2>1. \A d \in Clients : comm'[d] # "none" => fd[d] \in Fds
    BY <1>3, <1>6 DEF IInv, TypeInv
  <2> QED BY <1>5, <1>6, <2>1 DEF IInv, TypeInv, Ending
<1>8. ConnInv'
  <2>1. \A d \in Clients : comm'[d] = "freed" => session'[d] = NoSession
    BY <1>6 DEF IInv, ConnInv
  <2>2. \A d \in Clients : comm'[d] = "live" => owner'[fd'[d]] = d
    BY <1>6 DEF IInv, ConnInv
  <2>3. \A w \in Workers : wk'[w].pc = "free" => comm'[wk'[w].c] \in {"closing", "freed"}
    <3> SUFFICES ASSUME NEW w \in Workers, wk'[w].pc = "free", wk'[w].c # c
                 PROVE  comm'[wk'[w].c] \in {"closing", "freed"}
      BY <1>6
    <3>1. wk'[w] = wk[w]
      BY DEF Ending
    <3>2. comm[wk[w].c] \in {"closing", "freed"} /\ wk[w].c \in Clients
      BY <3>1 DEF IInv, ConnInv, TypeInv, WkOK
    <3> QED BY <1>6, <3>1, <3>2
  <2> QED BY <2>1, <2>2, <2>3 DEF ConnInv
<1>9. \A d \in Clients : d # c => SameClient(d)
  BY <1>5, <1>6 DEF SameClient, Ending
<1>10. ASSUME c \in Clients \ hasty' PROVE Fits(c)'
  <2>1. ClientOK(c, "freed", out[c], net[c], EndCount(c), Len(sent[c]), queue, wk) /\ wk' = wk /\ out'[c] = out[c]
    BY <1>2, <1>4, <1>5, <1>10 DEF ClientOK, Ending
  <2> QED BY <1>5, <1>6, <1>10, <2>1 DEF Fits
<1>11. EvInv' /\ hasty \subseteq hasty' /\ (corrupt' = "early" => corrupt = "early")
  BY DEF Ending
<1> QED BY <1>5, <1>7, <1>8, <1>9, <1>10, <1>11, StepOf

LEMMA EvCloseKeeps ==
  ASSUME IInv, EvClose
  PROVE  IInv'
<1>1. PICK c : c = ev.c
  OBVIOUS
<1>2. /\ c \in Clients /\ comm[c] = "live" /\ net[c].closed /\ CloseFd(c) /\ ev' = [ev EXCEPT !.pc = "free"]
      /\ UNCHANGED <<fd, session, authed, out, net, queue, wk, truth, corrupt>>
  BY <1>1 DEF EvClose, IInv, EvInv
<1>3. comm'[c] = "closing"
  BY <1>2 DEF CloseFd, IInv, TypeInv
<1>4. EvInv'
  BY <1>1, <1>2, <1>3 DEF IInv, EvInv
<1>5. Ending(c)
  BY <1>2, <1>4, SameThreads DEF Ending, IInv, TypeInv
<1> QED BY <1>2, <1>5, CloseStep

LEMMA EvFreeKeeps ==
  ASSUME IInv, EvFree
  PROVE  IInv'
<1>1. PICK c : c = ev.c
  OBVIOUS
<1>2. /\ c \in Clients /\ comm[c] \in {"closing", "freed"} /\ net[c].closed /\ FreeRest(c) /\ ev' = EvIdle
      /\ UNCHANGED <<owner, fd, authed, net, queue, wk, sent, hasty, corrupt>>
  BY <1>1 DEF EvFree, IInv, EvInv
<1>3. EvInv'
  BY <1>2 DEF EvInv, EvIdle
<1>4. Ending(c)
  BY <1>2, <1>3, SameThreads DEF Ending, IInv, TypeInv
<1> QED BY <1>2, <1>4, FreeStep

\* A client whose worker has come to close its connection has not waited.
LEMMA Hasty ==
  ASSUME IInv, NEW w \in Workers, wk[w].pc \in {"close", "free"}
  PROVE  wk[w].c \in hasty /\ wk[w].c \in Clients /\ wk[w] \in WkSet /\ wk[w].req \in Requests
<1>1. wk[w].c \in Clients /\ wk[w] \in WkSet /\ wk[w].req \in Requests
  BY DEF IInv, TypeInv, WkOK
<1>2. wk[w].pc \notin Served \cup {"finish"}
  BY DEF Served
<1> QED BY <1>1, <1>2 DEF IInv, ClientInv, Fits, ClientOK, Undisturbed

LEMMA WkCloseKeeps ==
  ASSUME IInv, NEW w \in Workers, WkClose(w)
  PROVE  IInv'
<1>1. PICK c, r : c = wk[w].c /\ r = [wk[w] EXCEPT !.pc = "free"]
  OBVIOUS
<1>2. /\ wk[w].pc = "close" /\ comm[c] = "live" /\ ev.c # c /\ CloseFd(c) /\ wk' = [wk EXCEPT ![w] = r]
      /\ UNCHANGED <<fd, session, authed, out, net, ev, queue, truth, corrupt>>
  BY <1>1 DEF WkClose, SetW
<1>3. c \in hasty /\ c \in Clients /\ WkOK(r) /\ r.c = c
  BY <1>1, <1>2, Hasty DEF WkOK, WkSet
<1>4. \A d \in Clients : d # c => comm'[d] = comm[d]
  BY <1>2 DEF CloseFd, IInv, TypeInv
<1>5. EvInv'
  <2>1. ev.pc # "idle" => comm'[ev.c] = comm[ev.c]
    BY <1>2, <1>4 DEF IInv, EvInv
  <2> QED BY <1>2, <2>1 DEF IInv, EvInv
<1>6. Ending(c)
  <2>1. /\ wk' = [v \in Workers |-> wk'[v]] /\ wk'[w] = r /\ \A v \in Workers : v # w => wk'[v] = wk[v]
    BY <1>2 DEF IInv, TypeInv
  <2>2. \A v \in Workers : WkOK(wk'[v])
    BY <1>3, <2>1 DEF IInv, TypeInv
  <2>3. \A d \in Clients : d # c => SameElsewhere(queue, queue, wk, wk', d)
    BY <1>1, <1>3, <2>1 DEF SameElsewhere
  <2>4. \A v \in Workers : wk'[v].pc = "free" => wk'[v] = wk[v] \/ wk'[v].c = c
    BY <1>3, <2>1
  <2> QED BY <1>3, <1>5, <2>1, <2>2, <2>3, <2>4 DEF Ending
<1> QED BY <1>2, <1>3, <1>6, CloseStep

LEMMA WkFreeKeeps ==
  ASSUME IInv, NEW w \in Workers, WkFree(w)
  PROVE  IInv'
<1>1. PICK c, r : c = wk[w].c /\ r = [wk[w] EXCEPT !.pc = "finish"]
  OBVIOUS
<1>2. /\ wk[w].pc = "free" /\ FreeRest(c) /\ wk' = [wk EXCEPT ![w] = r]
      /\ UNCHANGED <<owner, fd, authed, net, ev, queue, sent, hasty, corrupt>>
  BY <1>1 DEF WkFree, SetW
<1>3. /\ c \in hasty /\ c \in Clients /\ WkOK(r) /\ r.c = c /\ r.pc = "finish"
      /\ comm[c] \in {"closing", "freed"}
  BY <1>1, <1>2, Hasty DEF WkOK, WkSet, IInv, ConnInv
<1>4. comm'[c] = "freed" /\ \A d \in Clients : d # c => comm'[d] = comm[d]
  BY <1>2, <1>3 DEF FreeRest, IInv, TypeInv
<1>5. EvInv'
  BY <1>2, <1>3, <1>4 DEF IInv, EvInv
<1>6. Ending(c)
  <2>1. /\ wk' = [v \in Workers |-> wk'[v]] /\ wk'[w] = r /\ \A v \in Workers : v # w => wk'[v] = wk[v]
    BY <1>2 DEF IInv, TypeInv
  <2>2. \A v \in Workers : WkOK(wk'[v])
    BY <1>3, <2>1 DEF IInv, TypeInv
  <2>3. \A d \in Clients : d # c => SameElsewhere(queue, queue, wk, wk', d)
    BY <1>1, <1>3, <2>1 DEF SameElsewhere
  <2>4. \A v \in Workers : wk'[v].pc = "free" => wk'[v] = wk[v] \/ wk'[v].c = c
    BY <1>3, <2>1
  <2> QED BY <1>3, <1>5, <2>1, <2>2, <2>3, <2>4 DEF Ending
<1> QED BY <1>2, <1>3, <1>6, FreeStep

-----------------------------------------------------------------------------
(* The steps of the workers                                                *)

LEMMA Worker ==
  ASSUME IInv, NEW w \in Workers, wk[w].pc # "idle"
  PROVE  /\ wk[w].c \in Clients /\ wk[w].req \in Requests /\ wk[w] \in WkSet
         /\ wk[w].c \notin hasty => wk[w].pc \in Served \cup {"finish"} /\ ~wk[w].drop
<1>1. wk[w].c \in Clients /\ wk[w].req \in Requests /\ wk[w] \in WkSet
  BY DEF IInv, TypeInv, WkOK
<1> QED BY <1>1 DEF IInv, ClientInv, Fits, ClientOK, Undisturbed

\* The connection of a client that waits is there, and its peer too.
LEMMA Reachable ==
  ASSUME IInv, NEW w \in Workers, wk[w].pc \in Served, wk[w].c \notin hasty
  PROVE  LET c == wk[w].c
         IN  /\ ~net[c].closed /\ comm[c] \notin {"closing", "freed"}
             /\ EndCount(c) < Len(sent[c])
             /\ Usable(c) => CanWrite(c) /\ owner[fd[c]] = c
<1>1. PICK c : c = wk[w].c
  OBVIOUS
<1>2. c \in Clients \ hasty
  BY <1>1, Worker DEF Served
<1>3. ClientOK(c, comm[c], out[c], net[c], EndCount(c), Len(sent[c]), queue, wk)
  BY <1>2 DEF IInv, ClientInv, Fits
<1>4. ~net[c].closed /\ EndCount(c) < Len(sent[c]) /\ comm[c] \notin {"closing", "freed"}
  BY <1>1, <1>3 DEF ClientOK, Busy, Serves
<1>5. Usable(c) => owner[fd[c]] = c
  BY <1>2, <1>4 DEF Usable, IInv, ConnInv
<1>6. Usable(c) => CanWrite(c)
  BY <1>2, <1>4, <1>5, ServerAssumption DEF CanWrite, Reaches
<1> QED BY <1>1, <1>4, <1>5, <1>6

\* Worker w, which serves client c, becomes r; the workers k become m, what the writer
\* holds becomes p, and f answers are out instead of e of l.
Moves(c, p, e, f, l, k, m, w, r) ==
  /\ w \in Workers /\ m[w] = r /\ \A v \in Workers : v # w => m[v] = k[v]
  /\ Serves(k[w], c) /\ (r.c = c => r.pc \in Served \cup {"finish"} /\ ~r.drop)
  /\ OneEnd(p) /\ (p # <<>> => r.c = c /\ r.pc \in {"debug", "flush"})
  /\ f <= l /\ (f = e \/ ~Serves(r, c))

LEMMA WorkerMoves ==
  \A c, cm, o, p, n, e, f, l, q, k, m, w, r :
    ClientOK(c, cm, o, n, e, l, q, k) /\ Moves(c, p, e, f, l, k, m, w, r) => ClientOK(c, cm, p, n, f, l, q, m)
<1> SUFFICES ASSUME NEW c, NEW cm, NEW o, NEW p, NEW n, NEW e, NEW f, NEW l, NEW q, NEW k, NEW m, NEW w, NEW r,
                    ClientOK(c, cm, o, n, e, l, q, k), Moves(c, p, e, f, l, k, m, w, r)
             PROVE  ClientOK(c, cm, p, n, f, l, q, m)
  OBVIOUS
<1>0. /\ w \in Workers /\ m[w] = r /\ \A v \in Workers : v # w => m[v] = k[v]
      /\ Serves(k[w], c) /\ (r.c = c => r.pc \in Served \cup {"finish"} /\ ~r.drop)
      /\ OneEnd(p) /\ (p # <<>> => r.c = c /\ r.pc \in {"debug", "flush"})
      /\ f <= l /\ (f = e \/ ~Serves(r, c))
  BY DEF Moves
<1>1. \A v \in Workers : v # w => ~Serves(k[v], c) /\ ~Serves(m[v], c)
  BY <1>0 DEF ClientOK, OneRequest, Serves
<1>2. ~InQueue(q, c) /\ n.reqs = <<>> /\ Len(n.reqs) <= 1 /\ Once(q, c) /\ e < l /\ ~n.closed
  BY <1>0 DEF ClientOK, OneRequest, Busy
<1>3. OneRequest(c, n, q, m)
  BY <1>1, <1>2 DEF OneRequest
<1>4. Busy(c, n, q, m) => f = e
  BY <1>0, <1>1, <1>2 DEF Busy
<1>5. \A v \in Workers : m[v].c = c => m[v].pc \in Served \cup {"finish"} /\ ~m[v].drop
  BY <1>0 DEF ClientOK, Undisturbed
<1>6. Undisturbed(c, p, m)
  BY <1>0, <1>5 DEF Undisturbed
<1> QED BY <1>0, <1>2, <1>3, <1>4, <1>6 DEF ClientOK

\* A worker's step for its client: r is what becomes of the worker.
LEMMA WorkerStepOf ==
  ASSUME IInv, NEW w \in Workers, NEW c \in Clients, Serves(wk[w], c), Usable(c),
         NEW r, WkOK(r), r.c \in {c, None}, r.pc # "free", wk' = [wk EXCEPT ![w] = r],
         UNCHANGED <<comm, fd, net, ev, queue, sent, hasty, corrupt>>,
         owner' \in [Fds -> Clients \cup {"file", None}],
         \A f \in Fds : owner[f] # None => owner'[f] = owner[f],
         session' = [d \in Clients |-> session'[d]], \A d \in Clients : d # c => session'[d] = session[d],
         out' \in [Clients -> Seq(PartSet)], got' \in [Clients \cup {"file"} -> Seq(PartSet)],
         OutInv', NoStrayBytes',
         \A d \in Clients : d # c => out'[d] = out[d] /\ EndCount(d)' = EndCount(d),
         c \notin hasty =>
           /\ r.pc \in Served \cup {"idle", "finish"} /\ ~r.drop
           /\ OneEnd(out'[c]) /\ (out'[c] # <<>> => r.pc \in {"debug", "flush"})
           /\ EndCount(c)' = EndCount(c) \/ (EndCount(c)' <= EndCount(c) + 1 /\ r.pc \notin Served)
  PROVE  IInv'
<1> USE ServerAssumption
<1>1. wk' = [v \in Workers |-> wk'[v]] /\ wk'[w] = r /\ \A v \in Workers : v # w => wk'[v] = wk[v]
  BY DEF IInv, TypeInv
<1>2. wk[w].c = c /\ wk[w].pc \in Served /\ wk[w].pc # "idle"
  BY DEF Serves, Served
<1>3. TypeInv'
  <2>1. \A v \in Workers : WkOK(wk'[v])
    BY <1>1 DEF IInv, TypeInv
  <2> QED BY <1>1, <2>1 DEF IInv, TypeInv
<1>4. ConnInv'
  <2>1. \A d \in Clients : comm[d] = "freed" => d # c
    BY DEF Usable
  <2>2. \A d \in Clients : comm'[d] = "freed" => session'[d] = NoSession
    BY <2>1 DEF IInv, ConnInv
  <2>3. \A d \in Clients : comm'[d] = "live" => owner'[fd'[d]] = d
    BY DEF IInv, ConnInv, TypeInv
  <2>4. \A v \in Workers : wk'[v].pc = "free" => comm'[wk'[v].c] \in {"closing", "freed"}
    BY <1>1 DEF IInv, ConnInv
  <2> QED BY <2>2, <2>3, <2>4 DEF ConnInv
<1>5. EvInv'
  BY DEF IInv, EvInv
<1>6. \A d \in Clients : d # c => SameClient(d)
  BY <1>1, <1>2 DEF SameClient, SameElsewhere
<1>7. ASSUME c \in Clients \ hasty' PROVE Fits(c)'
  <2>1. c \notin hasty /\ EndCount(c) < Len(sent[c]) /\ EndCount(c) \in Nat /\ Len(sent[c]) \in Nat
    BY <1>2, <1>7, Reachable, Counts
  <2>2. EndCount(c)' \in Nat
    BY EndsFinite DEF EndCount
  <2>3. EndCount(c)' <= Len(sent[c]) /\ (EndCount(c)' = EndCount(c) \/ ~Serves(r, c))
    BY <2>1, <2>2 DEF Serves
  <2>4. ClientOK(c, comm[c], out[c], net[c], EndCount(c), Len(sent[c]), queue, wk)
    BY <2>1 DEF IInv, ClientInv, Fits
  <2>5. r.pc = "idle" => r.c = None
    BY DEF WkOK
  <2>6. r.c = c => r.pc \in Served \cup {"finish"} /\ ~r.drop
    BY <2>1, <2>5
  <2>7. out'[c] # <<>> => r.c = c /\ r.pc \in {"debug", "flush"}
    BY <2>1 DEF WkOK
  <2>8. OneEnd(out'[c])
    BY <2>1
  <2>9. PICK e, f, l, p, m : e = EndCount(c) /\ f = EndCount(c)' /\ l = Len(sent[c]) /\ p = out'[c] /\ m = wk'
    OBVIOUS
  <2>10. ClientOK(c, comm[c], out[c], net[c], e, l, queue, wk) /\ Moves(c, p, e, f, l, wk, m, w, r)
    BY <1>1, <2>3, <2>4, <2>6, <2>7, <2>8, <2>9 DEF Moves
  <2>11. ClientOK(c, comm[c], p, net[c], f, l, queue, m)
    BY <2>10, WorkerMoves
  <2> QED BY <2>9, <2>11 DEF Fits
<1>8. hasty \subseteq hasty' /\ (corrupt' = "early" => corrupt = "early")
  OBVIOUS
<1> QED BY <1>3, <1>4, <1>5, <1>6, <1>7, <1>8, StepOf

\* An answer, or the beginning of one, for client c.
Own(c, p) == p \in Seq(PartSet) /\ \A i \in 1 .. Len(p) : p[i].c = c
Unended(c, p) == Own(c, p) /\ \A i \in 1 .. Len(p) : p[i].what \notin Terminators
Answer(c, p) == Own(c, p) /\ OneEnd(p)

LEMMA AnswerConcat ==
  \A c, q, p : /\ Unended(c, q) /\ Answer(c, p) => Answer(c, q \o p)
               /\ Answer(c, q) /\ Unended(c, p) => Answer(c, q \o p)
               /\ Unended(c, q) /\ Unended(c, p) => Unended(c, q \o p)
<1> SUFFICES ASSUME NEW c, NEW q, NEW p, Own(c, q), Own(c, p)
             PROVE  /\ Unended(c, q) /\ Answer(c, p) => Answer(c, q \o p)
                    /\ Answer(c, q) /\ Unended(c, p) => Answer(c, q \o p)
                    /\ Unended(c, q) /\ Unended(c, p) => Unended(c, q \o p)
  BY DEF Unended, Answer
<1>1. PICK r : r = q \o p
  OBVIOUS
<1>2. /\ r \in Seq(PartSet) /\ Len(q) \in Nat
      /\ \A i \in 1 .. Len(r) : \/ i \in 1 .. Len(q) /\ r[i] = q[i]
                                \/ i - Len(q) \in 1 .. Len(p) /\ r[i] = p[i - Len(q)]
  BY <1>1, Concat DEF Own
<1>3. Own(c, r)
  BY <1>2 DEF Own
<1>4. ASSUME Unended(c, q), OneEnd(p) PROVE OneEnd(r)
  <2> SUFFICES ASSUME NEW i \in 1 .. Len(r), NEW j \in 1 .. Len(r),
                      r[i].what \in Terminators, r[j].what \in Terminators
               PROVE  i = j
    BY DEF OneEnd
  <2>1. /\ i - Len(q) \in 1 .. Len(p) /\ r[i] = p[i - Len(q)]
        /\ j - Len(q) \in 1 .. Len(p) /\ r[j] = p[j - Len(q)]
    BY <1>2, <1>4 DEF Unended
  <2>2. i - Len(q) = j - Len(q)
    BY <1>4, <2>1 DEF OneEnd
  <2> QED BY <1>2, <2>2
<1>5. ASSUME OneEnd(q), Unended(c, p) PROVE OneEnd(r)
  <2> SUFFICES ASSUME NEW i \in 1 .. Len(r), NEW j \in 1 .. Len(r),
                      r[i].what \in Terminators, r[j].what \in Terminators
               PROVE  i = j
    BY DEF OneEnd
  <2>1. i \in 1 .. Len(q) /\ r[i] = q[i] /\ j \in 1 .. Len(q) /\ r[j] = q[j]
    BY <1>2, <1>5 DEF Unended
  <2> QED BY <1>5, <2>1 DEF OneEnd
<1>6. ASSUME Unended(c, q), Unended(c, p) PROVE Unended(c, r)
  BY <1>2, <1>3, <1>6 DEF Unended
<1> QED BY <1>1, <1>3, <1>4, <1>5, <1>6 DEF Answer

LEMMA OwnConcat == \A c, q, p : Own(c, q) /\ Own(c, p) => Own(c, q \o p)
  BY Concat DEF Own

LEMMA OnePart ==
  \A c, req, what : c \in Clients /\ req \in Requests =>
    /\ what \in Terminators => Answer(c, <<Part(c, req, what)>>)
    /\ what \in {"cols", "row", "debug"} => Unended(c, <<Part(c, req, what)>>)
<1> SUFFICES ASSUME NEW c \in Clients, NEW req \in Requests, NEW what, what \in Terminators \cup {"cols", "row", "debug"}
             PROVE  /\ what \in Terminators => Answer(c, <<Part(c, req, what)>>)
                    /\ what \in {"cols", "row", "debug"} => Unended(c, <<Part(c, req, what)>>)
  OBVIOUS
<1>1. PICK x, p : x = Part(c, req, what) /\ p = <<x>>
  OBVIOUS
<1>2. x \in PartSet /\ x.c = c /\ x.what = what
  BY <1>1, PartType
<1>3. p \in Seq(PartSet) /\ Len(p) = 1 /\ p[1] = x
  BY <1>1, <1>2, Sequence1
<1>4. Answer(c, p)
  BY <1>2, <1>3 DEF Answer, Own, OneEnd
<1>5. what \in {"cols", "row", "debug"} => Unended(c, p)
  BY <1>2, <1>3 DEF Unended, Own, Terminators
<1> QED BY <1>1, <1>4, <1>5

LEMMA NoPart == \A c : Unended(c, <<>>) /\ Answer(c, <<>>)
  BY DEF Unended, Own, Answer, OneEnd

\* What the writer of a client that waits holds: nothing before the answer is written.
LEMMA Held ==
  ASSUME IInv, NEW w \in Workers, wk[w].pc \in Served
  PROVE  LET c == wk[w].c
         IN  /\ Own(c, out[c])
             /\ c \notin hasty => Answer(c, out[c]) /\ (wk[w].pc \notin {"debug", "flush"} => out[c] = <<>>)
<1>1. PICK c : c = wk[w].c
  OBVIOUS
<1>2. c \in Clients
  BY <1>1, Worker DEF Served
<1>3. Own(c, out[c])
  BY <1>2 DEF IInv, TypeInv, OutInv, Own
<1>4. ASSUME c \notin hasty
      PROVE  Answer(c, out[c]) /\ (wk[w].pc \notin {"debug", "flush"} => out[c] = <<>>)
  <2>1. ClientOK(c, comm[c], out[c], net[c], EndCount(c), Len(sent[c]), queue, wk)
    BY <1>2, <1>4 DEF IInv, ClientInv, Fits
  <2>2. \A v \in Workers : wk[v].c = c /\ wk[v].pc \in {"debug", "flush"} => v = w
    BY <1>1, <2>1 DEF ClientOK, OneRequest, Serves, Served
  <2>3. wk[w].pc \notin {"debug", "flush"} => out[c] = <<>>
    BY <2>1, <2>2 DEF ClientOK, Undisturbed
  <2>4. OneEnd(out[c])
    BY <2>1 DEF ClientOK, Undisturbed
  <2> QED BY <1>3, <2>3, <2>4 DEF Answer
<1> QED BY <1>1, <1>3, <1>4

\* What a worker becomes, and its writer holds, as long as the client waits.
Ongoing(r, o) ==
  /\ r.pc \in Served \cup {"idle"} /\ ~r.drop
  /\ OneEnd(o) /\ (o # <<>> => r.pc \in {"debug", "flush"})

\* A step that writes to the buffer, at most; o is what the writer holds after it.
Writes(w, c, r, o) ==
  /\ wk[w].pc \in Served /\ c = wk[w].c /\ Usable(c)
  /\ WkOK(r) /\ r.c \in {c, None} /\ r.pc # "free" /\ wk' = [wk EXCEPT ![w] = r]
  /\ Own(c, o) /\ out' = [out EXCEPT ![c] = o]
  /\ UNCHANGED <<got, comm, fd, net, ev, queue, sent, hasty, corrupt>>
  /\ owner' \in [Fds -> Clients \cup {"file", None}]
  /\ \A f \in Fds : owner[f] # None => owner'[f] = owner[f]
  /\ session' = [d \in Clients |-> session'[d]] /\ \A d \in Clients : d # c => session'[d] = session[d]
  /\ c \notin hasty => Ongoing(r, o)

LEMMA BufferStep ==
  ASSUME IInv, NEW w \in Workers, NEW c, NEW r, NEW o, Writes(w, c, r, o)
  PROVE  IInv'
<1>0. /\ wk[w].pc \in Served /\ c = wk[w].c /\ Usable(c)
      /\ WkOK(r) /\ r.c \in {c, None} /\ r.pc # "free" /\ wk' = [wk EXCEPT ![w] = r]
      /\ Own(c, o) /\ out' = [out EXCEPT ![c] = o]
      /\ UNCHANGED <<got, comm, fd, net, ev, queue, sent, hasty, corrupt>>
      /\ owner' \in [Fds -> Clients \cup {"file", None}]
      /\ \A f \in Fds : owner[f] # None => owner'[f] = owner[f]
      /\ session' = [d \in Clients |-> session'[d]] /\ \A d \in Clients : d # c => session'[d] = session[d]
      /\ c \notin hasty => Ongoing(r, o)
  BY DEF Writes
<1>1. c \in Clients /\ Serves(wk[w], c)
  BY <1>0, Worker DEF Served, Serves
<1>2. /\ out' \in [Clients -> Seq(PartSet)] /\ out'[c] = o /\ \A d \in Clients : d # c => out'[d] = out[d]
  BY <1>0, <1>1 DEF IInv, TypeInv, Own
<1>3. OutInv'
  BY <1>0, <1>2 DEF IInv, OutInv, Own
<1>4. NoStrayBytes' /\ got' \in [Clients \cup {"file"} -> Seq(PartSet)]
  BY <1>0 DEF IInv, NoStrayBytes, TypeInv
<1>5. \A d \in Clients : EndCount(d)' = EndCount(d)
  BY <1>0 DEF EndCount
<1>6. \A d \in Clients : d # c => out'[d] = out[d] /\ EndCount(d)' = EndCount(d)
  BY <1>2, <1>5
<1>7. c \notin hasty =>
        /\ r.pc \in Served \cup {"idle", "finish"} /\ ~r.drop
        /\ OneEnd(out'[c]) /\ (out'[c] # <<>> => r.pc \in {"debug", "flush"})
        /\ EndCount(c)' = EndCount(c) \/ (EndCount(c)' <= EndCount(c) + 1 /\ r.pc \notin Served)
  BY <1>0, <1>1, <1>2, <1>5 DEF Ongoing
<1> QED BY <1>0, <1>1, <1>2, <1>3, <1>4, <1>6, <1>7, WorkerStepOf

\* An answer is added to the buffer, which was empty if the client waits, or the
\* connection is broken, which it is not then.
LEMMA AnswerStep ==
  ASSUME IInv, NEW w \in Workers, wk[w].pc \in {"open", "rows"}, NEW c, c = wk[w].c, Usable(c),
         NEW p, Answer(c, p),
         \/ Buffered(c, p) /\ SetW(w, [wk[w] EXCEPT !.pc = "debug"])
         \/ /\ WriteFails(c) /\ UNCHANGED <<out, got>>
            /\ \E b \in BOOLEAN : SetW(w, [wk[w] EXCEPT !.pc = "flush", !.drop = b]),
         session' = [d \in Clients |-> session'[d]], \A d \in Clients : d # c => session'[d] = session[d],
         UNCHANGED <<owner, comm, fd, net, ev, queue, sent, hasty, corrupt>>
  PROVE  IInv'
<1>1. /\ c \in Clients /\ wk[w] \in WkSet /\ WkOK(wk[w]) /\ wk[w].pc \in Served
      /\ c \notin hasty => ~wk[w].drop
  BY Worker DEF Served, IInv, TypeInv
<1>2. /\ Own(c, out[c]) /\ owner \in [Fds -> Clients \cup {"file", None}]
      /\ c \notin hasty => out[c] = <<>> /\ CanWrite(c)
  BY <1>1, Held, Reachable DEF IInv, TypeInv
<1>3. CASE Buffered(c, p) /\ SetW(w, [wk[w] EXCEPT !.pc = "debug"])
  <2>1. PICK r : r = [wk[w] EXCEPT !.pc = "debug"]
    OBVIOUS
  <2>2. WkOK(r) /\ r.c = c /\ r.pc = "debug" /\ r.drop = wk[w].drop /\ wk' = [wk EXCEPT ![w] = r]
    BY <1>1, <1>3, <2>1 DEF SetW, WkOK, WkSet, Served
  <2>3. PICK o : o = out[c] \o p
    OBVIOUS
  <2>4. Own(c, o) /\ out' = [out EXCEPT ![c] = o] /\ got' = got
    <3>1. Own(c, o)
      BY <1>2, <2>3, OwnConcat DEF Answer
    <3> QED BY <1>3, <2>3, <3>1 DEF Buffered
  <2>5. c \notin hasty => OneEnd(o)
    <3>1. p \in Seq(PartSet) /\ OneEnd(p)
      BY DEF Answer, Own
    <3>2. <<>> \o p = p
      BY <3>1, ConcatEmptySeq
    <3> QED BY <1>2, <2>3, <3>1, <3>2
  <2>6. c \notin hasty => Ongoing(r, o)
    BY <1>1, <2>2, <2>5 DEF Served, Ongoing
  <2>7. UNCHANGED <<got, comm, fd, net, ev, queue, sent, hasty, corrupt>> /\ r.c \in {c, None} /\ r.pc # "free"
        /\ owner' \in [Fds -> Clients \cup {"file", None}]
        /\ \A f \in Fds : owner[f] # None => owner'[f] = owner[f]
    BY <1>2, <2>2, <2>4
  <2>8. wk[w].pc \in Served /\ WkOK(r) /\ wk' = [wk EXCEPT ![w] = r]
    BY <1>1, <2>2
  <2>9. Writes(w, c, r, o)
    BY <2>4, <2>6, <2>7, <2>8 DEF Writes
  <2> QED BY <2>9, BufferStep
<1>4. CASE /\ WriteFails(c) /\ UNCHANGED <<out, got>>
           /\ \E b \in BOOLEAN : SetW(w, [wk[w] EXCEPT !.pc = "flush", !.drop = b])
  <2>1. PICK b \in BOOLEAN : SetW(w, [wk[w] EXCEPT !.pc = "flush", !.drop = b])
    BY <1>4
  <2>2. PICK r : r = [wk[w] EXCEPT !.pc = "flush", !.drop = b]
    OBVIOUS
  <2>3. WkOK(r) /\ r.c = c /\ r.pc = "flush" /\ wk' = [wk EXCEPT ![w] = r]
    BY <1>1, <2>1, <2>2 DEF SetW, WkOK, WkSet, Served
  <2>4. c \in hasty
    BY <1>2, <1>4 DEF WriteFails
  <2>5. PICK o : o = out[c]
    OBVIOUS
  <2>6. Own(c, o) /\ out' = [out EXCEPT ![c] = o]
    BY <1>1, <1>2, <1>4, <2>5 DEF IInv, TypeInv
  <2>7. UNCHANGED <<got, comm, fd, net, ev, queue, sent, hasty, corrupt>> /\ r.c \in {c, None} /\ r.pc # "free"
        /\ owner' \in [Fds -> Clients \cup {"file", None}]
        /\ \A f \in Fds : owner[f] # None => owner'[f] = owner[f]
    BY <1>2, <1>4, <2>3
  <2>8. Writes(w, c, r, o)
    BY <1>1, <2>3, <2>4, <2>6, <2>7 DEF Writes
  <2> QED BY <2>8, BufferStep
<1> QED BY <1>3, <1>4

\* What a statement does to its session and to the descriptors.
LEMMA CommandStep ==
  ASSUME IInv, NEW c \in Clients, NEW stmt, Command(c, stmt)
  PROVE  /\ session' = [d \in Clients |-> session'[d]] /\ \A d \in Clients : d # c => session'[d] = session[d]
         /\ owner' \in [Fds -> Clients \cup {"file", None}]
         /\ \A f \in Fds : owner[f] # None => owner'[f] = owner[f]
<1>1. /\ owner \in [Fds -> Clients \cup {"file", None}]
      /\ session = [d \in Clients |-> session[d]]
  BY DEF IInv, TypeInv
<1>2. \/ owner' = owner
      \/ \E f \in Fds : owner[f] = None /\ owner' = [owner EXCEPT ![f] = "file"]
  <2>1. CASE stmt \in {"begin", "commit", "rollback", "set"}
    BY <2>1 DEF Command, BeginTrx, StopTrx, SetVariable
  <2>2. CASE stmt = "create"
    <3>1. OpenFile
      BY <2>2 DEF Command
    <3> QED BY <3>1, FreeFdIs DEF OpenFile
  <2>3. CASE stmt \notin {"begin", "commit", "rollback", "set", "create"}
    BY <2>3 DEF Command
  <2> QED BY <2>1, <2>2, <2>3
<1>3. session' = [d \in Clients |-> session'[d]] /\ \A d \in Clients : d # c => session'[d] = session[d]
  <2>1. CASE stmt = "begin"
    BY <1>1, <2>1 DEF Command, BeginTrx
  <2>2. CASE stmt = "commit"
    BY <1>1, <2>2 DEF Command, StopTrx
  <2>3. CASE stmt = "rollback"
    BY <1>1, <2>3 DEF Command, StopTrx
  <2>4. CASE stmt = "set"
    BY <1>1, <2>4 DEF Command, SetVariable
  <2>5. CASE stmt \notin {"begin", "commit", "rollback", "set"}
    BY <1>1, <2>5 DEF Command, OpenFile
  <2> QED BY <2>1, <2>2, <2>3, <2>4, <2>5
<1>4. owner' \in [Fds -> Clients \cup {"file", None}] /\ \A f \in Fds : owner[f] # None => owner'[f] = owner[f]
  BY <1>1, <1>2
<1> QED BY <1>3, <1>4

LEMMA HandleSqlKeeps ==
  ASSUME IInv, NEW w \in Workers, HandleSql(w)
  PROVE  IInv'
<1>1. PICK c, stmt : c = wk[w].c /\ stmt = wk[w].req.stmt
  OBVIOUS
<1>2. /\ wk[w].pc = "sql" /\ Usable(c) /\ Command(c, stmt)
      /\ UNCHANGED <<comm, fd, authed, out, net, ev, queue, got, sent, hasty, corrupt>>
  BY <1>1 DEF HandleSql
<1>3. c \in Clients /\ wk[w] \in WkSet /\ wk[w].req \in Requests /\ (c \notin hasty => ~wk[w].drop)
  BY <1>1, <1>2, Worker
<1>4. /\ session' = [d \in Clients |-> session'[d]] /\ \A d \in Clients : d # c => session'[d] = session[d]
      /\ owner' \in [Fds -> Clients \cup {"file", None}]
      /\ \A f \in Fds : owner[f] # None => owner'[f] = owner[f]
  BY <1>2, <1>3, CommandStep
<1>5. Own(c, out[c]) /\ (c \notin hasty => out[c] = <<>>) /\ wk[w].pc \in Served
  BY <1>1, <1>2, Held DEF Served
<1>6. out' = [out EXCEPT ![c] = out[c]]
  BY <1>2, <1>3 DEF IInv, TypeInv
<1>7. PICK r : /\ wk' = [wk EXCEPT ![w] = r] /\ WkOK(r) /\ r.c \in {c, None} /\ r.pc \in {"idle", "open"}
               /\ c \notin hasty => ~r.drop
  <2>1. PICK rc \in BOOLEAN, op \in BOOLEAN :
          wk' = [wk EXCEPT ![w] = IF stmt = "blank" THEN WkIdle ELSE [wk[w] EXCEPT !.pc = "open", !.rc = rc, !.op = op]]
    <3>1. wk' = [wk EXCEPT ![w] = IF stmt = "blank" THEN WkIdle
                                  ELSE [wk[w] EXCEPT !.pc = "open", !.rc = stmt # "syntax", !.op = stmt \in {"select", "change"}]]
      BY <1>1 DEF HandleSql, SetW
    <3>2. (stmt # "syntax") \in BOOLEAN /\ (stmt \in {"select", "change"}) \in BOOLEAN
      OBVIOUS
    <3> QED BY <3>1, <3>2, Zenon
  <2>2. CASE stmt = "blank"
    <3>1. wk' = [wk EXCEPT ![w] = WkIdle]
      BY <2>1, <2>2
    <3>2. WkOK(WkIdle) /\ WkIdle.c = None /\ WkIdle.pc = "idle" /\ ~WkIdle.drop
      BY DEF WkOK, WkSet, WkIdle
    <3> QED BY <3>1, <3>2
  <2>3. CASE stmt # "blank"
    <3>1. PICK r : r = [wk[w] EXCEPT !.pc = "open", !.rc = rc, !.op = op]
      OBVIOUS
    <3>2. WkOK(r) /\ r.c = c /\ r.pc = "open" /\ r.drop = wk[w].drop
      BY <1>1, <1>3, <3>1 DEF WkOK, WkSet, Served
    <3>3. wk' = [wk EXCEPT ![w] = r]
      BY <2>1, <2>3, <3>1
    <3> QED BY <1>3, <3>2, <3>3
  <2> QED BY <2>2, <2>3
<1>8. c \notin hasty => Ongoing(r, out[c])
  BY <1>5, <1>7, NoEnd DEF Ongoing, Served
<1>9. Writes(w, c, r, out[c])
  BY <1>1, <1>2, <1>4, <1>5, <1>6, <1>7, <1>8 DEF Writes
<1> QED BY <1>9, BufferStep

LEMMA StateAnswer ==
  ASSUME IInv, NEW w \in Workers, wk[w].pc # "idle", NEW rc
  PROVE  Answer(wk[w].c, State(w, rc))
<1>1. PICK what : what = IF rc THEN "ok" ELSE "fail"
  OBVIOUS
<1>2. what \in Terminators
  BY <1>1 DEF Terminators
<1>3. State(w, rc) = <<Part(wk[w].c, wk[w].req, what)>>
  BY <1>1 DEF State
<1> QED BY <1>2, <1>3, Worker, OnePart

LEMMA AnswerStateKeeps ==
  ASSUME IInv, NEW w \in Workers, AnswerState(w)
  PROVE  IInv'
<1>1. PICK c, p : c = wk[w].c /\ p = State(w, wk[w].rc)
  OBVIOUS
<1>2. /\ wk[w].pc \in {"open", "rows"} /\ Usable(c) /\ WriteState(w, wk[w].rc)
      /\ UNCHANGED <<owner, comm, fd, session, authed, net, ev, queue, sent, hasty, corrupt>>
  BY <1>1 DEF AnswerState
<1>3. Answer(c, p)
  BY <1>1, <1>2, StateAnswer
<1>4. \/ Buffered(c, p) /\ SetW(w, [wk[w] EXCEPT !.pc = "debug"])
      \/ /\ WriteFails(c) /\ UNCHANGED <<out, got>>
         /\ \E b \in BOOLEAN : SetW(w, [wk[w] EXCEPT !.pc = "flush", !.drop = b])
  BY <1>1, <1>2 DEF WriteState
<1>5. session' = [d \in Clients |-> session'[d]] /\ \A d \in Clients : d # c => session'[d] = session[d]
  BY <1>2 DEF IInv, TypeInv
<1> QED BY <1>1, <1>2, <1>3, <1>4, <1>5, AnswerStep

LEMMA OpenResultKeeps ==
  ASSUME IInv, NEW w \in Workers, OpenResult(w)
  PROVE  IInv'
<1>1. PICK c, ids : c = wk[w].c /\ ids = IF wk[w].req.stmt = "change" THEN {wk[w].req.id} ELSE {}
  OBVIOUS
<1>2. /\ wk[w].pc = "open" /\ Usable(c)
      /\ UNCHANGED <<owner, comm, fd, authed, net, ev, queue, sent, hasty, corrupt>>
      /\ \/ /\ session' = Started(c, ids) /\ SetW(w, [wk[w] EXCEPT !.pc = "rows"])
            /\ UNCHANGED <<committed, failed, out, got>>
         \/ /\ IF c \in Mysql THEN session' = Started(c, ids) /\ UNCHANGED committed ELSE CloseFailed(c, ids)
            /\ WriteState(w, FALSE)
  BY <1>1 DEF OpenResult
<1>3. /\ c \in Clients /\ wk[w] \in WkSet /\ wk[w].req \in Requests /\ wk[w].pc \in Served
      /\ c \notin hasty => ~wk[w].drop
  BY <1>1, <1>2, Worker DEF Served
<1>4. session' = [d \in Clients |-> session'[d]] /\ \A d \in Clients : d # c => session'[d] = session[d]
  BY <1>2 DEF Started, CloseFailed, IInv, TypeInv
<1>5. CASE SetW(w, [wk[w] EXCEPT !.pc = "rows"]) /\ UNCHANGED <<out, got>>
  <2>1. PICK r : r = [wk[w] EXCEPT !.pc = "rows"]
    OBVIOUS
  <2>2. WkOK(r) /\ r.c = c /\ r.pc = "rows" /\ r.drop = wk[w].drop /\ wk' = [wk EXCEPT ![w] = r]
    BY <1>1, <1>3, <1>5, <2>1 DEF SetW, WkOK, WkSet, Served
  <2>3. Own(c, out[c]) /\ (c \notin hasty => out[c] = <<>>)
    BY <1>1, <1>2, <1>3, Held
  <2>4. out' = [out EXCEPT ![c] = out[c]]
    BY <1>3, <1>5 DEF IInv, TypeInv
  <2>5. c \notin hasty => Ongoing(r, out[c])
    BY <1>3, <2>2, <2>3, NoEnd DEF Ongoing, Served
  <2>6. owner' \in [Fds -> Clients \cup {"file", None}] /\ \A f \in Fds : owner[f] # None => owner'[f] = owner[f]
    BY <1>2 DEF IInv, TypeInv
  <2>7. Writes(w, c, r, out[c])
    BY <1>1, <1>2, <1>3, <1>4, <1>5, <2>2, <2>3, <2>4, <2>5, <2>6 DEF Writes
  <2> QED BY <2>7, BufferStep
<1>6. CASE WriteState(w, FALSE)
  <2>1. PICK p : p = State(w, FALSE)
    OBVIOUS
  <2>2. Answer(c, p)
    BY <1>1, <1>2, <2>1, StateAnswer
  <2>3. \/ Buffered(c, p) /\ SetW(w, [wk[w] EXCEPT !.pc = "debug"])
        \/ /\ WriteFails(c) /\ UNCHANGED <<out, got>>
           /\ \E b \in BOOLEAN : SetW(w, [wk[w] EXCEPT !.pc = "flush", !.drop = b])
    BY <1>1, <1>6, <2>1 DEF WriteState
  <2> QED BY <1>1, <1>2, <1>4, <2>2, <2>3, AnswerStep
<1> QED BY <1>2, <1>5, <1>6

LEMMA RowsUnended ==
  ASSUME NEW c \in Clients, NEW req \in Requests
  PROVE  Unended(c, Rows(c, req)) /\ Unended(c, ColumnDefinition(c, req))
BY OnePart, NoPart DEF Rows, ColumnDefinition

LEMMA SendRowsPlainKeeps ==
  ASSUME IInv, NEW w \in Workers, SendRowsPlain(w)
  PROVE  IInv'
<1>1. PICK c, req, end : c = wk[w].c /\ req = wk[w].req
                         /\ end = IF req.stmt = "change" THEN State(w, TRUE) ELSE <<Part(c, req, "end")>>
  OBVIOUS
<1>2. /\ wk[w].pc \in {"open", "rows"} /\ Usable(c)
      /\ UNCHANGED <<owner, comm, fd, authed, net, ev, queue, sent, hasty, corrupt>>
      /\ EndTrx(c) \/ UNCHANGED <<session, committed>>
      /\ \/ Buffered(c, Rows(c, req) \o end) /\ SetW(w, [wk[w] EXCEPT !.pc = "debug"])
         \/ Buffered(c, State(w, FALSE)) /\ SetW(w, [wk[w] EXCEPT !.pc = "debug"])
         \/ /\ WriteFails(c) /\ UNCHANGED <<out, got>>
            /\ SetW(w, [wk[w] EXCEPT !.pc = "flush", !.drop = TRUE])
  BY <1>1 DEF SendRowsPlain
<1>3. c \in Clients /\ req \in Requests
  BY <1>1, <1>2, Worker
<1>4. session' = [d \in Clients |-> session'[d]] /\ \A d \in Clients : d # c => session'[d] = session[d]
  BY <1>2, <1>3, EndTrxSession DEF IInv, TypeInv
<1>5. Answer(c, State(w, TRUE)) /\ Answer(c, State(w, FALSE)) /\ Answer(c, <<Part(c, req, "end")>>)
  BY <1>1, <1>2, <1>3, StateAnswer, OnePart DEF Terminators
<1>6. Answer(c, Rows(c, req) \o end)
  <2>1. Answer(c, end) /\ Unended(c, Rows(c, req))
    BY <1>1, <1>3, <1>5, RowsUnended
  <2> QED BY <2>1, AnswerConcat
<1>7. PICK p : /\ Answer(c, p)
               /\ \/ Buffered(c, p) /\ SetW(w, [wk[w] EXCEPT !.pc = "debug"])
                  \/ /\ WriteFails(c) /\ UNCHANGED <<out, got>>
                     /\ \E b \in BOOLEAN : SetW(w, [wk[w] EXCEPT !.pc = "flush", !.drop = b])
  BY <1>2, <1>5, <1>6
<1> QED BY <1>1, <1>2, <1>4, <1>7, AnswerStep

LEMMA SendRowsMysqlKeeps ==
  ASSUME IInv, NEW w \in Workers, SendRowsMysql(w)
  PROVE  IInv'
<1>1. PICK c, req, end : c = wk[w].c /\ req = wk[w].req
                         /\ end = IF req.stmt = "change" THEN State(w, TRUE) ELSE <<Part(c, req, "eof")>>
  OBVIOUS
<1>2. /\ wk[w].pc \in {"open", "rows"} /\ Usable(c) /\ EndTrx(c)
      /\ UNCHANGED <<owner, comm, fd, authed, net, ev, queue, sent, hasty, corrupt>>
      /\ \/ Buffered(c, ColumnDefinition(c, req) \o Rows(c, req) \o end) /\ SetW(w, [wk[w] EXCEPT !.pc = "debug"])
         \/ Buffered(c, ColumnDefinition(c, req) \o end) /\ SetW(w, [wk[w] EXCEPT !.pc = "debug"])
         \/ /\ WriteFails(c) /\ UNCHANGED <<out, got>>
            /\ SetW(w, [wk[w] EXCEPT !.pc = "flush", !.drop = req.stmt # "change"])
  BY <1>1 DEF SendRowsMysql
<1>3. c \in Clients /\ req \in Requests
  BY <1>1, <1>2, Worker
<1>4. session' = [d \in Clients |-> session'[d]] /\ \A d \in Clients : d # c => session'[d] = session[d]
  BY <1>2, <1>3, EndTrxSession
<1>5. Answer(c, State(w, TRUE)) /\ Answer(c, <<Part(c, req, "eof")>>)
  BY <1>1, <1>2, <1>3, StateAnswer, OnePart DEF Terminators
<1>6. Answer(c, end) /\ Unended(c, Rows(c, req)) /\ Unended(c, ColumnDefinition(c, req))
  BY <1>1, <1>3, <1>5, RowsUnended
<1>7. Answer(c, ColumnDefinition(c, req) \o Rows(c, req) \o end) /\ Answer(c, ColumnDefinition(c, req) \o end)
  <2>1. Unended(c, ColumnDefinition(c, req) \o Rows(c, req))
    BY <1>6, AnswerConcat
  <2> QED BY <1>6, <2>1, AnswerConcat
<1>8. (req.stmt # "change") \in BOOLEAN
  OBVIOUS
<1>9. PICK p : /\ Answer(c, p)
               /\ \/ Buffered(c, p) /\ SetW(w, [wk[w] EXCEPT !.pc = "debug"])
                  \/ /\ WriteFails(c) /\ UNCHANGED <<out, got>>
                     /\ \E b \in BOOLEAN : SetW(w, [wk[w] EXCEPT !.pc = "flush", !.drop = b])
  BY <1>2, <1>5, <1>7, <1>8, Zenon
<1> QED BY <1>1, <1>2, <1>4, <1>9, AnswerStep

LEMMA WriteDebugKeeps ==
  ASSUME IInv, NEW w \in Workers, WriteDebug(w)
  PROVE  IInv'
<1>1. PICK c, p : c = wk[w].c /\ p = <<Part(c, wk[w].req, "debug")>>
  OBVIOUS
<1>2. /\ wk[w].pc = "debug" /\ Usable(c)
      /\ UNCHANGED <<owner, comm, fd, session, authed, net, ev, queue, sent, committed, failed, hasty, corrupt>>
      /\ \/ Buffered(c, p) /\ SetW(w, [wk[w] EXCEPT !.pc = "flush"])
         \/ WriteFails(c) /\ UNCHANGED <<out, got>> /\ SetW(w, [wk[w] EXCEPT !.pc = "flush", !.drop = TRUE])
         \/ SetW(w, [wk[w] EXCEPT !.pc = "flush"]) /\ UNCHANGED <<out, got>>
  BY <1>1 DEF WriteDebug
<1>3. /\ c \in Clients /\ wk[w] \in WkSet /\ wk[w].req \in Requests /\ wk[w].pc \in Served
      /\ c \notin hasty => ~wk[w].drop
  BY <1>1, <1>2, Worker DEF Served
<1>4. /\ Own(c, out[c]) /\ Unended(c, p)
      /\ c \notin hasty => Answer(c, out[c]) /\ CanWrite(c)
  BY <1>1, <1>2, <1>3, Held, Reachable, OnePart
<1>5. PICK o : /\ Own(c, o) /\ out' = [out EXCEPT ![c] = o] /\ (c \notin hasty => OneEnd(o))
  <2>1. Own(c, out[c] \o p) /\ (c \notin hasty => Answer(c, out[c] \o p))
    BY <1>4, OwnConcat, AnswerConcat DEF Unended
  <2>2. CASE Buffered(c, p)
    <3>1. out' = [out EXCEPT ![c] = out[c] \o p]
      BY <2>2 DEF Buffered
    <3> QED BY <2>1, <3>1 DEF Answer
  <2>3. CASE UNCHANGED <<out, got>>
    <3>1. out' = [out EXCEPT ![c] = out[c]]
      BY <1>3, <2>3 DEF IInv, TypeInv
    <3> QED BY <1>4, <3>1 DEF Answer
  <2> QED BY <1>2, <2>2, <2>3
<1>6. PICK r : /\ wk' = [wk EXCEPT ![w] = r] /\ WkOK(r) /\ r.c = c /\ r.pc = "flush"
               /\ c \notin hasty => ~r.drop
  <2>1. CASE SetW(w, [wk[w] EXCEPT !.pc = "flush"])
    <3>1. PICK r : r = [wk[w] EXCEPT !.pc = "flush"]
      OBVIOUS
    <3>2. WkOK(r) /\ r.c = c /\ r.pc = "flush" /\ r.drop = wk[w].drop /\ wk' = [wk EXCEPT ![w] = r]
      BY <1>1, <1>3, <2>1, <3>1 DEF SetW, WkOK, WkSet, Served
    <3> QED BY <1>3, <3>2
  <2>2. CASE WriteFails(c) /\ SetW(w, [wk[w] EXCEPT !.pc = "flush", !.drop = TRUE])
    <3>1. PICK r : r = [wk[w] EXCEPT !.pc = "flush", !.drop = TRUE]
      OBVIOUS
    <3>2. WkOK(r) /\ r.c = c /\ r.pc = "flush" /\ wk' = [wk EXCEPT ![w] = r]
      BY <1>1, <1>3, <2>2, <3>1 DEF SetW, WkOK, WkSet, Served
    <3>3. c \in hasty
      BY <1>4, <2>2 DEF WriteFails
    <3> QED BY <3>2, <3>3
  <2> QED BY <1>2, <2>1, <2>2
<1>7. c \notin hasty => Ongoing(r, o)
  BY <1>5, <1>6 DEF Ongoing, Served
<1>8. /\ owner' \in [Fds -> Clients \cup {"file", None}] /\ (\A f \in Fds : owner[f] # None => owner'[f] = owner[f])
      /\ session' = [d \in Clients |-> session'[d]] /\ \A d \in Clients : d # c => session'[d] = session[d]
  BY <1>2 DEF IInv, TypeInv
<1>9. got' = got
  BY <1>2 DEF Buffered
<1>10. Writes(w, c, r, o)
  BY <1>1, <1>2, <1>3, <1>5, <1>6, <1>7, <1>8, <1>9 DEF Writes
<1> QED BY <1>10, BufferStep

LEMMA FlushResultKeeps ==
  ASSUME IInv, NEW w \in Workers, FlushResult(w)
  PROVE  IInv'
<1>1. PICK c, o, r : c = wk[w].c /\ o = out[c] /\ r = [wk[w] EXCEPT !.pc = IF wk[w].drop THEN "close" ELSE "finish"]
  OBVIOUS
<1>2. /\ wk[w].pc = "flush" /\ Usable(c) /\ Flush(c, o) /\ wk' = [wk EXCEPT ![w] = r]
      /\ UNCHANGED <<owner, comm, fd, session, authed, net, ev, queue, sent, committed, failed, hasty, corrupt>>
  BY <1>1 DEF FlushResult, SetW
<1>3. /\ c \in Clients /\ wk[w] \in WkSet /\ wk[w].req \in Requests /\ wk[w].pc \in Served
      /\ c \notin hasty => ~wk[w].drop
  BY <1>1, <1>2, Worker DEF Served
<1>4. /\ Own(c, o)
      /\ c \notin hasty => OneEnd(o) /\ owner[fd[c]] = c /\ ~net[c].closed
  BY <1>1, <1>2, <1>3, Held, Reachable DEF Answer
<1>5. /\ WkOK(r) /\ r.c = c /\ r.pc \in {"close", "finish"} /\ r.drop = wk[w].drop
      /\ c \notin hasty => r.pc = "finish" /\ ~r.drop
  BY <1>1, <1>3 DEF WkOK, WkSet, Served
<1>6. o \in Seq(PartSet) /\ (\A i \in 1 .. Len(o) : o[i].c = c) /\ comm[c] # "none" /\ hasty' = hasty
  BY <1>2, <1>4 DEF Own, Usable
<1>7. /\ out' \in [Clients -> Seq(PartSet)] /\ got' \in [Clients \cup {"file"} -> Seq(PartSet)]
      /\ OutInv' /\ NoStrayBytes'
      /\ \A d \in Clients : d # c => out'[d] = out[d] /\ EndCount(d)' = EndCount(d)
      /\ c \notin hasty => out'[c] = <<>> /\ EndCount(c)' <= EndCount(c) + 1
  BY <1>2, <1>3, <1>4, <1>6, FlushStep
<1>8. c \notin hasty =>
        /\ r.pc \in Served \cup {"idle", "finish"} /\ ~r.drop
        /\ OneEnd(out'[c]) /\ (out'[c] # <<>> => r.pc \in {"debug", "flush"})
        /\ EndCount(c)' = EndCount(c) \/ (EndCount(c)' <= EndCount(c) + 1 /\ r.pc \notin Served)
  BY <1>5, <1>7, NoEnd DEF Served
<1>9. /\ owner' \in [Fds -> Clients \cup {"file", None}] /\ (\A f \in Fds : owner[f] # None => owner'[f] = owner[f])
      /\ session' = [d \in Clients |-> session'[d]] /\ \A d \in Clients : d # c => session'[d] = session[d]
  BY <1>2 DEF IInv, TypeInv
<1>10. Serves(wk[w], c) /\ r.c \in {c, None} /\ r.pc # "free"
  BY <1>1, <1>3, <1>5 DEF Serves
<1> QED BY <1>2, <1>3, <1>5, <1>7, <1>8, <1>9, <1>10, WorkerStepOf

\* A worker takes a client's request from the queue, and leaves the client at the end.
LEMMA Taken ==
  \A c, cm, o, n, e, l, q, r, k, m, w :
    ClientOK(c, cm, o, n, e, l, q, k) /\ InQueue(q, c) /\ ~InQueue(r, c) /\ Once(r, c)
      /\ w \in Workers /\ Serves(m[w], c) /\ ~m[w].drop /\ (\A v \in Workers : v # w => m[v] = k[v])
    => ClientOK(c, cm, o, n, e, l, r, m)
<1> SUFFICES ASSUME NEW c, NEW cm, NEW o, NEW n, NEW e, NEW l, NEW q, NEW r, NEW k, NEW m, NEW w,
                    ClientOK(c, cm, o, n, e, l, q, k), InQueue(q, c), ~InQueue(r, c), Once(r, c),
                    w \in Workers, Serves(m[w], c), ~m[w].drop, \A v \in Workers : v # w => m[v] = k[v]
             PROVE  ClientOK(c, cm, o, n, e, l, r, m)
  OBVIOUS
<1>1. /\ e < l /\ ~n.closed /\ n.reqs = <<>> /\ Len(n.reqs) <= 1 /\ e <= l
      /\ \A v \in Workers : ~Serves(k[v], c)
      /\ Undisturbed(c, o, k)
  BY DEF ClientOK, Busy, OneRequest
<1>2. o = <<>>
  BY <1>1 DEF Undisturbed, Serves, Served
<1>3. OneRequest(c, n, r, m)
  BY <1>1 DEF OneRequest
<1>4. Undisturbed(c, o, m)
  <2>1. m[w].pc \in Served \cup {"finish"}
    BY DEF Serves
  <2> QED BY <1>1, <1>2, <2>1 DEF Undisturbed
<1> QED BY <1>1, <1>3, <1>4 DEF ClientOK

LEMMA Left ==
  \A c, cm, o, n, e, l, q, k, m, w :
    ClientOK(c, cm, o, n, e, l, q, k) /\ w \in Workers /\ k[w].pc = "finish" /\ m[w].c # c
      /\ (\A v \in Workers : v # w => m[v] = k[v])
    => ClientOK(c, cm, o, n, e, l, q, m)
<1> SUFFICES ASSUME NEW c, NEW cm, NEW o, NEW n, NEW e, NEW l, NEW q, NEW k, NEW m, NEW w,
                    ClientOK(c, cm, o, n, e, l, q, k), w \in Workers, k[w].pc = "finish", m[w].c # c,
                    \A v \in Workers : v # w => m[v] = k[v]
             PROVE  ClientOK(c, cm, o, n, e, l, q, m)
  OBVIOUS
<1>1. \A v \in Workers : Serves(m[v], c) <=> Serves(k[v], c)
  BY DEF Serves, Served
<1>2. OneRequest(c, n, q, m)
  BY <1>1 DEF ClientOK, OneRequest
<1>3. Busy(c, n, q, m) => Busy(c, n, q, k)
  BY <1>1 DEF Busy
<1>4. Undisturbed(c, o, m)
  <2>1. Undisturbed(c, o, k)
    BY DEF ClientOK
  <2>2. \A v \in Workers : m[v].c = c => m[v].pc \in Served \cup {"finish"} /\ ~m[v].drop
    BY <2>1 DEF Undisturbed
  <2>3. o # <<>> => \E v \in Workers : m[v].c = c /\ m[v].pc \in {"debug", "flush"}
    BY <2>1 DEF Undisturbed
  <2>4. OneEnd(o)
    BY <2>1 DEF Undisturbed
  <2> QED BY <2>2, <2>3, <2>4 DEF Undisturbed
<1> QED BY <1>2, <1>3, <1>4 DEF ClientOK

\* Only a worker and the queue move; k is what becomes of the workers.
LEMMA QueueStep ==
  ASSUME IInv, NEW w \in Workers, NEW c \in Clients, NEW r, WkOK(r), r.pc # "free", wk' = [wk EXCEPT ![w] = r],
         queue' \in Seq(Events), UNCHANGED <<conns, net, ev, truth, corrupt>>,
         \A d \in Clients : d # c => SameElsewhere(queue, queue', wk, wk', d),
         c \notin hasty => ClientOK(c, comm[c], out[c], net[c], EndCount(c), Len(sent[c]), queue', wk')
  PROVE  IInv'
<1>1. wk' = [v \in Workers |-> wk'[v]] /\ wk'[w] = r /\ \A v \in Workers : v # w => wk'[v] = wk[v]
  BY DEF IInv, TypeInv
<1>2. TypeInv'
  <2>1. \A v \in Workers : WkOK(wk'[v])
    BY <1>1 DEF IInv, TypeInv
  <2> QED BY <1>1, <2>1 DEF IInv, TypeInv, Events, conns, truth
<1>3. ConnInv'
  <2>1. \A v \in Workers : wk'[v].pc = "free" => comm'[wk'[v].c] \in {"closing", "freed"}
    BY <1>1 DEF IInv, ConnInv, conns
  <2> QED BY <2>1 DEF IInv, ConnInv, conns
<1>4. EvInv' /\ OutInv' /\ NoStrayBytes'
  BY DEF IInv, EvInv, OutInv, NoStrayBytes, conns, truth
<1>5. \A d \in Clients : d # c => SameClient(d)
  BY DEF SameClient, EndCount, conns, truth
<1>6. c \in Clients \ hasty' => Fits(c)'
  BY DEF Fits, EndCount, conns, truth
<1>7. hasty \subseteq hasty' /\ (corrupt' = "early" => corrupt = "early")
  BY DEF truth
<1> QED BY <1>2, <1>3, <1>4, <1>5, <1>6, <1>7, StepOf

LEMMA TakeEventKeeps ==
  ASSUME IInv, NEW w \in Workers, TakeEvent(w)
  PROVE  IInv'
<1> USE ServerAssumption
<1>1. PICK x : x = Head(queue)
  OBVIOUS
<1>2. PICK r : r = [WkIdle EXCEPT !.pc = "sql", !.c = x.c, !.req = x.req]
  OBVIOUS
<1>3. /\ wk[w].pc = "idle" /\ queue # <<>> /\ queue' = Tail(queue) /\ wk' = [wk EXCEPT ![w] = r]
      /\ UNCHANGED <<conns, net, ev, truth, corrupt>>
  BY <1>1, <1>2 DEF TakeEvent, SetW
<1>4. queue \in Seq(Events)
  BY DEF IInv, TypeInv, Events
<1>5. /\ queue' \in Seq(Events) /\ x \in Events
      /\ \A d : (InQueue(queue', d) => InQueue(queue, d)) /\ (Once(queue, d) => Once(queue', d))
      /\ InQueue(queue, x.c) /\ (Once(queue, x.c) => ~InQueue(queue', x.c))
  BY <1>1, <1>3, <1>4, QueueTail
<1>6. PICK c : c = x.c /\ c \in Clients
  BY <1>5 DEF Events
<1>7. WkOK(r) /\ r.c = c /\ r.pc = "sql" /\ ~r.drop
  BY <1>2, <1>5, <1>6 DEF WkOK, WkSet, WkIdle, Events, Served
<1>8. wk'[w] = r /\ \A v \in Workers : v # w => wk'[v] = wk[v]
  BY <1>3 DEF IInv, TypeInv
<1>9. wk[w].c = None
  BY <1>3 DEF IInv, TypeInv, WkOK
<1>10. \A d \in Clients : d # c => SameElsewhere(queue, queue', wk, wk', d)
  BY <1>5, <1>7, <1>8, <1>9 DEF SameElsewhere
<1>11. ASSUME c \notin hasty
       PROVE  ClientOK(c, comm[c], out[c], net[c], EndCount(c), Len(sent[c]), queue', wk')
  <2>1. ClientOK(c, comm[c], out[c], net[c], EndCount(c), Len(sent[c]), queue, wk)
    BY <1>6, <1>11 DEF IInv, ClientInv, Fits
  <2>2. Once(queue, c)
    BY <2>1 DEF ClientOK, OneRequest
  <2>3. PICK q, m : q = queue' /\ m = wk'
    OBVIOUS
  <2>4. InQueue(queue, c) /\ ~InQueue(q, c) /\ Once(q, c)
    BY <1>5, <1>6, <2>2, <2>3
  <2>5. w \in Workers /\ Serves(m[w], c) /\ ~m[w].drop /\ \A v \in Workers : v # w => m[v] = wk[v]
    BY <1>7, <1>8, <2>3 DEF Serves, Served
  <2>6. ClientOK(c, comm[c], out[c], net[c], EndCount(c), Len(sent[c]), q, m)
    BY <2>1, <2>4, <2>5, Taken
  <2> QED BY <2>3, <2>6
<1> QED BY <1>3, <1>5, <1>6, <1>7, <1>10, <1>11, QueueStep

LEMMA FinishKeeps ==
  ASSUME IInv, NEW w \in Workers, Finish(w)
  PROVE  IInv'
<1> USE ServerAssumption
<1>1. PICK c, r : c = wk[w].c /\ r = WkIdle
  OBVIOUS
<1>2. /\ wk[w].pc = "finish" /\ wk' = [wk EXCEPT ![w] = r] /\ UNCHANGED <<conns, net, ev, queue, truth, corrupt>>
  BY <1>1 DEF Finish, SetW
<1>3. c \in Clients
  BY <1>1, <1>2, Worker
<1>4. WkOK(r) /\ r.c = None /\ r.pc = "idle"
  BY <1>1 DEF WkOK, WkSet, WkIdle
<1>5. wk'[w] = r /\ \A v \in Workers : v # w => wk'[v] = wk[v]
  BY <1>2 DEF IInv, TypeInv
<1>6. \A d \in Clients : d # c => SameElsewhere(queue, queue', wk, wk', d)
  BY <1>1, <1>2, <1>4, <1>5 DEF SameElsewhere
<1>7. ASSUME c \notin hasty
      PROVE  ClientOK(c, comm[c], out[c], net[c], EndCount(c), Len(sent[c]), queue', wk')
  <2>1. ClientOK(c, comm[c], out[c], net[c], EndCount(c), Len(sent[c]), queue, wk)
    BY <1>3, <1>7 DEF IInv, ClientInv, Fits
  <2>2. PICK m : m = wk'
    OBVIOUS
  <2>3. w \in Workers /\ wk[w].pc = "finish" /\ m[w].c # c /\ \A v \in Workers : v # w => m[v] = wk[v]
    BY <1>2, <1>3, <1>4, <1>5, <2>2
  <2>4. ClientOK(c, comm[c], out[c], net[c], EndCount(c), Len(sent[c]), queue, m)
    BY <2>1, <2>3, Left
  <2> QED BY <1>2, <2>2, <2>4
<1>8. queue' \in Seq(Events)
  BY <1>2 DEF IInv, TypeInv, Events
<1> QED BY <1>2, <1>3, <1>4, <1>6, <1>7, <1>8, QueueStep

\* Whoever uses a deleted connection before the answer is out serves a client that has
\* not waited.
LEMMA TouchKeeps ==
  ASSUME IInv, NEW w \in Workers, Touch(w)
  PROVE  IInv'
<1>1. UNCHANGED <<conns, net, ev, queue, wk, truth>>
  BY DEF Touch
<1>2. corrupt' = "early" => hasty # {}
  <2> SUFFICES ASSUME wk[w].pc # "finish" PROVE hasty # {}
    BY DEF Touch
  <2>1. /\ wk[w].pc # "idle"
        /\ comm[wk[w].c] = "freed" \/ wk[w].pc = "close"
    BY DEF Touch
  <2>2. ASSUME wk[w].c \notin hasty PROVE FALSE
    <3>1. wk[w].pc \in Served
      BY <2>1, <2>2, Worker
    <3>2. comm[wk[w].c] = "freed"
      BY <2>1, <3>1 DEF Served
    <3> QED BY <2>2, <3>1, <3>2, Reachable
  <2> QED BY <2>2
<1>3. TypeInv' /\ ConnInv' /\ EvInv' /\ OutInv' /\ NoStrayBytes'
  BY <1>1 DEF IInv, TypeInv, ConnInv, EvInv, OutInv, NoStrayBytes, conns, truth
<1>4. ClientInv'
  BY <1>1 DEF IInv, ClientInv, Fits, EndCount, conns, truth
<1>5. FreedInTime'
  BY <1>1, <1>2 DEF FreedInTime, truth
<1> QED BY <1>3, <1>4, <1>5 DEF IInv

-----------------------------------------------------------------------------
(* The theorem                                                             *)

LEMMA InitHolds == Init => IInv
<1> SUFFICES ASSUME Init PROVE IInv
  OBVIOUS
<1> USE ServerAssumption
<1>1. PICK s \in Scripts : net = [c \in Clients |-> [reqs |-> <<>>, closed |-> FALSE, script |-> s[c]]]
  BY DEF Init
<1>2. \A c \in Clients : s[c] \in Seq([stmt : Kinds, half : BOOLEAN])
  OBVIOUS
<1>3. <<>> \in Seq(Requests) /\ <<>> \in Seq(PartSet) /\ <<>> \in Seq([id : Nat, stmt : Kinds]) /\ Len(<<>>) = 0
  OBVIOUS
<1>4. net \in [Clients -> Nets]
  BY <1>1, <1>2, <1>3 DEF Nets
<1>5. WkOK(WkIdle) /\ WkIdle.c = None /\ WkIdle.pc = "idle"
  BY DEF WkOK, WkSet, WkIdle
<1>6. TypeInv
  <2>1. queue \in Seq([c : Clients, req : Requests])
    BY DEF Init
  <2> QED BY <1>3, <1>4, <1>5, <2>1 DEF Init, TypeInv
<1>7. ConnInv /\ EvInv
  BY <1>5 DEF Init, ConnInv, EvInv, EvIdle
<1>8. OutInv /\ NoStrayBytes /\ FreedInTime
  BY <1>3 DEF Init, OutInv, NoStrayBytes, FreedInTime
<1>9. ClientInv
  <2> SUFFICES ASSUME NEW c \in Clients PROVE Fits(c)
    BY DEF ClientInv
  <2>1. /\ comm[c] = "none" /\ out[c] = <<>> /\ net[c].reqs = <<>> /\ got[c] = <<>> /\ sent[c] = <<>> /\ queue = <<>>
        /\ \A w \in Workers : wk[w] = WkIdle
    BY <1>1 DEF Init
  <2>2. EndCount(c) = 0 /\ Len(sent[c]) = 0
    <3>1. Ends(got[c], c) = {}
      BY <1>3, <2>1 DEF Ends
    <3> QED BY <1>3, <2>1, <3>1, FS_EmptySet DEF EndCount
  <2>3. \A w \in Workers : wk[w].c # c /\ ~Serves(wk[w], c)
    BY <1>5, <2>1 DEF Serves
  <2>4. ~InQueue(queue, c) /\ Once(queue, c)
    BY <1>3, <2>1 DEF InQueue, Once
  <2>5. OneRequest(c, net[c], queue, wk) /\ ~Busy(c, net[c], queue, wk)
    BY <1>3, <2>1, <2>3, <2>4 DEF OneRequest, Busy
  <2>6. Undisturbed(c, out[c], wk)
    BY <2>1, <2>3, NoEnd DEF Undisturbed
  <2> QED BY <2>1, <2>2, <2>5, <2>6 DEF Fits, ClientOK
<1> QED BY <1>6, <1>7, <1>8, <1>9 DEF IInv

LEMMA StutterKeeps == IInv /\ UNCHANGED vars => IInv'
<1> SUFFICES ASSUME IInv, UNCHANGED vars PROVE IInv'
  OBVIOUS
<1>1. TypeInv' /\ ConnInv' /\ EvInv' /\ OutInv' /\ NoStrayBytes' /\ FreedInTime'
  BY DEF IInv, TypeInv, ConnInv, EvInv, OutInv, NoStrayBytes, FreedInTime, vars, conns, truth
<1>2. ClientInv'
  BY DEF IInv, ClientInv, Fits, EndCount, vars, conns, truth
<1> QED BY <1>1, <1>2 DEF IInv

LEMMA StepKeeps == IInv /\ [Next]_vars => IInv'
<1> SUFFICES ASSUME IInv, [Next]_vars PROVE IInv'
  OBVIOUS
<1>1. CASE EventThread
  <2>1. ASSUME NEW c \in Clients, Accept(c) \/ Recv(c) \/ ReadLogin(c) \/ ReadVersion(c) \/ ReadQuery(c)
        PROVE  IInv'
    BY <2>1, AcceptKeeps, RecvKeeps, ReadLoginKeeps, ReadVersionKeeps, ReadQueryKeeps
  <2> QED BY <1>1, <2>1, ReadClosedKeeps, EvCloseKeeps, EvFreeKeeps DEF EventThread
<1>2. ASSUME NEW w \in Workers, WorkerStep(w)
      PROVE  IInv'
  <2>1. CASE TakeEvent(w) \/ HandleSql(w) \/ AnswerState(w) \/ OpenResult(w)
    BY <2>1, TakeEventKeeps, HandleSqlKeeps, AnswerStateKeeps, OpenResultKeeps
  <2>2. CASE SendRowsPlain(w) \/ SendRowsMysql(w) \/ WriteDebug(w) \/ FlushResult(w)
    BY <2>2, SendRowsPlainKeeps, SendRowsMysqlKeeps, WriteDebugKeeps, FlushResultKeeps
  <2>3. CASE WkClose(w) \/ WkFree(w) \/ Finish(w) \/ Touch(w)
    BY <2>3, WkCloseKeeps, WkFreeKeeps, FinishKeeps, TouchKeeps
  <2> QED BY <1>2, <2>1, <2>2, <2>3 DEF WorkerStep
<1>3. ASSUME NEW c \in Clients, ClientStep(c)
      PROVE  IInv'
  BY <1>3, SendKeeps, SendRestKeeps, CloseKeeps DEF ClientStep
<1> QED BY <1>1, <1>2, <1>3, StutterKeeps DEF Next

LEMMA InvSafe == IInv => NoUseAfterFree
<1> SUFFICES ASSUME IInv PROVE NoUseAfterFree
  OBVIOUS
<1>1. TypeOK
  BY DEF IInv, TypeInv, ConnInv, WkOK, TypeOK
<1> QED BY <1>1 DEF IInv, NoUseAfterFree

\* A connection is not deleted under the worker that serves it, nor twice, and no byte
\* of it goes to a stranger, as long as clients wait for their answers (NoUseAfterFree:
\* close_connection, ~Communicator, handle_event, BufferedWriter::flush).
THEOREM ConnectionsCorrect == Spec => []NoUseAfterFree
<1>1. Init => IInv
  BY InitHolds
<1>2. IInv /\ [Next]_vars => IInv'
  BY StepKeeps
<1>3. IInv => NoUseAfterFree
  BY InvSafe
<1> QED BY <1>1, <1>2, <1>3, PTL DEF Spec

-----------------------------------------------------------------------------
(* Answers and commits: what a client that waits is told, and what becomes *)
(* of what it changes                                                      *)

\* The requests of a client that no worker has run, and the workers that have run one
\* and have not flushed its answer.
PendingOf(c, n, q, k) ==
  SeqRange(n.reqs)
    \cup {q[i].req : i \in {j \in 1 .. Len(q) : q[j].c = c}}
    \cup {k[w].req : w \in {v \in Workers : k[v].c = c /\ k[v].pc = "sql"}}
RunningOf(c, k) == {k[w] : w \in {v \in Workers : k[v].c = c /\ k[v].pc \in Served \ {"sql"}}}

\* Of the requests s that were sent, the first Done have been run, and of the first Told
\* an answer may be out.
Done(s, P) == IF P = {} THEN Len(s) ELSE Len(s) - 1
Told(s, P, H) == IF P = {} /\ H = {} THEN Len(s) ELSE Len(s) - 1

OpenedIn(s, id) == \E i \in 1 .. id : /\ s[i].stmt = "begin"
                                      /\ \A j \in i + 1 .. id : s[j].stmt \notin {"commit", "rollback"}
AskedIn(s, id) == \E i \in id .. Len(s) : /\ s[i].stmt = "commit"
                                          /\ \A j \in id .. i : s[j].stmt # "rollback"

\* The request in hand is the last one sent; what its worker knows of it.
Current(s, r) == Len(s) > 0 /\ r.id = Len(s) /\ r.stmt = s[Len(s)].stmt
Phase(c, k, v, F) ==
  /\ k.pc = "open" => /\ k.rc = (k.req.stmt # "syntax") /\ k.op = (k.req.stmt \in {"select", "change"})
                      /\ <<c, k.req.id>> \in F <=> k.req.stmt \in {"syntax", "noplan"}
  /\ k.pc = "rows" => /\ k.req.stmt \in {"select", "change"} /\ <<c, k.req.id>> \notin F
                      /\ k.req.stmt = "change" => k.req.id \in v.work
HandsRight(c, s, v, P, H, F) ==
  /\ \A r \in P : Current(s, r)
  /\ \A k \in H : Current(s, k.req) /\ Phase(c, k, v, F)

\* Statements fail, change something and are committed when they are run, not before.
PastRight(c, s, v, P, F, C) ==
  \A id \in Nat : <<c, id>> \in F \/ <<c, id>> \in C \/ id \in v.work => id \in 1 .. Done(s, P)

\* The session is in the transaction that the statements have opened.
TrxRight(c, s, v, x, P, C) ==
  /\ ~x => (v.multi <=> OpenedIn(s, Done(s, P)))
  /\ \A id \in v.work : /\ OpenedIn(s, id) => v.multi
                        /\ \A j \in id .. Done(s, P) : s[j].stmt # "rollback"
  /\ \A id \in Nat : <<c, id>> \in C /\ OpenedIn(s, id) => AskedIn(s, id)

\* What a part says of its request is true; a change is committed when it is answered.
Truthful(c, p, s, F, C) ==
  /\ p.what = "fail" => <<c, p.id>> \in F
  /\ p.what \in {"ok", "end", "eof"} /\ <<c, p.id>> \in F =>
       s[p.id].stmt = "noplan" \/ (c \in Mysql /\ s[p.id].stmt # "syntax")
  /\ p.what = "ok" /\ s[p.id].stmt = "change" /\ ~OpenedIn(s, p.id) => <<c, p.id>> \in C
InOrder(c, g) ==
  \A i, j \in 1 .. Len(g) : i < j /\ g[i].c = c /\ g[j].c = c =>
    /\ g[i].id <= g[j].id
    /\ g[i].what \in Terminators /\ g[j].what # "debug" => g[i].id < g[j].id
ToldRight(c, s, g, P, H, F, C) ==
  /\ \A i \in 1 .. Len(g) : g[i].c = c => g[i].id \in 1 .. Told(s, P, H) /\ Truthful(c, g[i], s, F, C)
  /\ InOrder(c, g)
OutRight(c, s, o, F, C) ==
  /\ \A i \in 1 .. Len(o) : Len(s) > 0 /\ o[i].id = Len(s) /\ Truthful(c, o[i], s, F, C)
  /\ \A i, j \in 1 .. Len(o) : i < j /\ o[i].what \in Terminators => o[j].what = "debug"

\* A MySQL client begins with its login, which the event thread answers.
LoginRight(c, s, a, n) ==
  /\ \A i \in 1 .. Len(n.script) : n.script[i].stmt = "login" <=> c \in Mysql /\ i = 1
  /\ c \in Mysql /\ ~a => Len(s) = 0 \/ (Len(s) = 1 /\ s[1].stmt = "login" /\ n.reqs # <<>>)

Sessions == [multi : BOOLEAN, debug : BOOLEAN, active : BOOLEAN, work : SUBSET Nat]
Right(c, s, g, o, v, a, n, P, H, F, C) ==
  /\ v \in Sessions
  /\ HandsRight(c, s, v, P, H, F) /\ PastRight(c, s, v, P, F, C) /\ TrxRight(c, s, v, n.closed, P, C)
  /\ ToldRight(c, s, g, P, H, F, C) /\ OutRight(c, s, o, F, C) /\ LoginRight(c, s, a, n)

Pending(c) == PendingOf(c, net[c], queue, wk)
Running(c) == RunningOf(c, wk)
AnswerInv ==
  \A c \in Clients \ hasty :
    Right(c, sent[c], got[c], out[c], session[c], authed[c], net[c], Pending(c), Running(c), failed, committed)

-----------------------------------------------------------------------------
(* Where the requests of a client are, after a step that is about another one *)

\* The requests of d, and of nobody else, matter to d.
SameQueue(q, r, d) == {q[i].req : i \in {j \in 1 .. Len(q) : q[j].c = d}} = {r[i].req : i \in {j \in 1 .. Len(r) : r[j].c = d}}

SameServed(k, l, d) == \A w \in Workers : k[w] = l[w] \/ (~Serves(k[w], d) /\ ~Serves(l[w], d))

LEMMA Placed ==
  \A n, m, q, r, k, l, d :
    SeqRange(n.reqs) = SeqRange(m.reqs) /\ SameQueue(q, r, d) /\ SameServed(k, l, d)
    => PendingOf(d, n, q, k) = PendingOf(d, m, r, l) /\ RunningOf(d, k) = RunningOf(d, l)
<1> SUFFICES ASSUME NEW n, NEW m, NEW q, NEW r, NEW k, NEW l, NEW d,
                    SeqRange(n.reqs) = SeqRange(m.reqs), SameQueue(q, r, d), SameServed(k, l, d)
             PROVE  PendingOf(d, n, q, k) = PendingOf(d, m, r, l) /\ RunningOf(d, k) = RunningOf(d, l)
  OBVIOUS
<1>1. \A w \in Workers : (k[w].c = d /\ k[w].pc \in Served <=> l[w].c = d /\ l[w].pc \in Served)
                         /\ (k[w].c = d /\ k[w].pc \in Served => k[w] = l[w])
  BY DEF SameServed, Serves
<1>2. \A w \in Workers : (k[w].c = d /\ k[w].pc = "sql" <=> l[w].c = d /\ l[w].pc = "sql")
  BY <1>1 DEF Served
<1>3. {k[w].req : w \in {v \in Workers : k[v].c = d /\ k[v].pc = "sql"}}
        = {l[w].req : w \in {v \in Workers : l[v].c = d /\ l[v].pc = "sql"}}
  BY <1>1, <1>2 DEF Served
<1>4. RunningOf(d, k) = RunningOf(d, l)
  BY <1>1 DEF RunningOf
<1> QED BY <1>3, <1>4 DEF PendingOf, SameQueue

LEMMA QueuedElsewhere ==
  \A q, x, d : q \in Seq(Events) /\ x \in Events =>
    /\ d # x.c => SameQueue(q, Append(q, x), d)
    /\ q # <<>> /\ d # Head(q).c => SameQueue(q, Tail(q), d)
<1> SUFFICES ASSUME NEW q, NEW x, NEW d, q \in Seq(Events), x \in Events
             PROVE  /\ d # x.c => SameQueue(q, Append(q, x), d)
                    /\ q # <<>> /\ d # Head(q).c => SameQueue(q, Tail(q), d)
  OBVIOUS
<1>1. ASSUME d # x.c PROVE SameQueue(q, Append(q, x), d)
  <2>1. PICK r : r = Append(q, x)
    OBVIOUS
  <2>2. Len(q) \in Nat /\ Len(r) = Len(q) + 1 /\ r[Len(q) + 1] = x /\ \A i \in 1 .. Len(q) : r[i] = q[i]
    BY <2>1
  <2>3. {j \in 1 .. Len(q) : q[j].c = d} = {j \in 1 .. Len(r) : r[j].c = d}
    BY <1>1, <2>2
  <2> QED BY <2>1, <2>2, <2>3 DEF SameQueue
<1>2. ASSUME q # <<>>, d # Head(q).c PROVE SameQueue(q, Tail(q), d)
  <2>1. PICK r : r = Tail(q)
    OBVIOUS
  <2>2. Len(q) \in Nat \ {0} /\ Len(r) = Len(q) - 1 /\ Head(q) = q[1] /\ \A i \in 1 .. Len(r) : r[i] = q[i + 1]
    BY <1>2, <2>1
  <2>3. ASSUME NEW i \in 1 .. Len(q), q[i].c = d
        PROVE  i - 1 \in 1 .. Len(r) /\ r[i - 1] = q[i]
    BY <1>2, <2>2, <2>3
  <2>4. ASSUME NEW i \in 1 .. Len(r), r[i].c = d
        PROVE  i + 1 \in 1 .. Len(q) /\ r[i] = q[i + 1]
    BY <2>2
  <2>5. {q[i].req : i \in {j \in 1 .. Len(q) : q[j].c = d}} \subseteq {r[i].req : i \in {j \in 1 .. Len(r) : r[j].c = d}}
    <3> SUFFICES ASSUME NEW i \in 1 .. Len(q), q[i].c = d
                 PROVE  \E j \in 1 .. Len(r) : r[j].c = d /\ q[i].req = r[j].req
      OBVIOUS
    <3> QED BY <2>3
  <2>6. {r[i].req : i \in {j \in 1 .. Len(r) : r[j].c = d}} \subseteq {q[i].req : i \in {j \in 1 .. Len(q) : q[j].c = d}}
    <3> SUFFICES ASSUME NEW i \in 1 .. Len(r), r[i].c = d
                 PROVE  \E j \in 1 .. Len(q) : q[j].c = d /\ r[i].req = q[j].req
      OBVIOUS
    <3> QED BY <2>4
  <2> QED BY <2>1, <2>5, <2>6, ZenonT(30) DEF SameQueue
<1> QED BY <1>1, <1>2

\* The one request that a client has open while a worker is at it.
OpenAt(c, n, q, k, w) ==
  /\ k[w].pc = "sql" => PendingOf(c, n, q, k) = {k[w].req} /\ RunningOf(c, k) = {}
  /\ k[w].pc # "sql" => PendingOf(c, n, q, k) = {} /\ RunningOf(c, k) = {k[w]}

LEMMA Served1 ==
  \A c, cm, o, n, e, l, q, k, w :
    ClientOK(c, cm, o, n, e, l, q, k) /\ w \in Workers /\ Serves(k[w], c) => OpenAt(c, n, q, k, w)
<1> SUFFICES ASSUME NEW c, NEW cm, NEW o, NEW n, NEW e, NEW l, NEW q, NEW k, NEW w \in Workers,
                    ClientOK(c, cm, o, n, e, l, q, k), Serves(k[w], c)
             PROVE  OpenAt(c, n, q, k, w)
  OBVIOUS
<1>1. n.reqs = <<>> /\ ~InQueue(q, c) /\ \A v \in Workers : Serves(k[v], c) => v = w
  BY DEF ClientOK, OneRequest
<1>2. SeqRange(n.reqs) = {} /\ {q[i].req : i \in {j \in 1 .. Len(q) : q[j].c = c}} = {}
  BY <1>1 DEF InQueue, SeqRange
<1>3. \A v \in Workers : k[v].c = c /\ k[v].pc \in Served => v = w
  BY <1>1 DEF Serves
<1>4. CASE k[w].pc = "sql"
  <2>1. {v \in Workers : k[v].c = c /\ k[v].pc = "sql"} = {w} /\ {v \in Workers : k[v].c = c /\ k[v].pc \in Served \ {"sql"}} = {}
    BY <1>3, <1>4 DEF Serves, Served
  <2> QED BY <1>2, <1>4, <2>1 DEF PendingOf, RunningOf, OpenAt
<1>5. CASE k[w].pc # "sql"
  <2>1. {v \in Workers : k[v].c = c /\ k[v].pc = "sql"} = {} /\ {v \in Workers : k[v].c = c /\ k[v].pc \in Served \ {"sql"}} = {w}
    BY <1>3, <1>5 DEF Serves, Served
  <2> QED BY <1>2, <1>5, <2>1 DEF PendingOf, RunningOf, OpenAt
<1> QED BY <1>4, <1>5

\* The one request that a client has open while it is on its way.
LEMMA OnItsWay ==
  \A c, cm, o, n, e, l, q, k :
    ClientOK(c, cm, o, n, e, l, q, k) /\ n.reqs # <<>> /\ n.reqs \in Seq(Requests) =>
      PendingOf(c, n, q, k) = {n.reqs[1]} /\ RunningOf(c, k) = {}
<1> SUFFICES ASSUME NEW c, NEW cm, NEW o, NEW n, NEW e, NEW l, NEW q, NEW k,
                    ClientOK(c, cm, o, n, e, l, q, k), n.reqs # <<>>, n.reqs \in Seq(Requests)
             PROVE  PendingOf(c, n, q, k) = {n.reqs[1]} /\ RunningOf(c, k) = {}
  OBVIOUS
<1>1. Len(n.reqs) <= 1 /\ ~InQueue(q, c) /\ \A w \in Workers : ~Serves(k[w], c)
  BY DEF ClientOK, OneRequest
<1>2. Len(n.reqs) = 1
  <2>1. PICK x : x = n.reqs
    OBVIOUS
  <2>2. Len(x) \in Nat /\ Len(x) # 0 /\ Len(x) <= 1
    BY <1>1, <2>1, Empty
  <2>3. \A y \in Nat : y # 0 /\ y <= 1 => y = 1
    OBVIOUS
  <2> QED BY <2>1, <2>2, <2>3
<1>3. SeqRange(n.reqs) = {n.reqs[1]}
  BY <1>2 DEF SeqRange
<1>4. {q[i].req : i \in {j \in 1 .. Len(q) : q[j].c = c}} = {}
  BY <1>1 DEF InQueue
<1>5. {v \in Workers : k[v].c = c /\ k[v].pc = "sql"} = {} /\ {v \in Workers : k[v].c = c /\ k[v].pc \in Served \ {"sql"}} = {}
  BY <1>1 DEF Serves, Served
<1> QED BY <1>3, <1>4, <1>5 DEF PendingOf, RunningOf

LEMMA NoneOpen ==
  \A c, n, q, k : ~Busy(c, n, q, k) => PendingOf(c, n, q, k) = {} /\ RunningOf(c, k) = {}
<1> SUFFICES ASSUME NEW c, NEW n, NEW q, NEW k, ~Busy(c, n, q, k)
             PROVE  PendingOf(c, n, q, k) = {} /\ RunningOf(c, k) = {}
  OBVIOUS
<1>1. n.reqs = <<>> /\ ~InQueue(q, c) /\ \A w \in Workers : ~Serves(k[w], c)
  BY DEF Busy
<1>3. SeqRange(n.reqs) = {}
  BY <1>1 DEF SeqRange
<1>4. {q[i].req : i \in {j \in 1 .. Len(q) : q[j].c = c}} = {}
  BY <1>1 DEF InQueue
<1>5. {v \in Workers : k[v].c = c /\ k[v].pc = "sql"} = {} /\ {v \in Workers : k[v].c = c /\ k[v].pc \in Served \ {"sql"}} = {}
  BY <1>1 DEF Serves, Served
<1> QED BY <1>3, <1>4, <1>5 DEF PendingOf, RunningOf

-----------------------------------------------------------------------------
(* What is said of a client holds on as long as it is not touched          *)

\* Nothing is said of c but what is in the sets with its name.
SameOf(c, F, G) == \A id \in Nat : <<c, id>> \in F <=> <<c, id>> \in G

\* h is what c has received, g, and perhaps bytes of a connection that broke off.
Strayed(c, g, h) == h = g \/ \E p \in Seq(PartSet) : h = g \o p /\ \A i \in 1 .. Len(p) : p[i].c # c

SentSet == Seq([id : Nat, stmt : Kinds])

LEMMA StrayedParts ==
  \A c, g, h : g \in Seq(PartSet) /\ Strayed(c, g, h) =>
    \A i \in 1 .. Len(h) : h[i].c = c => i \in 1 .. Len(g) /\ h[i] = g[i]
<1> SUFFICES ASSUME NEW c, NEW g, NEW h, g \in Seq(PartSet), Strayed(c, g, h)
             PROVE  \A i \in 1 .. Len(h) : h[i].c = c => i \in 1 .. Len(g) /\ h[i] = g[i]
  OBVIOUS
<1>1. CASE h = g
  BY <1>1
<1>2. ASSUME NEW p \in Seq(PartSet), h = g \o p, \A i \in 1 .. Len(p) : p[i].c # c
      PROVE  \A i \in 1 .. Len(h) : h[i].c = c => i \in 1 .. Len(g) /\ h[i] = g[i]
  BY <1>2, Concat
<1> QED BY <1>1, <1>2 DEF Strayed

LEMMA TruthfulKept ==
  \A c, p, s, F, G, C, D :
    /\ p.id \in Nat /\ Truthful(c, p, s, F, C)
    /\ (<<c, p.id>> \in F <=> <<c, p.id>> \in G) /\ (<<c, p.id>> \in C => <<c, p.id>> \in D)
    => Truthful(c, p, s, G, D)
  BY DEF Truthful

LEMMA RightKept ==
  \A c, s, g, h, o, v, a, n, P, H, F, G, C, D :
    /\ Right(c, s, g, o, v, a, n, P, H, F, C) /\ s \in SentSet /\ g \in Seq(PartSet) /\ o \in Seq(PartSet)
    /\ Strayed(c, g, h) /\ SameOf(c, F, G) /\ SameOf(c, C, D)
    => Right(c, s, h, o, v, a, n, P, H, G, D)
<1> SUFFICES ASSUME NEW c, NEW s, NEW g, NEW h, NEW o, NEW v, NEW a, NEW n, NEW P, NEW H, NEW F, NEW G, NEW C, NEW D,
                    Right(c, s, g, o, v, a, n, P, H, F, C), s \in SentSet, g \in Seq(PartSet), o \in Seq(PartSet),
                    Strayed(c, g, h), SameOf(c, F, G), SameOf(c, C, D)
             PROVE  Right(c, s, h, o, v, a, n, P, H, G, D)
  OBVIOUS
<1>1. /\ v \in Sessions
      /\ HandsRight(c, s, v, P, H, F) /\ PastRight(c, s, v, P, F, C) /\ TrxRight(c, s, v, n.closed, P, C)
      /\ ToldRight(c, s, g, P, H, F, C) /\ OutRight(c, s, o, F, C) /\ LoginRight(c, s, a, n)
  BY DEF Right
<1>2. Len(s) \in Nat
  BY DEF SentSet
<1>3. HandsRight(c, s, v, P, H, G)
  <2> SUFFICES ASSUME NEW k \in H PROVE Current(s, k.req) /\ Phase(c, k, v, G)
    BY <1>1 DEF HandsRight
  <2>1. Current(s, k.req) /\ Phase(c, k, v, F) /\ k.req.id \in Nat
    BY <1>1, <1>2 DEF HandsRight, Current
  <2>2. <<c, k.req.id>> \in F <=> <<c, k.req.id>> \in G
    BY <2>1 DEF SameOf
  <2> QED BY <2>1, <2>2 DEF Phase
<1>4. PastRight(c, s, v, P, G, D)
  BY <1>1 DEF PastRight, SameOf
<1>5. TrxRight(c, s, v, n.closed, P, D)
  BY <1>1 DEF TrxRight, SameOf
<1>6. ToldRight(c, s, h, P, H, G, D)
  <2>1. \A i \in 1 .. Len(h) : h[i].c = c => i \in 1 .. Len(g) /\ h[i] = g[i]
    BY StrayedParts
  <2>2. InOrder(c, h)
    <3> SUFFICES ASSUME NEW i \in 1 .. Len(h), NEW j \in 1 .. Len(h), i < j, h[i].c = c, h[j].c = c
                 PROVE  /\ h[i].id <= h[j].id
                        /\ h[i].what \in Terminators /\ h[j].what # "debug" => h[i].id < h[j].id
      BY DEF InOrder
    <3>1. i \in 1 .. Len(g) /\ h[i] = g[i] /\ j \in 1 .. Len(g) /\ h[j] = g[j]
      BY <2>1
    <3>2. InOrder(c, g)
      BY <1>1 DEF ToldRight
    <3> QED BY <3>1, <3>2 DEF InOrder
  <2>3. ASSUME NEW i \in 1 .. Len(h), h[i].c = c
        PROVE  h[i].id \in 1 .. Told(s, P, H) /\ Truthful(c, h[i], s, G, D)
    <3>1. i \in 1 .. Len(g) /\ h[i] = g[i]
      BY <2>1, <2>3
    <3>2. g[i].id \in 1 .. Told(s, P, H) /\ Truthful(c, g[i], s, F, C)
      BY <1>1, <2>3, <3>1 DEF ToldRight
    <3>3. g[i].id \in Nat
      BY <3>2
    <3> QED BY <3>1, <3>2, <3>3, TruthfulKept DEF SameOf
  <2> QED BY <2>2, <2>3 DEF ToldRight
<1>7. OutRight(c, s, o, G, D)
  <2> SUFFICES ASSUME NEW i \in 1 .. Len(o) PROVE Truthful(c, o[i], s, G, D)
    BY <1>1 DEF OutRight
  <2>1. Truthful(c, o[i], s, F, C) /\ o[i].id \in Nat
    BY <1>1, <1>2 DEF OutRight
  <2> QED BY <2>1, TruthfulKept DEF SameOf
<1> QED BY <1>1, <1>3, <1>4, <1>5, <1>6, <1>7 DEF Right

\* What a step has to leave of a client.
Untouched(d) ==
  /\ sent'[d] = sent[d] /\ out'[d] = out[d] /\ session'[d] = session[d] /\ authed'[d] = authed[d] /\ net'[d] = net[d]
  /\ Strayed(d, got[d], got'[d]) /\ SameOf(d, failed, failed') /\ SameOf(d, committed, committed')
  /\ SameQueue(queue, queue', d) /\ SameServed(wk, wk', d)

RightNow(c) ==
  Right(c, sent[c], got[c], out[c], session[c], authed[c], net[c], Pending(c), Running(c), failed, committed)

\* A step of client c.
LEMMA AnswerStepOf ==
  ASSUME IInv, AnswerInv, NEW c, hasty \subseteq hasty',
         \A d \in Clients : d # c => Untouched(d),
         c \in Clients \ hasty' => RightNow(c)'
  PROVE  AnswerInv'
<1> SUFFICES ASSUME NEW d \in Clients \ hasty' PROVE RightNow(d)'
  BY DEF AnswerInv, RightNow
<1>1. CASE d = c
  BY <1>1
<1>2. CASE d # c
  <2>1. Untouched(d) /\ RightNow(d)
    BY <1>2 DEF AnswerInv, RightNow
  <2>2. sent[d] \in SentSet /\ got[d] \in Seq(PartSet) /\ out[d] \in Seq(PartSet)
    BY DEF IInv, TypeInv, SentSet
  <2>3. SeqRange(net[d].reqs) = SeqRange(net'[d].reqs)
    BY <2>1 DEF Untouched
  <2>4. Pending(d)' = Pending(d) /\ Running(d)' = Running(d)
    BY <2>1, <2>3, Placed DEF Untouched, Pending, Running
  <2>5. Right(d, sent[d], got'[d], out[d], session[d], authed[d], net[d], Pending(d), Running(d), failed', committed')
    BY <2>1, <2>2, RightKept DEF RightNow, Untouched
  <2> QED BY <2>1, <2>4, <2>5 DEF RightNow, Untouched
<1> QED BY <1>1, <1>2

LEMMA SameAll ==
  \A c, F, q, k, g : SameOf(c, F, F) /\ SameQueue(q, q, c) /\ SameServed(k, k, c) /\ Strayed(c, g, g)
  BY DEF SameOf, SameQueue, SameServed, Strayed

\* A step that no client sees.
LEMMA QuietStep ==
  ASSUME IInv, AnswerInv, UNCHANGED <<session, authed, out, net, queue, got, sent, committed, failed, hasty>>,
         \A d \in Clients : SameServed(wk, wk', d)
  PROVE  AnswerInv'
<1>1. \A d \in Clients : Untouched(d)
  BY SameAll DEF Untouched
<1>2. CASE Clients = {}
  BY <1>2 DEF AnswerInv
<1>3. ASSUME NEW c \in Clients PROVE AnswerInv'
  <2> SUFFICES ASSUME NEW d \in Clients \ hasty' PROVE RightNow(d)'
    BY DEF AnswerInv, RightNow
  <2>1. Pending(d)' = Pending(d) /\ Running(d)' = Running(d)
    BY <1>1, Placed DEF Untouched, Pending, Running
  <2> QED BY <2>1 DEF AnswerInv, RightNow
<1> QED BY <1>2, <1>3

LEMMA QuietKeeps ==
  ASSUME IInv, AnswerInv,
         \/ \E c \in Clients : Accept(c) \/ Recv(c)
         \/ ReadClosed \/ EvClose \/ (\E w \in Workers : Touch(w))
  PROVE  AnswerInv'
<1>1. UNCHANGED <<session, authed, out, net, queue, wk, got, sent, committed, failed, hasty>>
  BY DEF Accept, Recv, ReadClosed, EvClose, CloseFd, Touch, conns, truth
<1>2. \A d \in Clients : SameServed(wk, wk', d)
  BY <1>1, SameAll
<1> QED BY <1>1, <1>2, QuietStep

LEMMA ChangeUnserved ==
  ASSUME IInv, NEW w \in Workers, NEW r, wk[w].pc \notin Served, r.pc \notin Served, wk' = [wk EXCEPT ![w] = r]
  PROVE  \A d \in Clients : SameServed(wk, wk', d)
<1>1. wk' = [v \in Workers |-> IF v = w THEN r ELSE wk[v]]
  BY DEF IInv, TypeInv
<1> QED BY <1>1 DEF SameServed, Serves

LEMMA LeaveKeeps ==
  ASSUME IInv, AnswerInv, NEW w \in Workers, WkClose(w) \/ Finish(w)
  PROVE  AnswerInv'
<1>1. UNCHANGED <<session, authed, out, net, queue, got, sent, committed, failed, hasty>>
  BY DEF WkClose, Finish, CloseFd, conns, truth
<1>2. PICK r : wk' = [wk EXCEPT ![w] = r] /\ r.pc \in {"free", "idle"} /\ wk[w].pc \in {"close", "finish"}
  <2>1. CASE WkClose(w)
    <3>1. [wk[w] EXCEPT !.pc = "free"].pc = "free"
      BY Worker, <2>1 DEF WkClose, WkSet
    <3>2. wk' = [wk EXCEPT ![w] = [wk[w] EXCEPT !.pc = "free"]] /\ wk[w].pc = "close"
      BY <2>1 DEF WkClose, SetW, IInv, TypeInv
    <3> QED BY <3>1, <3>2
  <2>2. CASE Finish(w)
    BY <2>2 DEF Finish, SetW, WkIdle
  <2> QED BY <2>1, <2>2
<1>3. wk[w].pc \notin Served /\ r.pc \notin Served
  BY <1>2 DEF Served
<1>4. \A d \in Clients : SameServed(wk, wk', d)
  BY <1>2, <1>3, ChangeUnserved
<1> QED BY <1>1, <1>4, QuietStep

\* The client has closed, has sent the rest, or its request was taken from the network.
LEMMA RightMoved ==
  \A c, s, g, o, v, a, n, m, P, H, F, C :
    /\ Right(c, s, g, o, v, a, n, P, H, F, C) /\ m.script = n.script /\ (n.closed => m.closed)
    /\ c \in Mysql /\ ~a /\ n.reqs # <<>> => m.reqs # <<>>
    => Right(c, s, g, o, v, a, m, P, H, F, C)
  BY DEF Right, LoginRight, TrxRight

LEMMA SendRestRight ==
  ASSUME IInv, AnswerInv, NEW c \in Clients, SendRest(c)
  PROVE  AnswerInv'
<1>1. PICK q : q = [i \in 1 .. Len(net[c].reqs) |-> [net[c].reqs[i] EXCEPT !.half = FALSE]]
  OBVIOUS
<1>2. PICK n : n = [net[c] EXCEPT !.reqs = q]
  OBVIOUS
<1>3. net' = [net EXCEPT ![c] = n] /\ UNCHANGED <<conns, ev, queue, wk, truth, corrupt>>
  BY <1>1, <1>2 DEF SendRest, IInv, TypeInv
<1>4. q \in Seq(Requests) /\ Len(q) = Len(net[c].reqs)
  BY <1>1, Counts, NotHalf
<1>5. n.reqs = q /\ n.closed = net[c].closed /\ n.script = net[c].script
  BY <1>2, <1>4, Counts DEF Nets
<1>6. net'[c] = n /\ \A d \in Clients : d # c => net'[d] = net[d]
  BY <1>3 DEF IInv, TypeInv
<1>7. \A d \in Clients : d # c => Untouched(d)
  BY <1>3, <1>6, SameAll DEF Untouched, conns, truth
<1>8. ASSUME c \notin hasty' PROVE RightNow(c)'
  <2>1. RightNow(c) /\ c \notin hasty
    BY <1>3, <1>8 DEF AnswerInv, RightNow, truth
  <2>2. net[c].reqs # <<>> => n.reqs # <<>>
    BY <1>4, <1>5, Counts, Empty
  <2>3. Running(c)' = Running(c)
    BY <1>3 DEF Running
  <2>4. PICK P : P = Pending(c)'
    OBVIOUS
  <2>5. Right(c, sent[c], got[c], out[c], session[c], authed[c], n, Pending(c), Running(c), failed, committed)
    BY <1>5, <2>1, <2>2, RightMoved DEF RightNow
  <2>6. net[c].reqs # <<>>
    BY Counts, Empty DEF SendRest
  <2>7. ClientOK(c, comm[c], out[c], net[c], EndCount(c), Len(sent[c]), queue, wk)
    BY <2>1 DEF IInv, ClientInv, Fits
  <2>8. n.reqs # <<>> /\ Len(n.reqs) = Len(net[c].reqs)
    BY <1>5, <1>4, <2>2, <2>6
  <2>9. Pending(c) = {net[c].reqs[1]}
    BY <2>6, <2>7, Counts, OnItsWay DEF Pending
  <2>10. Pending(c)' = {n.reqs[1]} /\ n.reqs[1].id = net[c].reqs[1].id /\ n.reqs[1].stmt = net[c].reqs[1].stmt
    <3>1. ClientOK(c, comm[c], out[c], n, EndCount(c), Len(sent[c]), queue, wk)
      <4>1. OneRequest(c, n, queue, wk)
        BY <2>6, <2>7, <2>8 DEF ClientOK, OneRequest
      <4>2. Busy(c, net[c], queue, wk)
        BY <2>6 DEF Busy
      <4> QED BY <1>5, <2>7, <4>1, <4>2 DEF ClientOK
    <3>2. PendingOf(c, n, queue, wk) = {n.reqs[1]}
      BY <1>4, <1>5, <2>8, <3>1, OnItsWay
    <3>3. Pending(c)' = {n.reqs[1]}
      BY <1>3, <1>6, <3>2 DEF Pending
    <3>4. 1 \in 1 .. Len(net[c].reqs)
      BY <2>6, Counts
    <3>5. net[c].reqs[1] \in Requests
      BY <3>4, Counts, ElementOfSeq
    <3>6. n.reqs[1] = [net[c].reqs[1] EXCEPT !.half = FALSE]
      BY <1>1, <1>5, <3>4
    <3> QED BY <3>3, <3>5, <3>6 DEF Requests
  <2>11. Right(c, sent[c], got[c], out[c], session[c], authed[c], n, Pending(c)', Running(c), failed, committed)
    <3>1. PICK x, y : x = net[c].reqs[1] /\ y = n.reqs[1]
      OBVIOUS
    <3>2. Right(c, sent[c], got[c], out[c], session[c], authed[c], n, {x}, Running(c), failed, committed)
      BY <2>5, <2>9, <3>1
    <3>3. y.id = x.id /\ y.stmt = x.stmt
      BY <2>10, <3>1
    <3>4. Right(c, sent[c], got[c], out[c], session[c], authed[c], n, {y}, Running(c), failed, committed)
      BY <3>2, <3>3 DEF Right, HandsRight, PastRight, TrxRight, ToldRight, Done, Told, Current
    <3> QED BY <2>10, <3>1, <3>4
  <2> QED BY <1>3, <1>6, <2>3, <2>11 DEF RightNow, conns, truth
<1>9. hasty \subseteq hasty'
  BY <1>3 DEF truth
<1> QED BY <1>7, <1>8, <1>9, AnswerStepOf

LEMMA CloseRight ==
  ASSUME IInv, AnswerInv, NEW c \in Clients, Close(c)
  PROVE  AnswerInv'
<1>1. PICK n : n = [net[c] EXCEPT !.closed = TRUE]
  OBVIOUS
<1>2. /\ net' = [net EXCEPT ![c] = n] /\ hasty \subseteq hasty'
      /\ UNCHANGED <<conns, ev, queue, wk, got, sent, committed, failed>>
  BY <1>1 DEF Close, IInv, TypeInv
<1>3. n.closed /\ n.reqs = net[c].reqs /\ n.script = net[c].script
  BY <1>1, Counts DEF Nets
<1>4. net'[c] = n /\ \A d \in Clients : d # c => net'[d] = net[d]
  BY <1>2 DEF IInv, TypeInv
<1>5. \A d \in Clients : d # c => Untouched(d)
  BY <1>2, <1>4, SameAll DEF Untouched, conns
<1>6. ASSUME c \notin hasty' PROVE RightNow(c)'
  <2>1. RightNow(c)
    BY <1>2, <1>6 DEF AnswerInv, RightNow
  <2>2. Right(c, sent[c], got[c], out[c], session[c], authed[c], n, Pending(c), Running(c), failed, committed)
    BY <1>3, <2>1, RightMoved DEF RightNow
  <2>3. Pending(c)' = Pending(c) /\ Running(c)' = Running(c)
    BY <1>2, <1>3, <1>4 DEF Pending, Running, PendingOf
  <2> QED BY <1>2, <1>4, <2>2, <2>3 DEF RightNow, conns
<1> QED BY <1>2, <1>5, <1>6, AnswerStepOf

-----------------------------------------------------------------------------
(* A request is sent                                                       *)

LEMMA SentIs ==
  \A s, x : s \in SentSet /\ x \in [id : Nat, stmt : Kinds] =>
    LET t == Append(s, x)
    IN  /\ t \in SentSet /\ Len(s) \in Nat /\ Len(t) = Len(s) + 1 /\ t[Len(t)] = x
        /\ \A i \in 1 .. Len(s) : t[i] = s[i]
  BY DEF SentSet

\* t is s with one more request, Len(s) is n.
Longer(s, t, n) == n \in Nat /\ Len(s) = n /\ Len(t) = n + 1 /\ \A i \in 1 .. n : t[i] = s[i]

LEMMA OpenedSame ==
  \A s, t, n, id : Longer(s, t, n) /\ id \in 0 .. n => (OpenedIn(t, id) <=> OpenedIn(s, id))
<1> SUFFICES ASSUME NEW s, NEW t, NEW n, NEW id \in 0 .. n, Longer(s, t, n)
             PROVE  OpenedIn(t, id) <=> OpenedIn(s, id)
  OBVIOUS
<1>1. n \in Nat /\ \A i \in 1 .. id : i \in 1 .. n /\ t[i] = s[i]
  BY DEF Longer
<1>2. \A i \in 1 .. id : \A j \in i + 1 .. id : j \in 1 .. id
  BY <1>1
<1> QED BY <1>1, <1>2 DEF OpenedIn

LEMMA AskedSame ==
  \A s, t, n, id : Longer(s, t, n) /\ id \in 1 .. n /\ AskedIn(s, id) => AskedIn(t, id)
<1> SUFFICES ASSUME NEW s, NEW t, NEW n, NEW id \in 1 .. n, Longer(s, t, n), AskedIn(s, id)
             PROVE  AskedIn(t, id)
  OBVIOUS
<1>1. n \in Nat /\ Len(s) = n /\ Len(t) = n + 1 /\ \A i \in 1 .. n : t[i] = s[i]
  BY DEF Longer
<1>2. PICK i \in id .. n : s[i].stmt = "commit" /\ \A j \in id .. i : s[j].stmt # "rollback"
  BY <1>1 DEF AskedIn
<1>3. i \in id .. n + 1 /\ t[i] = s[i] /\ \A j \in id .. i : t[j] = s[j]
  BY <1>1, <1>2
<1> QED BY <1>1, <1>2, <1>3 DEF AskedIn

LEMMA TruthfulSame ==
  \A c, p, s, t, n, F, C : Longer(s, t, n) /\ p.id \in 1 .. n /\ Truthful(c, p, s, F, C) => Truthful(c, p, t, F, C)
<1> SUFFICES ASSUME NEW c, NEW p, NEW s, NEW t, NEW n, NEW F, NEW C,
                    Longer(s, t, n), p.id \in 1 .. n, Truthful(c, p, s, F, C)
             PROVE  Truthful(c, p, t, F, C)
  OBVIOUS
<1>1. t[p.id] = s[p.id] /\ n \in Nat /\ p.id \in 0 .. n
  BY DEF Longer
<1>2. OpenedIn(t, p.id) <=> OpenedIn(s, p.id)
  BY <1>1, OpenedSame
<1> QED BY <1>1, <1>2 DEF Truthful

\* The request r is sent after k others, and the client's side becomes m.
Sends(s, t, n, m, k, r) ==
  /\ Longer(s, t, k) /\ r.id = k + 1 /\ r.stmt = t[k + 1].stmt
  /\ ~n.closed /\ n.reqs = <<>> /\ m.reqs # <<>> /\ ~m.closed /\ m.script = n.script
  /\ k + 1 \in 1 .. Len(n.script) /\ r.stmt = n.script[k + 1].stmt

LEMMA RightSent ==
  \A c, s, t, g, v, a, n, m, k, r, F, C :
    Right(c, s, g, <<>>, v, a, n, {}, {}, F, C) /\ Sends(s, t, n, m, k, r)
    => Right(c, t, g, <<>>, v, a, m, {r}, {}, F, C)
<1> SUFFICES ASSUME NEW c, NEW s, NEW t, NEW g, NEW v, NEW a, NEW n, NEW m, NEW k, NEW r, NEW F, NEW C,
                    Right(c, s, g, <<>>, v, a, n, {}, {}, F, C), Sends(s, t, n, m, k, r)
             PROVE  Right(c, t, g, <<>>, v, a, m, {r}, {}, F, C)
  OBVIOUS
<1> USE DEF Sends
<1>1. /\ v \in Sessions /\ PastRight(c, s, v, {}, F, C) /\ TrxRight(c, s, v, n.closed, {}, C)
      /\ ToldRight(c, s, g, {}, {}, F, C) /\ LoginRight(c, s, a, n)
  BY DEF Right
<1>2. k \in Nat /\ Len(s) = k /\ Len(t) = k + 1 /\ \A i \in 1 .. k : t[i] = s[i]
  BY DEF Longer
<1>3. Done(s, {}) = k /\ Done(t, {r}) = k /\ Told(s, {}, {}) = k /\ Told(t, {r}, {}) = k
  BY <1>2 DEF Done, Told
<1>4. HandsRight(c, t, v, {r}, {}, F)
  <2>1. PICK l : l = k + 1
    OBVIOUS
  <2>2. r.id = l /\ r.stmt = t[l].stmt
    BY <2>1
  <2>4. Len(t) = l /\ l > 0
    BY <1>2, <2>1
  <2>3. Current(t, r)
    BY <2>2, <2>4 DEF Current
  <2> QED BY <2>3 DEF HandsRight
<1>5. PastRight(c, t, v, {r}, F, C)
  BY <1>1, <1>3 DEF PastRight
<1>6. TrxRight(c, t, v, m.closed, {r}, C)
  <2>1. v.multi <=> OpenedIn(t, k)
    BY <1>1, <1>2, <1>3, OpenedSame DEF TrxRight
  <2>2. ASSUME NEW id \in v.work
        PROVE  (OpenedIn(t, id) => v.multi) /\ \A j \in id .. k : t[j].stmt # "rollback"
    <3>1. id \in 1 .. k
      BY <1>1, <1>3 DEF PastRight, Sessions
    <3>2. (OpenedIn(s, id) => v.multi) /\ \A j \in id .. k : s[j].stmt # "rollback"
      BY <1>1, <1>3 DEF TrxRight
    <3>3. OpenedIn(t, id) => v.multi
      BY <1>2, <3>1, <3>2, OpenedSame
    <3>4. \A j \in id .. k : t[j] = s[j]
      BY <1>2, <3>1
    <3> QED BY <3>2, <3>3, <3>4
  <2>3. ASSUME NEW id \in Nat, <<c, id>> \in C, OpenedIn(t, id)
        PROVE  AskedIn(t, id)
    <3>1. id \in 1 .. k
      BY <1>1, <1>3, <2>3 DEF PastRight
    <3>2. OpenedIn(s, id)
      BY <1>2, <2>3, <3>1, OpenedSame
    <3>3. AskedIn(s, id)
      BY <1>1, <2>3, <3>2 DEF TrxRight
    <3> QED BY <3>1, <3>3, AskedSame
  <2> QED BY <1>3, <2>1, <2>2, <2>3 DEF TrxRight
<1>7. ToldRight(c, t, g, {r}, {}, F, C)
  BY <1>1, <1>3, TruthfulSame DEF ToldRight
<1>8. OutRight(c, t, <<>>, F, C)
  BY DEF OutRight
<1>9. LoginRight(c, t, a, m)
  <2>1. \A i \in 1 .. Len(m.script) : m.script[i].stmt = "login" <=> c \in Mysql /\ i = 1
    BY <1>1 DEF LoginRight
  <2>2. ASSUME c \in Mysql, ~a PROVE k = 0 /\ t[1].stmt = "login"
    <3>1. k = 0
      BY <1>1, <1>2, <2>2 DEF LoginRight
    <3>2. n.script[1].stmt = "login"
      BY <1>1, <2>2, <3>1 DEF LoginRight
    <3>3. k + 1 = 1
      BY <3>1
    <3>4. PICK l : l = k + 1
      OBVIOUS
    <3>5. r.stmt = n.script[l].stmt /\ r.stmt = t[l].stmt /\ l = 1
      BY <3>3, <3>4
    <3> QED BY <3>1, <3>2, <3>5
  <2> QED BY <1>2, <2>1, <2>2 DEF LoginRight
<1> QED BY <1>1, <1>4, <1>5, <1>6, <1>7, <1>8, <1>9 DEF Right

LEMMA SendRight ==
  ASSUME IInv, AnswerInv, NEW c \in Clients, Send(c)
  PROVE  AnswerInv'
<1>1. PICK k : k = Len(sent[c]) + 1
  OBVIOUS
<1>2. PICK x, r : x = [id |-> k, stmt |-> net[c].script[k].stmt]
                  /\ r = [id |-> k, stmt |-> net[c].script[k].stmt, half |-> net[c].script[k].half]
  OBVIOUS
<1>3. PICK n : n = [net[c] EXCEPT !.reqs = Append(@, r)]
  OBVIOUS
<1>4. /\ ~net[c].closed /\ k <= Len(net[c].script) /\ net' = [net EXCEPT ![c] = n]
      /\ sent' = [sent EXCEPT ![c] = Append(@, x)]
      /\ hasty' = (IF Waiting(c) THEN hasty \cup {c} ELSE hasty)
      /\ UNCHANGED <<conns, ev, queue, wk, got, committed, failed>>
  BY <1>1, <1>2, <1>3 DEF Send, IInv, TypeInv
<1>5. k \in Nat \ {0} /\ Len(sent[c]) \in Nat /\ net[c].script[k] \in [stmt : Kinds, half : BOOLEAN]
      /\ k \in 1 .. Len(net[c].script)
  <2>1. PICK s : s = net[c].script
    OBVIOUS
  <2>2. s \in Seq([stmt : Kinds, half : BOOLEAN]) /\ Len(s) \in Nat /\ Len(sent[c]) \in Nat
    <3>1. net[c] \in Nets /\ Len(sent[c]) \in Nat
      BY Counts
    <3>2. s \in Seq([stmt : Kinds, half : BOOLEAN])
      BY <2>1, <3>1 DEF Nets
    <3> QED BY <3>1, <3>2, LenProperties
  <2>3. k \in 1 .. Len(s) /\ k \in Nat \ {0}
    BY <1>1, <1>4, <2>1, <2>2
  <2> QED BY <2>1, <2>2, <2>3, ElementOfSeq
<1>6. r \in Requests /\ x \in [id : Nat, stmt : Kinds] /\ x.stmt = net[c].script[k].stmt /\ r.stmt = x.stmt /\ r.id = k
  BY <1>2, <1>5 DEF Requests
<1>7. PICK q : q = Append(net[c].reqs, r)
  OBVIOUS
<1>8. q \in Seq(Requests) /\ Len(q) = Len(net[c].reqs) + 1 /\ (net[c].reqs = <<>> => q[1] = r)
  BY <1>6, <1>7, Counts, OneMore
<1>9. n.reqs = q /\ n.closed = net[c].closed /\ n.script = net[c].script
  BY <1>3, <1>7, <1>8, Counts DEF Nets
<1>10. net'[c] = n /\ \A d \in Clients : d # c => net'[d] = net[d] /\ sent'[d] = sent[d]
  BY <1>4 DEF IInv, TypeInv
<1>11. \A d \in Clients : d # c => Untouched(d)
  BY <1>4, <1>10, SameAll DEF Untouched, conns
<1>12. ASSUME c \notin hasty' PROVE RightNow(c)'
  <2>1. c \in Clients \ hasty /\ ~Waiting(c)
    BY <1>4, <1>12
  <2>2. /\ ~Busy(c, net[c], queue, wk)
        /\ ClientOK(c, comm[c], out[c], net[c], EndCount(c), Len(sent[c]), queue, wk)
    BY <2>1, NotBusy
  <2>3. net[c].reqs = <<>> /\ Pending(c) = {} /\ Running(c) = {}
    BY <2>2, NoneOpen DEF Busy, Pending, Running
  <2>4. out[c] = <<>>
    BY <2>2 DEF ClientOK, Undisturbed, Busy, Serves, Served
  <2>5. PICK t : t = Append(sent[c], x)
    OBVIOUS
  <2>6. sent[c] \in SentSet /\ sent'[c] = t
    BY <1>4, <2>5 DEF IInv, TypeInv, SentSet
  <2>7. Longer(sent[c], t, k - 1) /\ t[k] = x
    BY <1>1, <1>5, <1>6, <2>5, <2>6, SentIs DEF Longer
  <2>8. n.reqs # <<>> /\ SeqRange(n.reqs) = {r}
    <3>1. Len(q) = 1 /\ q[1] = r
      <4>1. Len(net[c].reqs) = 0
        BY <2>3, Counts, Empty
      <4> QED BY <1>8, <2>3, <4>1
    <3>2. n.reqs # <<>>
      <4>1. q # <<>>
        BY <1>8, <3>1, Empty
      <4> QED BY <1>9, <4>1
    <3> QED BY <1>9, <3>1, <3>2 DEF SeqRange
  <2>9. Pending(c)' = {r} /\ Running(c)' = {}
    <3>1. {queue[i].req : i \in {j \in 1 .. Len(queue) : queue[j].c = c}} = {}
      BY <2>2 DEF Busy, InQueue
    <3>2. {wk[w].req : w \in {v \in Workers : wk[v].c = c /\ wk[v].pc = "sql"}} = {}
      BY <2>2 DEF Busy, Serves, Served
    <3>3. PendingOf(c, n, queue, wk) = {r}
      BY <2>8, <3>1, <3>2 DEF PendingOf
    <3> QED BY <1>4, <1>10, <2>3, <3>3 DEF Pending, Running
  <2>10. Right(c, sent[c], got[c], <<>>, session[c], authed[c], net[c], {}, {}, failed, committed)
    BY <2>1, <2>3, <2>4 DEF AnswerInv
  <2>11. Sends(sent[c], t, net[c], n, k - 1, r)
    BY <1>4, <1>5, <1>6, <1>9, <2>3, <2>7, <2>8 DEF Sends
  <2>12. Right(c, t, got[c], <<>>, session[c], authed[c], n, {r}, {}, failed, committed)
    BY <2>10, <2>11, RightSent
  <2> QED BY <1>4, <1>10, <2>4, <2>6, <2>9, <2>12 DEF RightNow, conns
<1>13. hasty \subseteq hasty'
  BY <1>4
<1> QED BY <1>11, <1>12, <1>13, AnswerStepOf

-----------------------------------------------------------------------------
(* A statement is run                                                      *)

\* What a step of the last request of c, the l-th of s, may do: the session v becomes u,
\* failed statements F become G and committed changes C become D.
Ran(c, s, v, u, F, G, C, D) ==
  LET l == Len(s)
  IN  /\ u \in Sessions /\ u.multi = v.multi
      /\ \A id \in u.work : id \in v.work \/ (id = l /\ s[l].stmt # "rollback")
      /\ \A id \in Nat : (<<c, id>> \in F => <<c, id>> \in G) /\ (<<c, id>> \in G => <<c, id>> \in F \/ id = l)
      /\ \A id \in Nat : /\ <<c, id>> \in C => <<c, id>> \in D
                         /\ <<c, id>> \in D => <<c, id>> \in C \/ (~v.multi /\ (id \in v.work \/ id = l))

LEMMA RanRight ==
  \A c, s, v, u, x, y, F, G, C, D :
    /\ ~x /\ s \in SentSet /\ Len(s) > 0 /\ v \in Sessions
    /\ PastRight(c, s, v, {}, F, C) /\ TrxRight(c, s, v, x, {}, C) /\ Ran(c, s, v, u, F, G, C, D)
    => PastRight(c, s, u, {}, G, D) /\ TrxRight(c, s, u, y, {}, D)
<1> SUFFICES ASSUME NEW c, NEW s, NEW v, NEW u, NEW x, NEW y, NEW F, NEW G, NEW C, NEW D,
                    ~x, s \in SentSet, Len(s) > 0, v \in Sessions,
                    PastRight(c, s, v, {}, F, C), TrxRight(c, s, v, x, {}, C), Ran(c, s, v, u, F, G, C, D)
             PROVE  PastRight(c, s, u, {}, G, D) /\ TrxRight(c, s, u, y, {}, D)
  OBVIOUS
<1>1. PICK l : l = Len(s) /\ l \in Nat \ {0}
  BY DEF SentSet
<1>2. Done(s, {}) = l /\ l \in 1 .. l
  BY <1>1 DEF Done
<1>3. /\ u \in Sessions /\ u.multi = v.multi
      /\ \A id \in u.work : id \in v.work \/ (id = l /\ s[l].stmt # "rollback")
      /\ \A id \in Nat : (<<c, id>> \in F => <<c, id>> \in G) /\ (<<c, id>> \in G => <<c, id>> \in F \/ id = l)
      /\ \A id \in Nat : /\ <<c, id>> \in C => <<c, id>> \in D
                         /\ <<c, id>> \in D => <<c, id>> \in C \/ (~v.multi /\ (id \in v.work \/ id = l))
  BY <1>1 DEF Ran
<1>4. PastRight(c, s, u, {}, G, D)
  BY <1>2, <1>3 DEF PastRight
<1>5. /\ v.multi <=> OpenedIn(s, l)
      /\ \A id \in v.work : (OpenedIn(s, id) => v.multi) /\ \A j \in id .. l : s[j].stmt # "rollback"
      /\ \A id \in Nat : <<c, id>> \in C /\ OpenedIn(s, id) => AskedIn(s, id)
  BY <1>2 DEF TrxRight
<1>6. \A id \in u.work : (OpenedIn(s, id) => u.multi) /\ \A j \in id .. l : s[j].stmt # "rollback"
  BY <1>1, <1>3, <1>5
<1>7. \A id \in Nat : <<c, id>> \in D /\ OpenedIn(s, id) => AskedIn(s, id)
  BY <1>3, <1>5
<1> QED BY <1>2, <1>3, <1>4, <1>5, <1>6, <1>7 DEF TrxRight

\* What a client has been told of its other requests is not touched.
LEMMA ToldKept ==
  \A c, s, g, P, Q, H, K, F, G, C, D :
    /\ s \in SentSet /\ Len(s) > 0 /\ ToldRight(c, s, g, P, H, F, C) /\ (P # {} \/ H # {})
    /\ \A id \in Nat : id # Len(s) => (<<c, id>> \in F <=> <<c, id>> \in G)
    /\ \A id \in Nat : <<c, id>> \in C => <<c, id>> \in D
    => ToldRight(c, s, g, Q, K, G, D)
<1> SUFFICES ASSUME NEW c, NEW s, NEW g, NEW P, NEW Q, NEW H, NEW K, NEW F, NEW G, NEW C, NEW D,
                    s \in SentSet, Len(s) > 0, ToldRight(c, s, g, P, H, F, C), P # {} \/ H # {},
                    \A id \in Nat : id # Len(s) => (<<c, id>> \in F <=> <<c, id>> \in G),
                    \A id \in Nat : <<c, id>> \in C => <<c, id>> \in D
             PROVE  ToldRight(c, s, g, Q, K, G, D)
  OBVIOUS
<1>1. PICK l : l = Len(s) /\ l \in Nat \ {0}
  BY DEF SentSet
<1>2. Told(s, P, H) = l - 1 /\ (Told(s, Q, K) = l - 1 \/ Told(s, Q, K) = l)
  BY <1>1 DEF Told
<1>3. InOrder(c, g)
  BY DEF ToldRight
<1>4. ASSUME NEW i \in 1 .. Len(g), g[i].c = c
      PROVE  g[i].id \in 1 .. Told(s, Q, K) /\ Truthful(c, g[i], s, G, D)
  <2>1. g[i].id \in 1 .. l - 1 /\ Truthful(c, g[i], s, F, C)
    BY <1>2, <1>4 DEF ToldRight
  <2>2. g[i].id \in Nat /\ g[i].id # l /\ g[i].id \in 1 .. Told(s, Q, K)
    BY <1>1, <1>2, <2>1
  <2>3. (<<c, g[i].id>> \in F <=> <<c, g[i].id>> \in G) /\ (<<c, g[i].id>> \in C => <<c, g[i].id>> \in D)
    BY <1>1, <2>2
  <2> QED BY <2>1, <2>2, <2>3, TruthfulKept
<1> QED BY <1>3, <1>4 DEF ToldRight

LEMMA RanTold ==
  \A c, s, g, v, u, P, Q, H, K, F, G, C, D :
    /\ s \in SentSet /\ Len(s) > 0 /\ ToldRight(c, s, g, P, H, F, C) /\ (P # {} \/ H # {})
    /\ Ran(c, s, v, u, F, G, C, D)
    => ToldRight(c, s, g, Q, K, G, D)
  BY ToldKept DEF Ran

\* The worker that serves c, if c waits: its request is the only one open.
LEMMA AtWork ==
  ASSUME IInv, AnswerInv, NEW w \in Workers, NEW c, c = wk[w].c, wk[w].pc \in Served, c \notin hasty
  PROVE  /\ c \in Clients /\ sent[c] \in SentSet /\ wk[w].req \in Requests /\ Current(sent[c], wk[w].req)
         /\ OpenAt(c, net[c], queue, wk, w) /\ ~net[c].closed /\ net[c].reqs = <<>>
         /\ RightNow(c)
         /\ wk[w].pc # "sql" => Phase(c, wk[w], session[c], failed)
<1>1. c \in Clients /\ wk[w].req \in Requests /\ Serves(wk[w], c)
  BY Worker DEF Served, Serves
<1>2. sent[c] \in SentSet
  BY <1>1 DEF IInv, TypeInv, SentSet
<1>3. ClientOK(c, comm[c], out[c], net[c], EndCount(c), Len(sent[c]), queue, wk)
  BY <1>1 DEF IInv, ClientInv, Fits
<1>4. OpenAt(c, net[c], queue, wk, w) /\ ~net[c].closed /\ net[c].reqs = <<>>
  BY <1>1, <1>3, Served1 DEF ClientOK, OneRequest, Busy
<1>5. RightNow(c)
  BY <1>1 DEF AnswerInv, RightNow
<1>6. HandsRight(c, sent[c], session[c], Pending(c), Running(c), failed)
  BY <1>5 DEF RightNow, Right
<1>7. Current(sent[c], wk[w].req) /\ (wk[w].pc # "sql" => Phase(c, wk[w], session[c], failed))
  BY <1>4, <1>6 DEF HandsRight, OpenAt, Pending, Running
<1> QED BY <1>1, <1>2, <1>4, <1>5, <1>7

LEMMA WorkerServed ==
  \A k, m, w, r, c :
    /\ k = [v \in Workers |-> k[v]] /\ w \in Workers /\ m = [k EXCEPT ![w] = r]
    /\ Serves(k[w], c) /\ (Serves(r, c) \/ r.pc \notin Served)
    => m[w] = r /\ \A d : d # c => SameServed(k, m, d)
<1> SUFFICES ASSUME NEW k, NEW m, NEW w \in Workers, NEW r, NEW c,
                    k = [v \in Workers |-> k[v]], m = [k EXCEPT ![w] = r],
                    Serves(k[w], c), Serves(r, c) \/ r.pc \notin Served
             PROVE  m[w] = r /\ \A d : d # c => SameServed(k, m, d)
  OBVIOUS
<1>1. m[w] = r /\ \A v \in Workers : v # w => m[v] = k[v]
  OBVIOUS
<1>2. \A d : d # c => ~Serves(k[w], d) /\ ~Serves(r, d)
  BY DEF Serves
<1> QED BY <1>1, <1>2 DEF SameServed

\* A worker's step between the statement and the flush of its answer.
LEMMA WorkerRight ==
  ASSUME IInv, IInv', AnswerInv, NEW w \in Workers, NEW c, c = wk[w].c, wk[w].pc \in Served \ {"sql"},
         NEW r, Serves(r, c), r.pc # "sql", r.req = wk[w].req, wk' = [wk EXCEPT ![w] = r],
         UNCHANGED <<net, queue, sent, hasty, authed, got>>,
         \A d \in Clients : d # c => /\ session'[d] = session[d] /\ out'[d] = out[d]
                                     /\ SameOf(d, failed, failed') /\ SameOf(d, committed, committed'),
         c \notin hasty => /\ Ran(c, sent[c], session[c], session'[c], failed, failed', committed, committed')
                           /\ Phase(c, r, session'[c], failed')
                           /\ OutRight(c, sent[c], out'[c], failed', committed')
  PROVE  AnswerInv'
<1>1. Serves(wk[w], c)
  BY DEF Serves
<1>2. wk'[w] = r /\ \A d \in Clients : d # c => SameServed(wk, wk', d)
  <2>1. Serves(r, c) \/ r.pc \notin Served
    OBVIOUS
  <2>2. wk' = [wk EXCEPT ![w] = r] /\ wk = [v \in Workers |-> wk[v]]
    BY DEF IInv, TypeInv
  <2> QED BY <1>1, <2>1, <2>2, WorkerServed
<1>3. \A d \in Clients : d # c => Untouched(d)
  BY <1>2, SameAll DEF Untouched
<1>4. ASSUME c \in Clients \ hasty' PROVE RightNow(c)'
  <2>1. /\ sent[c] \in SentSet /\ Current(sent[c], wk[w].req)
        /\ OpenAt(c, net[c], queue, wk, w) /\ ~net[c].closed
        /\ RightNow(c)
    BY <1>4, AtWork
  <2>2. Pending(c) = {} /\ Running(c) = {wk[w]}
    BY <2>1 DEF OpenAt, Pending, Running
  <2>3. ClientOK(c, comm'[c], out'[c], net'[c], EndCount(c)', Len(sent'[c]), queue', wk')
    BY <1>4 DEF IInv, ClientInv, Fits
  <2>4. OpenAt(c, net'[c], queue', wk', w)
    <3>1. Serves(wk'[w], c)
      BY <1>2
    <3>2. PICK e, l : ClientOK(c, comm'[c], out'[c], net'[c], e, l, queue', wk')
      BY <2>3
    <3> QED BY <3>1, <3>2, Served1, ZenonT(30)
  <2>5. Pending(c)' = {} /\ Running(c)' = {r}
    BY <1>2, <2>4 DEF OpenAt, Pending, Running
  <2>14. Right(c, sent[c], got[c], out[c], session[c], authed[c], net[c], {}, {wk[w]}, failed, committed)
    BY <2>1, <2>2 DEF RightNow
  <2>6. /\ session[c] \in Sessions
        /\ PastRight(c, sent[c], session[c], {}, failed, committed) /\ TrxRight(c, sent[c], session[c], net[c].closed, {}, committed)
        /\ ToldRight(c, sent[c], got[c], {}, {wk[w]}, failed, committed) /\ LoginRight(c, sent[c], authed[c], net[c])
    BY <2>14 DEF Right
  <2>7. Ran(c, sent[c], session[c], session'[c], failed, failed', committed, committed') /\ Len(sent[c]) > 0
    BY <1>4, <2>1 DEF Current
  <2>8. /\ PastRight(c, sent[c], session'[c], {}, failed', committed')
        /\ TrxRight(c, sent[c], session'[c], net[c].closed, {}, committed')
    BY <2>1, <2>6, <2>7, RanRight, SMTT(30)
  <2>9. ToldRight(c, sent[c], got[c], {}, {r}, failed', committed')
    <3>1. {wk[w]} # {} /\ {wk[w]} = Running(c)
      BY <2>2
    <3>2. ToldRight(c, sent[c], got[c], {}, Running(c), failed, committed)
      BY <2>6, <3>1
    <3> QED BY <2>1, <2>7, <3>1, <3>2, RanTold
  <2>10. HandsRight(c, sent[c], session'[c], {}, {r}, failed')
    BY <1>4, <2>1 DEF HandsRight
  <2>11. session'[c] \in Sessions
    BY <2>7 DEF Ran
  <2>12. OutRight(c, sent[c], out'[c], failed', committed')
    BY <1>4
  <2>13. Right(c, sent[c], got[c], out'[c], session'[c], authed[c], net[c], {}, {r}, failed', committed')
    BY <2>6, <2>8, <2>9, <2>10, <2>11, <2>12 DEF Right
  <2> QED BY <2>5, <2>13 DEF RightNow
<1> QED BY <1>3, <1>4, AnswerStepOf

\* The end of an answer may follow columns and rows, and only debug texts may follow it.
Led(s, o) == \A i \in 1 .. Len(o) : o[i].id = Len(s) /\ o[i].what \in {"cols", "row"}

LEMMA LedConcat ==
  \A c, s, o, p, F, C : o \in Seq(PartSet) /\ p \in Seq(PartSet) /\ Len(s) > 0 /\ Led(s, o) =>
    /\ Led(s, p) => Led(s, o \o p)
    /\ OutRight(c, s, p, F, C) => OutRight(c, s, o \o p, F, C)
<1> SUFFICES ASSUME NEW c, NEW s, NEW o, NEW p, NEW F, NEW C,
                    o \in Seq(PartSet), p \in Seq(PartSet), Len(s) > 0, Led(s, o)
             PROVE  /\ Led(s, p) => Led(s, o \o p)
                    /\ OutRight(c, s, p, F, C) => OutRight(c, s, o \o p, F, C)
  OBVIOUS
<1>1. PICK r : r = o \o p
  OBVIOUS
<1>2. /\ Len(o) \in Nat
      /\ \A i \in 1 .. Len(r) : \/ i \in 1 .. Len(o) /\ r[i] = o[i]
                                \/ i - Len(o) \in 1 .. Len(p) /\ r[i] = p[i - Len(o)]
  BY <1>1, Concat
<1>3. \A i \in 1 .. Len(o) : o[i].id = Len(s) /\ o[i].what \notin Terminators /\ Truthful(c, o[i], s, F, C)
  BY DEF Led, Truthful, Terminators
<1>4. Led(s, p) => Led(s, r)
  BY <1>2 DEF Led
<1>5. ASSUME OutRight(c, s, p, F, C) PROVE OutRight(c, s, r, F, C)
  <2>1. ASSUME NEW i \in 1 .. Len(r)
        PROVE  r[i].id = Len(s) /\ Truthful(c, r[i], s, F, C)
    BY <1>2, <1>3, <1>5 DEF OutRight
  <2>2. ASSUME NEW i \in 1 .. Len(r), NEW j \in 1 .. Len(r), i < j, r[i].what \in Terminators
        PROVE  r[j].what = "debug"
    <3>1. i - Len(o) \in 1 .. Len(p) /\ r[i] = p[i - Len(o)]
      BY <1>2, <1>3, <2>2
    <3>2. j - Len(o) \in 1 .. Len(p) /\ r[j] = p[j - Len(o)] /\ i - Len(o) < j - Len(o)
      BY <1>2, <2>2, <3>1
    <3> QED BY <1>5, <2>2, <3>1, <3>2 DEF OutRight
  <2> QED BY <2>1, <2>2 DEF OutRight
<1> QED BY <1>1, <1>4, <1>5

LEMMA OneRight ==
  \A c, s, x, F, C : x \in PartSet /\ Len(s) > 0 /\ x.id = Len(s) /\ Truthful(c, x, s, F, C) => OutRight(c, s, <<x>>, F, C)
<1> SUFFICES ASSUME NEW c, NEW s, NEW x, NEW F, NEW C,
                    x \in PartSet, Len(s) > 0, x.id = Len(s), Truthful(c, x, s, F, C)
             PROVE  OutRight(c, s, <<x>>, F, C)
  OBVIOUS
<1>1. PICK p : p = <<x>>
  OBVIOUS
<1>2. Len(p) = 1 /\ p[1] = x
  BY <1>1
<1>3. OutRight(c, s, p, F, C)
  BY <1>2 DEF OutRight
<1> QED BY <1>1, <1>3

LEMMA DebugLast ==
  \A c, s, o, x, F, C : o \in Seq(PartSet) /\ x \in PartSet /\ Len(s) > 0 /\ OutRight(c, s, o, F, C)
                          /\ x.id = Len(s) /\ x.what = "debug" => OutRight(c, s, o \o <<x>>, F, C)
<1> SUFFICES ASSUME NEW c, NEW s, NEW o, NEW x, NEW F, NEW C, o \in Seq(PartSet), x \in PartSet, Len(s) > 0,
                    OutRight(c, s, o, F, C), x.id = Len(s), x.what = "debug"
             PROVE  OutRight(c, s, o \o <<x>>, F, C)
  OBVIOUS
<1>1. PICK p, r : p = <<x>> /\ r = o \o p
  OBVIOUS
<1>2. p \in Seq(PartSet) /\ Len(p) = 1 /\ p[1] = x
  BY <1>1, Sequence1
<1>3. /\ Len(o) \in Nat
      /\ \A i \in 1 .. Len(r) : (i \in 1 .. Len(o) /\ r[i] = o[i]) \/ (i = Len(o) + 1 /\ r[i] = x)
  BY <1>1, <1>2, Concat
<1>4. Truthful(c, x, s, F, C)
  BY DEF Truthful
<1>5. ASSUME NEW i \in 1 .. Len(r)
      PROVE  r[i].id = Len(s) /\ Truthful(c, r[i], s, F, C)
  BY <1>3, <1>4 DEF OutRight
<1>6. ASSUME NEW i \in 1 .. Len(r), NEW j \in 1 .. Len(r), i < j, r[i].what \in Terminators
      PROVE  r[j].what = "debug"
  BY <1>3, <1>6 DEF OutRight, Terminators
<1>7. OutRight(c, s, r, F, C)
  BY <1>5, <1>6 DEF OutRight
<1> QED BY <1>1, <1>7

LEMMA EndTrxIs ==
  ASSUME IInv, NEW c \in Clients, EndTrx(c)
  PROVE  /\ \A d \in Clients : d # c => session'[d] = session[d] /\ SameOf(d, committed, committed')
         /\ session[c] \in Sessions =>
              /\ session'[c] \in Sessions /\ session'[c].multi = session[c].multi /\ session'[c].work \subseteq session[c].work
              /\ \A id \in Nat : /\ <<c, id>> \in committed => <<c, id>> \in committed'
                                 /\ <<c, id>> \in committed' => <<c, id>> \in committed
                                                                  \/ (~session[c].multi /\ id \in session[c].work)
                                 /\ ~session[c].multi /\ id \in session[c].work => <<c, id>> \in committed'
<1>1. CASE session[c].multi
  BY <1>1, SameAll DEF EndTrx
<1>2. CASE ~session[c].multi
  <2>1. /\ session' = [session EXCEPT ![c] = [session[c] EXCEPT !.active = FALSE, !.work = {}]]
        /\ committed' = committed \cup {<<c, id>> : id \in session[c].work}
    BY <1>2 DEF EndTrx, IInv, TypeInv
  <2>2. session'[c] = [session[c] EXCEPT !.active = FALSE, !.work = {}] /\ \A d \in Clients : d # c => session'[d] = session[d]
    BY <2>1 DEF IInv, TypeInv
  <2>3. \A d, id : <<d, id>> \in committed' <=> <<d, id>> \in committed \/ (d = c /\ id \in session[c].work)
    BY <2>1
  <2>4. \A d : d # c => SameOf(d, committed, committed')
    BY <2>3 DEF SameOf
  <2>5. session[c] \in Sessions => session'[c] \in Sessions /\ session'[c].multi = session[c].multi /\ session'[c].work = {}
    BY <2>2 DEF Sessions
  <2> QED BY <1>2, <2>2, <2>3, <2>4, <2>5
<1> QED BY <1>1, <1>2

LEMMA FailedIs ==
  \A c, i, F, G : G = F \/ G = F \cup {<<c, i>>} =>
    /\ \A d : d # c => SameOf(d, F, G)
    /\ \A id \in Nat : (<<c, id>> \in F => <<c, id>> \in G) /\ (<<c, id>> \in G => <<c, id>> \in F \/ id = i)
  BY DEF SameOf

LEMMA EmptyConcat == \A p \in Seq(PartSet) : <<>> \o p = p
  OBVIOUS

\* The answer p is written to the buffer.
LEMMA AnswerRight ==
  ASSUME IInv, IInv', AnswerInv, NEW w \in Workers, NEW c, c = wk[w].c, wk[w].pc \in {"open", "rows"}, Usable(c), NEW p,
         \/ Buffered(c, p) /\ SetW(w, [wk[w] EXCEPT !.pc = "debug"])
         \/ /\ WriteFails(c) /\ UNCHANGED <<out, got>>
            /\ \E b \in BOOLEAN : SetW(w, [wk[w] EXCEPT !.pc = "flush", !.drop = b]),
         UNCHANGED <<net, queue, sent, hasty, authed>>,
         \A d \in Clients : d # c => /\ session'[d] = session[d]
                                     /\ SameOf(d, failed, failed') /\ SameOf(d, committed, committed'),
         c \notin hasty => /\ Own(c, p)
                           /\ Ran(c, sent[c], session[c], session'[c], failed, failed', committed, committed')
                           /\ OutRight(c, sent[c], p, failed', committed')
  PROVE  AnswerInv'
<1>1. wk[w].pc \in Served \ {"sql"} /\ wk[w].pc # "idle" /\ wk[w] \in WkSet
  BY Worker DEF Served
<1>2. PICK r : /\ wk' = [wk EXCEPT ![w] = r] /\ r.pc \in {"debug", "flush"} /\ r.c = c /\ r.req = wk[w].req
               /\ r.pc = "flush" => WriteFails(c)
  <2>1. CASE Buffered(c, p) /\ SetW(w, [wk[w] EXCEPT !.pc = "debug"])
    <3>1. PICK r : r = [wk[w] EXCEPT !.pc = "debug"]
      OBVIOUS
    <3>2. r.pc = "debug" /\ r.c = c /\ r.req = wk[w].req
      BY <1>1, <3>1 DEF WkSet
    <3> QED BY <2>1, <3>1, <3>2 DEF SetW
  <2>2. CASE /\ WriteFails(c) /\ UNCHANGED <<out, got>>
             /\ \E b \in BOOLEAN : SetW(w, [wk[w] EXCEPT !.pc = "flush", !.drop = b])
    <3>1. PICK b \in BOOLEAN : SetW(w, [wk[w] EXCEPT !.pc = "flush", !.drop = b])
      BY <2>2
    <3>2. PICK r : r = [wk[w] EXCEPT !.pc = "flush", !.drop = b]
      OBVIOUS
    <3>3. r.pc = "flush" /\ r.c = c /\ r.req = wk[w].req
      BY <1>1, <3>2 DEF WkSet
    <3> QED BY <2>2, <3>1, <3>2, <3>3 DEF SetW
  <2> QED BY <2>1, <2>2
<1>3. Serves(r, c) /\ r.pc # "sql"
  BY <1>2 DEF Serves, Served
<1>4. got' = got /\ \A d \in Clients : d # c => out'[d] = out[d]
  BY DEF Buffered, IInv, TypeInv
<1>5. ASSUME c \notin hasty
      PROVE  Phase(c, r, session'[c], failed') /\ OutRight(c, sent[c], out'[c], failed', committed')
  <2>1. c \in Clients /\ CanWrite(c) /\ out[c] = <<>>
    BY <1>1, <1>5, Reachable, Held, Worker
  <2>2. out' = [out EXCEPT ![c] = @ \o p]
    BY <2>1 DEF WriteFails, Buffered
  <2>3. out'[c] = out[c] \o p
    BY <2>1, <2>2 DEF IInv, TypeInv
  <2>4. out'[c] = p
    BY <1>5, <2>1, <2>3, EmptyConcat DEF Own
  <2>5. Phase(c, r, session'[c], failed')
    BY <1>2 DEF Phase
  <2> QED BY <1>5, <2>4, <2>5
<1> QED BY <1>1, <1>2, <1>3, <1>4, <1>5, WorkerRight

\* What a worker knows when it writes an answer.
LEMMA AtAnswer ==
  ASSUME IInv, AnswerInv, NEW w \in Workers, NEW c, c = wk[w].c, wk[w].pc \in {"open", "rows"}, c \notin hasty
  PROVE  /\ c \in Clients /\ wk[w].req \in Requests /\ wk[w] \in WkSet /\ Current(sent[c], wk[w].req)
         /\ session[c] \in Sessions /\ (session[c].multi <=> OpenedIn(sent[c], Len(sent[c])))
         /\ Phase(c, wk[w], session[c], failed)
         /\ out[c] = <<>> /\ (Usable(c) => CanWrite(c))
<1>1. wk[w].pc \in Served /\ wk[w].pc # "sql"
  BY DEF Served
<1>2. /\ c \in Clients /\ wk[w].req \in Requests /\ Current(sent[c], wk[w].req) /\ Phase(c, wk[w], session[c], failed)
      /\ OpenAt(c, net[c], queue, wk, w) /\ ~net[c].closed /\ RightNow(c)
  BY <1>1, AtWork
<1>3. wk[w] \in WkSet
  BY <1>1, Worker DEF Served
<1>4. Pending(c) = {}
  BY <1>1, <1>2 DEF OpenAt, Pending
<1>5. session[c] \in Sessions /\ TrxRight(c, sent[c], session[c], net[c].closed, Pending(c), committed)
  BY <1>2 DEF RightNow, Right
<1>6. session[c].multi <=> OpenedIn(sent[c], Len(sent[c]))
  BY <1>2, <1>4, <1>5 DEF TrxRight, Done
<1>7. out[c] = <<>> /\ (Usable(c) => CanWrite(c))
  BY <1>1, Reachable, Held
<1> QED BY <1>2, <1>3, <1>5, <1>6, <1>7

LEMMA AnswerStateRight ==
  ASSUME IInv, IInv', AnswerInv, NEW w \in Workers, AnswerState(w)
  PROVE  AnswerInv'
<1>1. PICK c, p : c = wk[w].c /\ p = State(w, wk[w].rc)
  OBVIOUS
<1>2. /\ wk[w].pc = "open" /\ Usable(c) /\ ~(wk[w].op /\ wk[w].rc)
      /\ \/ Buffered(c, p) /\ SetW(w, [wk[w] EXCEPT !.pc = "debug"])
         \/ WriteFails(c) /\ SetW(w, [wk[w] EXCEPT !.pc = "flush", !.drop = TRUE]) /\ UNCHANGED <<out, got>>
      /\ UNCHANGED <<net, queue, sent, hasty, authed, session, failed, committed>>
  BY <1>1 DEF AnswerState, WriteState
<1>3. ASSUME c \notin hasty
      PROVE  /\ Own(c, p) /\ OutRight(c, sent[c], p, failed', committed')
             /\ Ran(c, sent[c], session[c], session'[c], failed, failed', committed, committed')
  <2>1. /\ wk[w].req \in Requests /\ wk[w] \in WkSet /\ Current(sent[c], wk[w].req) /\ session[c] \in Sessions
        /\ Phase(c, wk[w], session[c], failed) /\ c \in Clients
    BY <1>1, <1>2, <1>3, AtAnswer
  <2>2. Ran(c, sent[c], session[c], session'[c], failed, failed', committed, committed')
    BY <1>2, <2>1 DEF Ran
  <2>3. Own(c, p)
    BY <1>1, <1>2, StateAnswer DEF Answer
  <2>4. PICK x : x = Part(c, wk[w].req, IF wk[w].rc THEN "ok" ELSE "fail")
    OBVIOUS
  <2>5. x \in PartSet /\ x.id = Len(sent[c]) /\ x.what = (IF wk[w].rc THEN "ok" ELSE "fail")
    BY <2>1, <2>4 DEF Part, PartSet, Requests, Terminators, Current
  <2>6. /\ wk[w].rc <=> sent[c][x.id].stmt # "syntax"
        /\ <<c, x.id>> \in failed <=> sent[c][x.id].stmt \in {"syntax", "noplan"}
        /\ wk[w].op <=> sent[c][x.id].stmt \in {"select", "change"}
    BY <1>2, <2>1, <2>5 DEF Phase, Current, WkSet
  <2>7. Truthful(c, x, sent[c], failed, committed)
    BY <1>2, <2>5, <2>6 DEF Truthful
  <2>8. OutRight(c, sent[c], <<x>>, failed, committed)
    BY <2>1, <2>5, <2>7, OneRight DEF Current
  <2> QED BY <1>1, <1>2, <2>2, <2>3, <2>4, <2>8 DEF State
<1>4. \A d \in Clients : d # c => session'[d] = session[d] /\ SameOf(d, failed, failed') /\ SameOf(d, committed, committed')
  BY <1>2, SameAll
<1> QED BY <1>1, <1>2, <1>3, <1>4, AnswerRight

\* A statement that starts, or starts and fails.
LEMMA StartIs ==
  ASSUME IInv, NEW c \in Clients, NEW ids, session' = Started(c, ids)
  PROVE  /\ \A d \in Clients : d # c => session'[d] = session[d]
         /\ session[c] \in Sessions /\ ids \subseteq Nat =>
              session'[c] \in Sessions /\ session'[c].multi = session[c].multi /\ session'[c].work = session[c].work \cup ids
<1>1. session' = [session EXCEPT ![c] = [session[c] EXCEPT !.active = TRUE, !.work = @ \cup ids]]
  BY DEF Started, IInv, TypeInv
<1>2. session'[c] = [session[c] EXCEPT !.active = TRUE, !.work = @ \cup ids] /\ \A d \in Clients : d # c => session'[d] = session[d]
  BY <1>1 DEF IInv, TypeInv
<1>3. session[c] \in Sessions /\ ids \subseteq Nat =>
        session'[c] \in Sessions /\ session'[c].multi = session[c].multi /\ session'[c].work = session[c].work \cup ids
  BY <1>2 DEF Sessions
<1> QED BY <1>2, <1>3

LEMMA CloseFailedIs ==
  ASSUME IInv, NEW c \in Clients, NEW ids, CloseFailed(c, ids), ~session[c].multi
  PROVE  /\ \A d \in Clients : d # c => session'[d] = session[d] /\ SameOf(d, committed, committed')
         /\ session[c] \in Sessions =>
              session'[c] \in Sessions /\ session'[c].multi = session[c].multi /\ session'[c].work = {}
         /\ \A id : <<c, id>> \in committed' <=> <<c, id>> \in committed \/ id \in session[c].work \/ id \in ids
<1>1. /\ session' = [session EXCEPT ![c] = [session[c] EXCEPT !.active = FALSE, !.work = {}]]
      /\ committed' = committed \cup {<<c, id>> : id \in session[c].work \cup ids}
  BY DEF CloseFailed, IInv, TypeInv
<1>2. session'[c] = [session[c] EXCEPT !.active = FALSE, !.work = {}] /\ \A d \in Clients : d # c => session'[d] = session[d]
  BY <1>1 DEF IInv, TypeInv
<1>3. \A d, id : <<d, id>> \in committed' <=> <<d, id>> \in committed \/ (d = c /\ (id \in session[c].work \/ id \in ids))
  BY <1>1
<1>4. \A d : d # c => SameOf(d, committed, committed')
  BY <1>3 DEF SameOf
<1>5. session[c] \in Sessions => session'[c] \in Sessions /\ session'[c].multi = session[c].multi /\ session'[c].work = {}
  BY <1>2 DEF Sessions
<1> QED BY <1>2, <1>3, <1>4, <1>5

LEMMA StateRight ==
  ASSUME IInv, NEW w \in Workers, NEW c, c = wk[w].c, wk[w].pc # "idle", Current(sent[c], wk[w].req), NEW rc \in BOOLEAN, NEW F, NEW C,
         \A x : x.id = wk[w].req.id /\ x.what = (IF rc THEN "ok" ELSE "fail") => Truthful(c, x, sent[c], F, C)
  PROVE  Own(c, State(w, rc)) /\ OutRight(c, sent[c], State(w, rc), F, C)
<1>1. PICK x : x = Part(c, wk[w].req, IF rc THEN "ok" ELSE "fail")
  OBVIOUS
<1>2. c \in Clients /\ wk[w].req \in Requests
  BY Worker
<1>3. x \in PartSet /\ x.id = wk[w].req.id /\ x.what = (IF rc THEN "ok" ELSE "fail")
  BY <1>1, <1>2 DEF Part, PartSet, Requests, Terminators
<1>4. OutRight(c, sent[c], <<x>>, F, C)
  BY <1>3, OneRight DEF Current
<1>5. Own(c, State(w, rc))
  BY StateAnswer DEF Answer
<1> QED BY <1>1, <1>4, <1>5 DEF State

LEMMA OpenResultRight ==
  ASSUME IInv, IInv', AnswerInv, NEW w \in Workers, OpenResult(w)
  PROVE  AnswerInv'
<1>1. PICK c, ids : c = wk[w].c /\ ids = (IF wk[w].req.stmt = "change" THEN {wk[w].req.id} ELSE {})
  OBVIOUS
<1>2. /\ wk[w].pc = "open" /\ Usable(c) /\ wk[w].op /\ wk[w].rc
      /\ \/ /\ session' = Started(c, ids) /\ SetW(w, [wk[w] EXCEPT !.pc = "rows"])
            /\ UNCHANGED <<committed, failed, out, got>>
         \/ /\ wk[w].req.stmt = "change" /\ failed' = failed \cup {<<c, wk[w].req.id>>}
            /\ IF c \in Mysql THEN session' = Started(c, ids) /\ UNCHANGED committed ELSE CloseFailed(c, ids)
            /\ WriteState(w, FALSE)
      /\ UNCHANGED <<net, queue, sent, hasty, authed>>
  BY <1>1 DEF OpenResult
<1>3. c \in Clients /\ wk[w].pc # "idle" /\ wk[w].req \in Requests /\ wk[w] \in WkSet /\ wk[w].pc \in Served \ {"sql"}
  BY <1>1, <1>2, Worker DEF Served
<1>4. ids \subseteq Nat /\ \A id \in ids : id = wk[w].req.id /\ wk[w].req.stmt = "change"
  BY <1>1, <1>3 DEF Requests
<1>5. ASSUME c \notin hasty
      PROVE  /\ Current(sent[c], wk[w].req) /\ session[c] \in Sessions /\ RightNow(c)
             /\ wk[w].req.stmt \in {"select", "change"} /\ <<c, wk[w].req.id>> \notin failed
             /\ \A id \in session[c].work \cup ids : id \in session[c].work
                                                     \/ (id = Len(sent[c]) /\ sent[c][Len(sent[c])].stmt # "rollback")
  <2>1. /\ Current(sent[c], wk[w].req) /\ session[c] \in Sessions /\ Phase(c, wk[w], session[c], failed)
    BY <1>1, <1>2, <1>5, AtAnswer
  <2>2. RightNow(c)
    BY <1>3, <1>5 DEF AnswerInv, RightNow
  <2>3. wk[w].req.stmt \in {"select", "change"} /\ <<c, wk[w].req.id>> \notin failed
    BY <1>2, <1>3, <2>1 DEF Phase, WkSet
  <2> QED BY <1>4, <2>1, <2>2, <2>3 DEF Current
<1>6. CASE session' = Started(c, ids) /\ SetW(w, [wk[w] EXCEPT !.pc = "rows"]) /\ UNCHANGED <<committed, failed, out, got>>
  <2>1. PICK r : r = [wk[w] EXCEPT !.pc = "rows"] /\ wk' = [wk EXCEPT ![w] = r]
    BY <1>6 DEF SetW
  <2>2. Serves(r, c) /\ r.pc = "rows" /\ r.req = wk[w].req
    BY <1>1, <1>3, <2>1 DEF Serves, Served, WkSet
  <2>3. \A d \in Clients : d # c => /\ session'[d] = session[d] /\ out'[d] = out[d]
                                    /\ SameOf(d, failed, failed') /\ SameOf(d, committed, committed')
    BY <1>3, <1>6, StartIs, SameAll
  <2>4. ASSUME c \notin hasty
        PROVE  /\ Ran(c, sent[c], session[c], session'[c], failed, failed', committed, committed')
               /\ Phase(c, r, session'[c], failed')
               /\ OutRight(c, sent[c], out'[c], failed', committed')
    <3>1. session'[c] \in Sessions /\ session'[c].multi = session[c].multi /\ session'[c].work = session[c].work \cup ids
      BY <1>3, <1>4, <1>5, <1>6, <2>4, StartIs
    <3>2. Ran(c, sent[c], session[c], session'[c], failed, failed', committed, committed')
      BY <1>5, <1>6, <2>4, <3>1 DEF Ran
    <3>3. Phase(c, r, session'[c], failed')
      BY <1>1, <1>5, <1>6, <2>2, <2>4, <3>1 DEF Phase
    <3>4. OutRight(c, sent[c], out'[c], failed', committed')
      BY <1>5, <1>6, <2>4 DEF RightNow, Right
    <3> QED BY <3>2, <3>3, <3>4
  <2>5. UNCHANGED <<net, queue, sent, hasty, authed, got>>
    BY <1>2, <1>6
  <2>6. wk[w].pc \in Served \ {"sql"} /\ c = wk[w].c /\ r.pc # "sql"
    BY <1>1, <1>3, <2>2
  <2> QED BY <2>1, <2>2, <2>3, <2>4, <2>5, <2>6, WorkerRight
<1>7. CASE /\ wk[w].req.stmt = "change" /\ failed' = failed \cup {<<c, wk[w].req.id>>}
           /\ IF c \in Mysql THEN session' = Started(c, ids) /\ UNCHANGED committed ELSE CloseFailed(c, ids)
           /\ WriteState(w, FALSE)
  <2>1. PICK p : p = State(w, FALSE)
    OBVIOUS
  <2>2. \/ Buffered(c, p) /\ SetW(w, [wk[w] EXCEPT !.pc = "debug"])
        \/ WriteFails(c) /\ SetW(w, [wk[w] EXCEPT !.pc = "flush", !.drop = TRUE]) /\ UNCHANGED <<out, got>>
    BY <1>1, <1>7, <2>1 DEF WriteState
  <2>3. \/ session' = Started(c, ids) /\ committed' = committed
        \/ CloseFailed(c, ids) /\ ~session[c].multi
    BY <1>7 DEF CloseFailed
  <2>4. \A d \in Clients : d # c => session'[d] = session[d] /\ SameOf(d, committed, committed')
    <3>1. CASE session' = Started(c, ids) /\ committed' = committed
      BY <1>3, <3>1, StartIs, SameAll
    <3>2. CASE CloseFailed(c, ids) /\ ~session[c].multi
      BY <1>3, <3>2, CloseFailedIs
    <3> QED BY <2>3, <3>1, <3>2
  <2>7. PICK G, i : G = failed' /\ i = wk[w].req.id
    OBVIOUS
  <2>8. G = failed \cup {<<c, i>>}
    BY <1>7, <2>7
  <2>5. \A d \in Clients : d # c => SameOf(d, failed, failed')
    <3>1. \A d : d # c => SameOf(d, failed, G)
      BY <2>8 DEF SameOf
    <3> QED BY <2>7, <3>1
  <2>6. ASSUME c \notin hasty
        PROVE  /\ Own(c, p) /\ OutRight(c, sent[c], p, failed', committed')
               /\ Ran(c, sent[c], session[c], session'[c], failed, failed', committed, committed')
    <3>1. wk[w].req.id = Len(sent[c])
      BY <1>5, <2>6 DEF Current
    <3>2. \A id \in Nat : (<<c, id>> \in failed => <<c, id>> \in failed') /\ (<<c, id>> \in failed' => <<c, id>> \in failed \/ id = Len(sent[c]))
      BY <2>7, <2>8, <3>1, FailedIs
    <3>3. Ran(c, sent[c], session[c], session'[c], failed, failed', committed, committed')
      <4>1. CASE session' = Started(c, ids) /\ committed' = committed
        <5>1. session'[c] \in Sessions /\ session'[c].multi = session[c].multi /\ session'[c].work = session[c].work \cup ids
          BY <1>3, <1>4, <1>5, <2>6, <4>1, StartIs
        <5> QED BY <1>5, <2>6, <3>2, <4>1, <5>1 DEF Ran
      <4>2. CASE CloseFailed(c, ids) /\ ~session[c].multi
        <5>1. /\ session'[c] \in Sessions /\ session'[c].multi = session[c].multi /\ session'[c].work = {}
              /\ \A id : <<c, id>> \in committed' <=> <<c, id>> \in committed \/ id \in session[c].work \/ id \in ids
          BY <1>3, <1>5, <2>6, <4>2, CloseFailedIs
        <5>2. \A id \in Nat : /\ <<c, id>> \in committed => <<c, id>> \in committed'
                              /\ <<c, id>> \in committed' => <<c, id>> \in committed
                                   \/ (~session[c].multi /\ (id \in session[c].work \/ id = Len(sent[c])))
          BY <1>4, <3>1, <4>2, <5>1
        <5> QED BY <3>2, <5>1, <5>2 DEF Ran
      <4> QED BY <2>3, <4>1, <4>2
    <3>4. <<c, wk[w].req.id>> \in failed'
      BY <1>7
    <3>5. \A x : x.id = wk[w].req.id /\ x.what = (IF FALSE THEN "ok" ELSE "fail") => Truthful(c, x, sent[c], failed', committed')
      BY <3>4 DEF Truthful
    <3>6. Own(c, p) /\ OutRight(c, sent[c], p, failed', committed')
      BY <1>1, <1>3, <1>5, <2>1, <2>6, <3>5, StateRight
    <3> QED BY <3>3, <3>6
  <2>9. \/ Buffered(c, p) /\ SetW(w, [wk[w] EXCEPT !.pc = "debug"])
        \/ /\ WriteFails(c) /\ UNCHANGED <<out, got>>
           /\ \E b \in BOOLEAN : SetW(w, [wk[w] EXCEPT !.pc = "flush", !.drop = b])
    BY <2>2
  <2>10. \A d \in Clients : d # c => /\ session'[d] = session[d]
                                     /\ SameOf(d, failed, failed') /\ SameOf(d, committed, committed')
    BY <2>4, <2>5
  <2>11. c = wk[w].c /\ wk[w].pc \in {"open", "rows"} /\ Usable(c) /\ UNCHANGED <<net, queue, sent, hasty, authed>>
    BY <1>1, <1>2
  <2> QED BY <2>6, <2>9, <2>10, <2>11, AnswerRight, ZenonT(30)
<1> QED BY <1>2, <1>6, <1>7

\* The end of a result: its transaction ends, unless BEGIN has opened it, and the
\* statement may have failed.
LEMMA EndRan ==
  ASSUME IInv, AnswerInv, NEW w \in Workers, NEW c, c = wk[w].c, wk[w].pc = "rows", EndTrx(c),
         NEW i, i = wk[w].req.id, NEW G, failed' = G, G = failed \/ G = failed \cup {<<c, i>>}
  PROVE  /\ \A d \in Clients : d # c => /\ session'[d] = session[d]
                                        /\ SameOf(d, failed, failed') /\ SameOf(d, committed, committed')
         /\ c \notin hasty => Ran(c, sent[c], session[c], session'[c], failed, failed', committed, committed')
<1>1. c \in Clients
  BY Worker
<1>2. \A d : d # c => SameOf(d, failed, G)
  BY DEF SameOf
<1>3. ASSUME c \notin hasty
      PROVE  Ran(c, sent[c], session[c], session'[c], failed, failed', committed, committed')
  <2>1. Current(sent[c], wk[w].req) /\ session[c] \in Sessions
    BY <1>3, AtAnswer
  <2>2. i = Len(sent[c])
    BY <2>1 DEF Current
  <2>3. \A id \in Nat : (<<c, id>> \in failed => <<c, id>> \in G) /\ (<<c, id>> \in G => <<c, id>> \in failed \/ id = i)
    OBVIOUS
  <2>4. /\ session'[c] \in Sessions /\ session'[c].multi = session[c].multi /\ session'[c].work \subseteq session[c].work
        /\ \A id \in Nat : /\ <<c, id>> \in committed => <<c, id>> \in committed'
                           /\ <<c, id>> \in committed' => <<c, id>> \in committed
                                                            \/ (~session[c].multi /\ id \in session[c].work)
    BY <1>1, <2>1, EndTrxIs
  <2> QED BY <2>2, <2>3, <2>4 DEF Ran
<1>4. \A d \in Clients : d # c => session'[d] = session[d] /\ SameOf(d, committed, committed')
  BY <1>1, EndTrxIs
<1> QED BY <1>2, <1>3, <1>4

\* The last packet tells the truth, but for a row that failed over MySQL.
LEMMA EndRight ==
  ASSUME IInv, AnswerInv, NEW w \in Workers, NEW c, c = wk[w].c, wk[w].pc = "rows", EndTrx(c), c \notin hasty,
         NEW G, failed' = G, G = failed \/ (c \in Mysql /\ G = failed \cup {<<c, wk[w].req.id>>}),
         NEW what \in {"end", "eof"},
         NEW end, end = IF wk[w].req.stmt = "change" THEN State(w, TRUE) ELSE <<Part(c, wk[w].req, what)>>
  PROVE  Own(c, end) /\ OutRight(c, sent[c], end, failed', committed')
<1>1. /\ c \in Clients /\ wk[w].req \in Requests /\ Current(sent[c], wk[w].req) /\ session[c] \in Sessions
      /\ (session[c].multi <=> OpenedIn(sent[c], Len(sent[c]))) /\ Phase(c, wk[w], session[c], failed)
  BY AtAnswer
<1>2. PICK l : l = Len(sent[c])
  OBVIOUS
<1>3. /\ wk[w].req.id = l /\ l \in Nat /\ wk[w].req.stmt = sent[c][l].stmt /\ l > 0
      /\ wk[w].req.stmt \in {"select", "change"} /\ <<c, l>> \notin failed
      /\ wk[w].req.stmt = "change" => l \in session[c].work
  BY <1>1, <1>2 DEF Current, Phase, Requests
<1>4. <<c, l>> \in G => c \in Mysql
  BY <1>3
<1>5. sent[c][l].stmt = "change" /\ ~OpenedIn(sent[c], l) => <<c, l>> \in committed'
  <2>1. \A id \in Nat : ~session[c].multi /\ id \in session[c].work => <<c, id>> \in committed'
    BY <1>1, EndTrxIs
  <2> QED BY <1>1, <1>2, <1>3, <2>1
<1>6. \A x : x.id = l /\ x.what \in {"ok", "end", "eof"} => Truthful(c, x, sent[c], failed', committed')
  <2> SUFFICES ASSUME NEW x, x.id = l, x.what \in {"ok", "end", "eof"} PROVE Truthful(c, x, sent[c], G, committed')
    OBVIOUS
  <2>1. sent[c][l].stmt # "syntax" /\ x.what # "fail"
    BY <1>3
  <2> QED BY <1>4, <1>5, <2>1 DEF Truthful
<1>7. CASE wk[w].req.stmt = "change"
  <2>1. \A x : x.id = wk[w].req.id /\ x.what = (IF TRUE THEN "ok" ELSE "fail") => Truthful(c, x, sent[c], failed', committed')
    BY <1>3, <1>6
  <2>2. PICK rc \in BOOLEAN : rc
    OBVIOUS
  <2>3. PICK F, C : F = failed' /\ C = committed'
    OBVIOUS
  <2>4. \A x : x.id = wk[w].req.id /\ x.what = (IF rc THEN "ok" ELSE "fail") => Truthful(c, x, sent[c], F, C)
    BY <2>1, <2>2, <2>3
  <2>5. Own(c, State(w, rc)) /\ OutRight(c, sent[c], State(w, rc), F, C)
    BY <1>1, <2>4, StateRight
  <2>6. end = State(w, rc)
    BY <1>7, <2>2 DEF State
  <2> QED BY <2>3, <2>5, <2>6
<1>8. CASE wk[w].req.stmt # "change"
  <2>1. PICK x : x = Part(c, wk[w].req, what)
    OBVIOUS
  <2>2. x \in PartSet /\ x.id = l /\ x.what = what
    BY <1>1, <1>3, <2>1 DEF Part, PartSet, Requests, Terminators
  <2>3. OutRight(c, sent[c], <<x>>, failed', committed')
    BY <1>2, <1>3, <1>6, <2>2, OneRight
  <2>4. Own(c, <<Part(c, wk[w].req, what)>>)
    BY <1>1, OnePart DEF Answer, Terminators
  <2> QED BY <1>8, <2>1, <2>3, <2>4
<1> QED BY <1>7, <1>8

\* Columns and rows say nothing that could be false.
LEMMA RowsLed ==
  ASSUME NEW c \in Clients, NEW req \in Requests, NEW s, Current(s, req)
  PROVE  /\ Own(c, Rows(c, req)) /\ Led(s, Rows(c, req))
         /\ Own(c, ColumnDefinition(c, req)) /\ Led(s, ColumnDefinition(c, req))
<1>1. ASSUME NEW what \in {"cols", "row"} PROVE Led(s, <<Part(c, req, what)>>)
  <2>1. PICK x, p : x = Part(c, req, what) /\ p = <<x>>
    OBVIOUS
  <2>2. Len(p) = 1 /\ p[1] = x /\ x.id = Len(s) /\ x.what = what
    BY <2>1 DEF Part, Current
  <2>3. Led(s, p)
    BY <2>2 DEF Led
  <2> QED BY <2>1, <2>3
<1>2. Led(s, <<>>)
  BY DEF Led
<1>3. Led(s, Rows(c, req)) /\ Led(s, ColumnDefinition(c, req))
  BY <1>1, <1>2 DEF Rows, ColumnDefinition
<1> QED BY <1>3, RowsUnended DEF Unended

LEMMA LedOwn ==
  \A c, s, o, p, F, C : Own(c, o) /\ Led(s, o) /\ Own(c, p) /\ Len(s) > 0 =>
    /\ Own(c, o \o p)
    /\ Led(s, p) => Led(s, o \o p)
    /\ OutRight(c, s, p, F, C) => OutRight(c, s, o \o p, F, C)
<1> SUFFICES ASSUME NEW c, NEW s, NEW o, NEW p, NEW F, NEW C, Own(c, o), Led(s, o), Own(c, p), Len(s) > 0
             PROVE  /\ Own(c, o \o p)
                    /\ Led(s, p) => Led(s, o \o p)
                    /\ OutRight(c, s, p, F, C) => OutRight(c, s, o \o p, F, C)
  OBVIOUS
<1>1. o \in Seq(PartSet) /\ p \in Seq(PartSet)
  BY DEF Own
<1> QED BY <1>1, OwnConcat, LedConcat

LEMMA SendRowsPlainRight ==
  ASSUME IInv, IInv', AnswerInv, NEW w \in Workers, SendRowsPlain(w)
  PROVE  AnswerInv'
<1>1. PICK c, req, end : c = wk[w].c /\ req = wk[w].req
                         /\ end = IF req.stmt = "change" THEN State(w, TRUE) ELSE <<Part(c, req, "end")>>
  OBVIOUS
<1>2. /\ wk[w].pc = "rows" /\ Usable(c)
      /\ \/ /\ EndTrx(c) /\ failed' = failed
            /\ Buffered(c, Rows(c, req) \o end) /\ SetW(w, [wk[w] EXCEPT !.pc = "debug"])
         \/ /\ EndTrx(c) /\ failed' = failed \cup {<<c, req.id>>}
            /\ Buffered(c, State(w, FALSE)) /\ SetW(w, [wk[w] EXCEPT !.pc = "debug"])
         \/ /\ WriteFails(c) /\ UNCHANGED <<out, got>> /\ failed' = failed
            /\ EndTrx(c) \/ UNCHANGED <<session, committed>>
            /\ SetW(w, [wk[w] EXCEPT !.pc = "flush", !.drop = TRUE])
      /\ UNCHANGED <<net, queue, sent, hasty, authed>>
  BY <1>1 DEF SendRowsPlain
<1>3. c \in Clients /\ req \in Requests
  BY <1>1, <1>2, Worker
<1>4. CASE /\ EndTrx(c) /\ failed' = failed
           /\ Buffered(c, Rows(c, req) \o end) /\ SetW(w, [wk[w] EXCEPT !.pc = "debug"])
  <2>1. PICK p : p = Rows(c, req) \o end
    OBVIOUS
  <2>2. \A d \in Clients : d # c => /\ session'[d] = session[d]
                                    /\ SameOf(d, failed, failed') /\ SameOf(d, committed, committed')
    BY <1>1, <1>2, <1>4, EndRan
  <2>3. ASSUME c \notin hasty
        PROVE  /\ Own(c, p) /\ OutRight(c, sent[c], p, failed', committed')
               /\ Ran(c, sent[c], session[c], session'[c], failed, failed', committed, committed')
    <3>1. Ran(c, sent[c], session[c], session'[c], failed, failed', committed, committed')
      BY <1>1, <1>2, <1>4, <2>3, EndRan
    <3>2. Current(sent[c], req) /\ Len(sent[c]) > 0
      BY <1>1, <1>2, <2>3, AtAnswer DEF Current
    <3>3. Own(c, end) /\ OutRight(c, sent[c], end, failed', committed')
      BY <1>1, <1>2, <1>4, <2>3, EndRight
    <3>4. Own(c, Rows(c, req)) /\ Led(sent[c], Rows(c, req))
      BY <1>3, <3>2, RowsLed
    <3> QED BY <2>1, <3>1, <3>2, <3>3, <3>4, LedOwn
  <2>4. Buffered(c, p) /\ SetW(w, [wk[w] EXCEPT !.pc = "debug"])
    BY <1>4, <2>1
  <2> QED BY <1>1, <1>2, <2>2, <2>3, <2>4, AnswerRight
<1>5. CASE /\ EndTrx(c) /\ failed' = failed \cup {<<c, req.id>>}
           /\ Buffered(c, State(w, FALSE)) /\ SetW(w, [wk[w] EXCEPT !.pc = "debug"])
  <2>1. PICK rc \in BOOLEAN : ~rc
    OBVIOUS
  <2>2. PICK p, i, G : p = State(w, rc) /\ i = req.id /\ G = failed \cup {<<c, i>>}
    OBVIOUS
  <2>3. Buffered(c, p) /\ SetW(w, [wk[w] EXCEPT !.pc = "debug"]) /\ failed' = G
    BY <1>5, <2>1, <2>2 DEF State
  <2>4. \A d \in Clients : d # c => /\ session'[d] = session[d]
                                    /\ SameOf(d, failed, failed') /\ SameOf(d, committed, committed')
    BY <1>1, <1>2, <1>5, <2>2, <2>3, EndRan
  <2>5. ASSUME c \notin hasty
        PROVE  /\ Own(c, p) /\ OutRight(c, sent[c], p, failed', committed')
               /\ Ran(c, sent[c], session[c], session'[c], failed, failed', committed, committed')
    <3>1. Ran(c, sent[c], session[c], session'[c], failed, failed', committed, committed')
      BY <1>1, <1>2, <1>5, <2>2, <2>3, <2>5, EndRan
    <3>2. Current(sent[c], req)
      BY <1>1, <1>2, <2>5, AtAnswer
    <3>3. PICK C : C = committed'
      OBVIOUS
    <3>4. \A x : x.id = wk[w].req.id /\ x.what = (IF rc THEN "ok" ELSE "fail") => Truthful(c, x, sent[c], G, C)
      BY <1>1, <2>1, <2>2 DEF Truthful
    <3>5. Own(c, p) /\ OutRight(c, sent[c], p, G, C)
      BY <1>1, <1>2, <2>2, <3>2, <3>4, StateRight
    <3> QED BY <2>3, <3>1, <3>3, <3>5
  <2> QED BY <1>1, <1>2, <2>3, <2>4, <2>5, AnswerRight
<1>6. CASE /\ WriteFails(c) /\ UNCHANGED <<out, got>> /\ failed' = failed
           /\ EndTrx(c) \/ UNCHANGED <<session, committed>>
           /\ SetW(w, [wk[w] EXCEPT !.pc = "flush", !.drop = TRUE])
  <2>1. c \in hasty
    BY <1>1, <1>2, <1>6, AtAnswer DEF WriteFails
  <2>2. \A d \in Clients : d # c => /\ session'[d] = session[d]
                                    /\ SameOf(d, failed, failed') /\ SameOf(d, committed, committed')
    <3>1. CASE EndTrx(c)
      BY <1>1, <1>2, <1>6, <3>1, EndRan
    <3>2. CASE UNCHANGED <<session, committed>>
      BY <1>6, <3>2, SameAll
    <3> QED BY <1>6, <3>1, <3>2
  <2>3. PICK p : p = <<>>
    OBVIOUS
  <2>4. /\ WriteFails(c) /\ UNCHANGED <<out, got>>
        /\ \E b \in BOOLEAN : SetW(w, [wk[w] EXCEPT !.pc = "flush", !.drop = b])
    BY <1>6
  <2> QED BY <1>1, <1>2, <2>1, <2>2, <2>4, AnswerRight
<1> QED BY <1>2, <1>4, <1>5, <1>6

LEMMA SendRowsMysqlRight ==
  ASSUME IInv, IInv', AnswerInv, NEW w \in Workers, SendRowsMysql(w)
  PROVE  AnswerInv'
<1>1. PICK c, req, end : c = wk[w].c /\ req = wk[w].req
                         /\ end = IF req.stmt = "change" THEN State(w, TRUE) ELSE <<Part(c, req, "eof")>>
  OBVIOUS
<1>2. PICK i, cols, rows : i = req.id /\ cols = ColumnDefinition(c, req) /\ rows = Rows(c, req)
  OBVIOUS
<1>3. /\ wk[w].pc = "rows" /\ Usable(c) /\ c \in Mysql /\ EndTrx(c)
      /\ \/ /\ failed' = failed
            /\ Buffered(c, cols \o rows \o end) /\ SetW(w, [wk[w] EXCEPT !.pc = "debug"])
         \/ /\ failed' = failed \cup {<<c, i>>}
            /\ Buffered(c, cols \o end) /\ SetW(w, [wk[w] EXCEPT !.pc = "debug"])
         \/ /\ WriteFails(c) /\ UNCHANGED <<out, got>> /\ failed' = failed
            /\ SetW(w, [wk[w] EXCEPT !.pc = "flush", !.drop = req.stmt # "change"])
      /\ UNCHANGED <<net, queue, sent, hasty, authed>>
  BY <1>1, <1>2 DEF SendRowsMysql
<1>4. PICK G : failed' = G /\ (G = failed \/ G = failed \cup {<<c, i>>})
  BY <1>3
<1>5. c \in Clients /\ req \in Requests /\ i = wk[w].req.id
  BY <1>1, <1>2, <1>3, Worker
<1>6. \A d \in Clients : d # c => /\ session'[d] = session[d]
                                  /\ SameOf(d, failed, failed') /\ SameOf(d, committed, committed')
  BY <1>1, <1>3, <1>4, <1>5, EndRan
<1>7. ASSUME c \notin hasty
      PROVE  /\ Ran(c, sent[c], session[c], session'[c], failed, failed', committed, committed')
             /\ Own(c, cols \o rows \o end) /\ OutRight(c, sent[c], cols \o rows \o end, failed', committed')
             /\ Own(c, cols \o end) /\ OutRight(c, sent[c], cols \o end, failed', committed')
  <2>1. Ran(c, sent[c], session[c], session'[c], failed, failed', committed, committed')
    BY <1>1, <1>3, <1>4, <1>5, <1>7, EndRan
  <2>2. Current(sent[c], req) /\ Len(sent[c]) > 0
    BY <1>1, <1>3, <1>7, AtAnswer DEF Current
  <2>3. Own(c, end) /\ OutRight(c, sent[c], end, failed', committed')
    <3>1. G = failed \/ (c \in Mysql /\ G = failed \cup {<<c, wk[w].req.id>>})
      BY <1>3, <1>4, <1>5
    <3> QED BY <1>1, <1>3, <1>4, <1>7, <3>1, EndRight
  <2>4. Own(c, rows) /\ Led(sent[c], rows) /\ Own(c, cols) /\ Led(sent[c], cols)
    BY <1>2, <1>5, <2>2, RowsLed
  <2>5. Own(c, cols \o rows) /\ Led(sent[c], cols \o rows)
    BY <2>2, <2>4, LedOwn
  <2> QED BY <2>1, <2>2, <2>3, <2>4, <2>5, LedOwn
<1>8. PICK p : /\ c \notin hasty => Own(c, p) /\ OutRight(c, sent[c], p, failed', committed')
               /\ \/ Buffered(c, p) /\ SetW(w, [wk[w] EXCEPT !.pc = "debug"])
                  \/ /\ WriteFails(c) /\ UNCHANGED <<out, got>>
                     /\ \E b \in BOOLEAN : SetW(w, [wk[w] EXCEPT !.pc = "flush", !.drop = b])
  <2>1. CASE Buffered(c, cols \o rows \o end) /\ SetW(w, [wk[w] EXCEPT !.pc = "debug"])
    BY <1>7, <2>1
  <2>2. CASE Buffered(c, cols \o end) /\ SetW(w, [wk[w] EXCEPT !.pc = "debug"])
    BY <1>7, <2>2
  <2>3. CASE /\ WriteFails(c) /\ UNCHANGED <<out, got>>
             /\ SetW(w, [wk[w] EXCEPT !.pc = "flush", !.drop = req.stmt # "change"])
    <3>1. (req.stmt # "change") \in BOOLEAN
      OBVIOUS
    <3>2. \E b \in BOOLEAN : SetW(w, [wk[w] EXCEPT !.pc = "flush", !.drop = b])
      BY <2>3, <3>1, Zenon
    <3> QED BY <1>7, <2>3, <3>2
  <2> QED BY <1>3, <2>1, <2>2, <2>3
<1>9. UNCHANGED <<net, queue, sent, hasty, authed>>
  BY <1>3
<1>10. c \notin hasty => /\ Own(c, p)
                         /\ Ran(c, sent[c], session[c], session'[c], failed, failed', committed, committed')
                         /\ OutRight(c, sent[c], p, failed', committed')
  BY <1>7, <1>8
<1>11. wk[w].pc \in {"open", "rows"} /\ Usable(c)
  BY <1>3
<1> QED BY <1>1, <1>6, <1>8, <1>9, <1>10, <1>11, AnswerRight

LEMMA WriteDebugRight ==
  ASSUME IInv, IInv', AnswerInv, NEW w \in Workers, WriteDebug(w)
  PROVE  AnswerInv'
<1>1. PICK c, x : c = wk[w].c /\ x = Part(c, wk[w].req, "debug")
  OBVIOUS
<1>2. /\ wk[w].pc = "debug" /\ Usable(c)
      /\ UNCHANGED <<session, authed, net, queue, sent, committed, failed, hasty>>
      /\ \/ Buffered(c, <<x>>) /\ SetW(w, [wk[w] EXCEPT !.pc = "flush"])
         \/ WriteFails(c) /\ UNCHANGED <<out, got>> /\ SetW(w, [wk[w] EXCEPT !.pc = "flush", !.drop = TRUE])
         \/ SetW(w, [wk[w] EXCEPT !.pc = "flush"]) /\ UNCHANGED <<out, got>>
  BY <1>1 DEF WriteDebug
<1>3. /\ c \in Clients /\ wk[w].req \in Requests /\ wk[w] \in WkSet
      /\ wk[w].pc \in Served \ {"sql"} /\ wk[w].pc # "idle"
  BY <1>1, <1>2, Worker DEF Served
<1>4. PICK r : wk' = [wk EXCEPT ![w] = r] /\ r.pc = "flush" /\ r.c = c /\ r.req = wk[w].req
  <2>1. CASE SetW(w, [wk[w] EXCEPT !.pc = "flush"])
    <3>1. PICK r : r = [wk[w] EXCEPT !.pc = "flush"]
      OBVIOUS
    <3>2. r.pc = "flush" /\ r.c = c /\ r.req = wk[w].req
      BY <1>1, <1>3, <3>1 DEF WkSet
    <3> QED BY <2>1, <3>1, <3>2 DEF SetW
  <2>2. CASE SetW(w, [wk[w] EXCEPT !.pc = "flush", !.drop = TRUE])
    <3>1. PICK r : r = [wk[w] EXCEPT !.pc = "flush", !.drop = TRUE]
      OBVIOUS
    <3>2. r.pc = "flush" /\ r.c = c /\ r.req = wk[w].req
      BY <1>1, <1>3, <3>1 DEF WkSet
    <3> QED BY <2>2, <3>1, <3>2 DEF SetW
  <2> QED BY <1>2, <2>1, <2>2
<1>5. Serves(r, c) /\ r.pc # "sql"
  BY <1>4 DEF Serves, Served
<1>6. got' = got /\ \A d \in Clients : d # c => out'[d] = out[d]
  <2>1. out' = out \/ out' = [out EXCEPT ![c] = @ \o <<x>>]
    BY <1>2 DEF Buffered
  <2>2. got' = got
    BY <1>2 DEF Buffered
  <2> QED BY <2>1, <2>2 DEF IInv, TypeInv
<1>7. \A d \in Clients : d # c => /\ session'[d] = session[d] /\ out'[d] = out[d]
                                  /\ SameOf(d, failed, failed') /\ SameOf(d, committed, committed')
  BY <1>2, <1>6, SameAll
<1>8. ASSUME c \notin hasty
      PROVE  /\ Ran(c, sent[c], session[c], session'[c], failed, failed', committed, committed')
             /\ Phase(c, r, session'[c], failed')
             /\ OutRight(c, sent[c], out'[c], failed', committed')
  <2>1. Current(sent[c], wk[w].req) /\ RightNow(c)
    BY <1>1, <1>3, <1>8, AtWork
  <2>2. session[c] \in Sessions /\ OutRight(c, sent[c], out[c], failed, committed)
    BY <2>1 DEF RightNow, Right
  <2>3. Ran(c, sent[c], session[c], session'[c], failed, failed', committed, committed')
    BY <1>2, <2>2 DEF Ran
  <2>4. Phase(c, r, session'[c], failed')
    BY <1>4 DEF Phase
  <2>5. OutRight(c, sent[c], out'[c], failed', committed')
    <3>1. CASE out' = out
      BY <1>2, <2>2, <3>1
    <3>2. CASE out' = [out EXCEPT ![c] = @ \o <<x>>]
      <4>1. out'[c] = out[c] \o <<x>> /\ out[c] \in Seq(PartSet)
        BY <1>3, <3>2 DEF IInv, TypeInv
      <4>2. x \in PartSet /\ x.id = wk[w].req.id /\ x.what = "debug"
        BY <1>1, <1>3 DEF Part, PartSet, Requests
      <4>3. Len(sent[c]) > 0 /\ x.id = Len(sent[c])
        BY <2>1, <4>2 DEF Current
      <4>4. OutRight(c, sent[c], out[c] \o <<x>>, failed, committed)
        BY <2>2, <4>1, <4>2, <4>3, DebugLast
      <4> QED BY <1>2, <4>1, <4>4
    <3> QED BY <1>2, <3>1, <3>2 DEF Buffered
  <2> QED BY <2>3, <2>4, <2>5
<1>9. UNCHANGED <<net, queue, sent, hasty, authed, got>>
  BY <1>2, <1>6
<1> QED BY <1>1, <1>3, <1>4, <1>5, <1>7, <1>8, <1>9, WorkerRight

-----------------------------------------------------------------------------
(* An answer goes out                                                      *)

LEMMA FlushParts ==
  ASSUME IInv, NEW c \in Clients, comm[c] # "none", NEW p, Own(c, p), Flush(c, p)
  PROVE  /\ \A d \in Clients : d # c => out'[d] = out[d] /\ Strayed(d, got[d], got'[d])
         /\ CanWrite(c) /\ owner[fd[c]] = c => out'[c] = <<>> /\ got'[c] = got[c] \o p
         /\ p = <<>> => out'[c] = <<>> /\ got'[c] = got[c]
<1> USE ServerAssumption
<1>1. /\ out \in [Clients -> Seq(PartSet)] /\ got \in [Clients \cup {"file"} -> Seq(PartSet)]
      /\ DOMAIN got = Clients \cup {"file"} /\ p \in Seq(PartSet) /\ \A i \in 1 .. Len(p) : p[i].c = c
  BY DEF IInv, TypeInv, Own
<1>2. PICK x : x = owner[fd[c]]
  OBVIOUS
<1>3. CASE ~CanWrite(c)
  <2>1. out' = [out EXCEPT ![c] = p] /\ got' = got
    BY <1>3 DEF Flush
  <2>2. out'[c] = p /\ \A d \in Clients : d # c => out'[d] = out[d]
    BY <1>1, <2>1
  <2> QED BY <1>3, <2>1, <2>2, SameAll
<1>4. CASE CanWrite(c)
  <2>1. /\ out' = [out EXCEPT ![c] = <<>>]
        /\ got' = [y \in DOMAIN got |-> IF y = x THEN got[y] \o p ELSE got[y]]
    BY <1>2, <1>4 DEF Flush, Reaches
  <2>2. out'[c] = <<>> /\ \A d \in Clients : d # c => out'[d] = out[d]
    BY <1>1, <2>1
  <2>3. \A d \in Clients : got'[d] = IF d = x THEN got[d] \o p ELSE got[d]
    BY <1>1, <2>1
  <2>4. ASSUME NEW d \in Clients, d # c PROVE Strayed(d, got[d], got'[d])
    <3>1. \A i \in 1 .. Len(p) : p[i].c # d
      BY <1>1, <2>4
    <3> QED BY <1>1, <2>3, <3>1 DEF Strayed
  <2>5. p = <<>> => got[c] \o p = got[c]
    BY <1>1, ConcatEmptySeq
  <2> QED BY <1>2, <2>2, <2>3, <2>4, <2>5
<1> QED BY <1>3, <1>4

\* The answer to the last request follows the answers to those before it.
LEMMA ToldMore ==
  \A c, s, g, o, P, H, F, C :
    /\ s \in SentSet /\ Len(s) > 0 /\ g \in Seq(PartSet) /\ o \in Seq(PartSet)
    /\ ToldRight(c, s, g, P, H, F, C) /\ (P # {} \/ H # {}) /\ OutRight(c, s, o, F, C)
    => ToldRight(c, s, g \o o, {}, {}, F, C)
<1> SUFFICES ASSUME NEW c, NEW s, NEW g, NEW o, NEW P, NEW H, NEW F, NEW C,
                    s \in SentSet, Len(s) > 0, g \in Seq(PartSet), o \in Seq(PartSet),
                    ToldRight(c, s, g, P, H, F, C), P # {} \/ H # {}, OutRight(c, s, o, F, C)
             PROVE  ToldRight(c, s, g \o o, {}, {}, F, C)
  OBVIOUS
<1>0. PICK h : h = g \o o
  OBVIOUS
<1>1. PICK l : l = Len(s) /\ l \in Nat \ {0}
  BY DEF SentSet
<1>2. Told(s, P, H) = l - 1 /\ Told(s, {}, {}) = l
  BY <1>1 DEF Told
<1>3. /\ Len(g) \in Nat
      /\ \A i \in 1 .. Len(h) : \/ i \in 1 .. Len(g) /\ h[i] = g[i]
                                \/ i - Len(g) \in 1 .. Len(o) /\ h[i] = o[i - Len(g)]
  BY <1>0, Concat
<1>4. \A i \in 1 .. Len(g) : g[i].c = c => g[i].id \in 1 .. l - 1 /\ Truthful(c, g[i], s, F, C)
  BY <1>2 DEF ToldRight
<1>5. \A i \in 1 .. Len(o) : o[i].id = l /\ Truthful(c, o[i], s, F, C)
  BY <1>1 DEF OutRight
<1>6. ASSUME NEW i \in 1 .. Len(h), h[i].c = c
      PROVE  h[i].id \in 1 .. l /\ Truthful(c, h[i], s, F, C)
  <2>1. CASE i \in 1 .. Len(g) /\ h[i] = g[i]
    BY <1>1, <1>4, <1>6, <2>1
  <2>2. CASE i - Len(g) \in 1 .. Len(o) /\ h[i] = o[i - Len(g)]
    BY <1>1, <1>5, <2>2
  <2> QED BY <1>3, <2>1, <2>2
<1>7. ASSUME NEW i \in 1 .. Len(h), NEW j \in 1 .. Len(h), i < j, h[i].c = c, h[j].c = c
      PROVE  /\ h[i].id <= h[j].id
             /\ h[i].what \in Terminators /\ h[j].what # "debug" => h[i].id < h[j].id
  <2>1. CASE j \in 1 .. Len(g) /\ h[j] = g[j]
    <3>1. i \in 1 .. Len(g) /\ h[i] = g[i]
      BY <1>3, <1>7, <2>1
    <3>2. InOrder(c, g)
      BY DEF ToldRight
    <3> QED BY <1>7, <2>1, <3>1, <3>2 DEF InOrder
  <2>2. CASE j - Len(g) \in 1 .. Len(o) /\ h[j] = o[j - Len(g)]
    <3>1. h[j].id = l
      BY <1>5, <2>2
    <3>2. CASE i \in 1 .. Len(g) /\ h[i] = g[i]
      BY <1>1, <1>4, <1>7, <3>1, <3>2
    <3>3. CASE i - Len(g) \in 1 .. Len(o) /\ h[i] = o[i - Len(g)]
      <4>1. i - Len(g) < j - Len(g) /\ h[i].id = l
        BY <1>3, <1>5, <1>7, <2>2, <3>3
      <4>2. h[i].what \in Terminators => h[j].what = "debug"
        BY <2>2, <3>3, <4>1 DEF OutRight
      <4> QED BY <1>1, <3>1, <4>1, <4>2
    <3> QED BY <1>3, <3>2, <3>3
  <2> QED BY <1>3, <2>1, <2>2
<1>8. ToldRight(c, s, h, {}, {}, F, C)
  BY <1>2, <1>6, <1>7 DEF ToldRight, InOrder
<1> QED BY <1>0, <1>8

\* The worker that has served a client leaves it without a request.
LEMMA LeavesNone ==
  \A c, cm, o, n, e, l, q, k, m, w :
    /\ ClientOK(c, cm, o, n, e, l, q, k) /\ w \in Workers /\ Serves(k[w], c) /\ ~Serves(m[w], c)
    /\ \A v \in Workers : v # w => m[v] = k[v]
    => PendingOf(c, n, q, m) = {} /\ RunningOf(c, m) = {}
<1> SUFFICES ASSUME NEW c, NEW cm, NEW o, NEW n, NEW e, NEW l, NEW q, NEW k, NEW m, NEW w,
                    ClientOK(c, cm, o, n, e, l, q, k), w \in Workers, Serves(k[w], c), ~Serves(m[w], c),
                    \A v \in Workers : v # w => m[v] = k[v]
             PROVE  PendingOf(c, n, q, m) = {} /\ RunningOf(c, m) = {}
  OBVIOUS
<1>1. n.reqs = <<>> /\ ~InQueue(q, c) /\ \A v \in Workers : Serves(k[v], c) => v = w
  BY DEF ClientOK, OneRequest
<1>2. \A v \in Workers : ~Serves(m[v], c)
  BY <1>1
<1>3. ~Busy(c, n, q, m)
  BY <1>1, <1>2 DEF Busy
<1> QED BY <1>3, NoneOpen

LEMMA FlushResultRight ==
  ASSUME IInv, IInv', AnswerInv, NEW w \in Workers, FlushResult(w)
  PROVE  AnswerInv'
<1>1. PICK c, o : c = wk[w].c /\ o = out[c]
  OBVIOUS
<1>2. /\ wk[w].pc = "flush" /\ Usable(c) /\ Flush(c, o)
      /\ SetW(w, [wk[w] EXCEPT !.pc = IF wk[w].drop THEN "close" ELSE "finish"])
      /\ UNCHANGED <<session, authed, net, queue, sent, committed, failed, hasty>>
  BY <1>1 DEF FlushResult
<1>3. c \in Clients /\ wk[w] \in WkSet /\ wk[w].pc \in Served /\ comm[c] # "none" /\ Serves(wk[w], c)
  BY <1>1, <1>2, Worker DEF Served, Usable, Serves
<1>4. PICK r : wk' = [wk EXCEPT ![w] = r] /\ r.pc \notin Served
  <2>1. PICK r : r = [wk[w] EXCEPT !.pc = IF wk[w].drop THEN "close" ELSE "finish"]
    OBVIOUS
  <2>2. r.pc \in {"close", "finish"}
    BY <1>3, <2>1 DEF WkSet
  <2> QED BY <1>2, <2>1, <2>2 DEF SetW, Served
<1>5. wk'[w] = r /\ (\A v \in Workers : v # w => wk'[v] = wk[v]) /\ \A d \in Clients : d # c => SameServed(wk, wk', d)
  <2>1. wk' = [wk EXCEPT ![w] = r] /\ wk = [v \in Workers |-> wk[v]]
    BY <1>4 DEF IInv, TypeInv
  <2>2. \A d : d # c => SameServed(wk, wk', d)
    BY <1>3, <1>4, <2>1, WorkerServed
  <2> QED BY <2>1, <2>2
<1>6. Own(c, o)
  BY <1>1, <1>3, Held
<1>7. \A d \in Clients : d # c => Untouched(d)
  <2>1. \A d \in Clients : d # c => out'[d] = out[d] /\ Strayed(d, got[d], got'[d])
    BY <1>2, <1>3, <1>6, FlushParts
  <2> QED BY <1>2, <1>5, <2>1, SameAll DEF Untouched
<1>8. ASSUME c \in Clients \ hasty' PROVE RightNow(c)'
  <2>1. c \notin hasty
    BY <1>2, <1>8
  <2>2. CanWrite(c) /\ owner[fd[c]] = c
    BY <1>1, <1>2, <1>3, <2>1, Reachable
  <2>3. out'[c] = <<>> /\ got'[c] = got[c] \o o
    BY <1>2, <1>3, <1>6, <2>2, FlushParts
  <2>4. sent[c] \in SentSet /\ Current(sent[c], wk[w].req) /\ OpenAt(c, net[c], queue, wk, w) /\ RightNow(c)
    BY <1>1, <1>3, <2>1, AtWork
  <2>5. Pending(c) = {} /\ Running(c) = {wk[w]}
    BY <1>2, <2>4 DEF OpenAt, Pending, Running
  <2>6. Pending(c)' = {} /\ Running(c)' = {}
    <3>1. ClientOK(c, comm[c], out[c], net[c], EndCount(c), Len(sent[c]), queue, wk)
      BY <1>3, <2>1 DEF IInv, ClientInv, Fits
    <3>2. ~Serves(wk'[w], c)
      BY <1>4, <1>5 DEF Serves
    <3>3. PICK m : m = wk'
      OBVIOUS
    <3>4. PendingOf(c, net[c], queue, m) = {} /\ RunningOf(c, m) = {}
      BY <1>3, <1>5, <3>1, <3>2, <3>3, LeavesNone
    <3> QED BY <1>2, <3>3, <3>4 DEF Pending, Running
  <2>7. PICK s, g, v, a, n, F, C : s = sent[c] /\ g = got[c] /\ v = session[c] /\ a = authed[c] /\ n = net[c]
                                   /\ F = failed /\ C = committed
    OBVIOUS
  <2>8. Right(c, s, g, o, v, a, n, {}, {wk[w]}, F, C) /\ s \in SentSet /\ Len(s) > 0
    BY <1>1, <2>4, <2>5, <2>7 DEF RightNow, Current
  <2>9. g \in Seq(PartSet) /\ o \in Seq(PartSet)
    BY <1>3, <1>6, <2>7 DEF IInv, TypeInv, Own
  <2>10. ToldRight(c, s, g \o o, {}, {}, F, C)
    <3>1. PICK H : H = {wk[w]} /\ H # {}
      OBVIOUS
    <3>2. ToldRight(c, s, g, {}, H, F, C) /\ OutRight(c, s, o, F, C)
      BY <2>8, <3>1 DEF Right
    <3> QED BY <2>8, <2>9, <3>1, <3>2, ToldMore
  <2>11. OutRight(c, s, <<>>, F, C) /\ HandsRight(c, s, v, {}, {}, F)
    BY DEF OutRight, HandsRight
  <2>12. Right(c, s, g \o o, <<>>, v, a, n, {}, {}, F, C)
    BY <2>8, <2>10, <2>11 DEF Right
  <2> QED BY <1>2, <2>3, <2>6, <2>7, <2>12 DEF RightNow
<1>9. hasty \subseteq hasty'
  BY <1>2
<1> QED BY <1>7, <1>8, <1>9, AnswerStepOf

\* The end of a connection takes the session with it, and nothing that was buffered is
\* left if the client has its answers.
LEMMA FreeRight ==
  \A c, s, g, o, v, a, n, F, C :
    Right(c, s, g, o, v, a, n, {}, {}, F, C) /\ n.closed => Right(c, s, g, <<>>, NoSession, a, n, {}, {}, F, C)
<1> SUFFICES ASSUME NEW c, NEW s, NEW g, NEW o, NEW v, NEW a, NEW n, NEW F, NEW C,
                    Right(c, s, g, o, v, a, n, {}, {}, F, C), n.closed
             PROVE  Right(c, s, g, <<>>, NoSession, a, n, {}, {}, F, C)
  OBVIOUS
<1>1. PICK u : u = NoSession
  OBVIOUS
<1>2. u \in Sessions /\ u.work = {}
  BY <1>1 DEF NoSession, Sessions
<1>3. /\ PastRight(c, s, v, {}, F, C) /\ TrxRight(c, s, v, n.closed, {}, C)
      /\ ToldRight(c, s, g, {}, {}, F, C) /\ LoginRight(c, s, a, n)
  BY DEF Right
<1>4. PastRight(c, s, u, {}, F, C)
  BY <1>2, <1>3 DEF PastRight
<1>5. TrxRight(c, s, u, n.closed, {}, C)
  BY <1>2, <1>3 DEF TrxRight
<1>6. HandsRight(c, s, u, {}, {}, F) /\ OutRight(c, s, <<>>, F, C)
  BY DEF HandsRight, OutRight
<1> QED BY <1>1, <1>2, <1>3, <1>4, <1>5, <1>6 DEF Right

LEMMA FreeRestRight ==
  ASSUME IInv, AnswerInv, NEW c \in Clients, comm[c] # "none", FreeRest(c), c \notin hasty => net[c].closed /\ wk' = wk,
         UNCHANGED <<authed, net, queue, sent, committed, failed, hasty>>,
         \A d \in Clients : SameServed(wk, wk', d)
  PROVE  AnswerInv'
<1>1. session' = [session EXCEPT ![c] = NoSession] /\ Flush(c, out[c])
  BY DEF FreeRest
<1>2. session'[c] = NoSession /\ \A d \in Clients : d # c => session'[d] = session[d]
  BY <1>1 DEF IInv, TypeInv
<1>3. Own(c, out[c])
  BY DEF Own, IInv, TypeInv, OutInv
<1>4. PICK o : o = out[c]
  OBVIOUS
<1>5. /\ \A d \in Clients : d # c => out'[d] = out[d] /\ Strayed(d, got[d], got'[d])
      /\ o = <<>> => out'[c] = <<>> /\ got'[c] = got[c]
  BY <1>1, <1>3, <1>4, FlushParts
<1>6. \A d \in Clients : d # c => Untouched(d)
  BY <1>2, <1>5, SameAll DEF Untouched
<1>7. ASSUME c \in Clients \ hasty' PROVE RightNow(c)'
  <2>1. c \notin hasty /\ RightNow(c) /\ net[c].closed /\ wk' = wk
    BY <1>7 DEF AnswerInv, RightNow
  <2>2. ClientOK(c, comm[c], out[c], net[c], EndCount(c), Len(sent[c]), queue, wk)
    BY <2>1 DEF IInv, ClientInv, Fits
  <2>3. ~Busy(c, net[c], queue, wk)
    BY <2>1, <2>2 DEF ClientOK
  <2>4. out[c] = <<>>
    BY <2>2, <2>3 DEF ClientOK, Undisturbed, Busy, Serves, Served
  <2>5. Pending(c) = {} /\ Running(c) = {}
    BY <2>3, NoneOpen DEF Pending, Running
  <2>6. Pending(c)' = Pending(c) /\ Running(c)' = Running(c)
    BY <2>1 DEF Pending, Running
  <2>7. Right(c, sent[c], got[c], out[c], session[c], authed[c], net[c], {}, {}, failed, committed)
    BY <2>1, <2>5 DEF RightNow
  <2>8. Right(c, sent[c], got[c], <<>>, NoSession, authed[c], net[c], {}, {}, failed, committed)
    BY <2>1, <2>7, FreeRight
  <2> QED BY <1>2, <1>4, <1>5, <2>4, <2>5, <2>6, <2>8 DEF RightNow
<1> QED BY <1>6, <1>7, AnswerStepOf

LEMMA FreesRight ==
  ASSUME IInv, AnswerInv, EvFree \/ \E w \in Workers : WkFree(w)
  PROVE  AnswerInv'
<1>1. CASE EvFree
  <2>1. PICK c : c = ev.c
    OBVIOUS
  <2>2. /\ c \in Clients /\ comm[c] # "none" /\ net[c].closed /\ FreeRest(c)
        /\ UNCHANGED <<authed, net, queue, wk, sent, committed, failed, hasty>>
    BY <1>1, <2>1 DEF EvFree, IInv, EvInv
  <2>3. \A d \in Clients : SameServed(wk, wk', d)
    BY <2>2, SameAll
  <2> QED BY <2>2, <2>3, FreeRestRight
<1>2. ASSUME NEW w \in Workers, WkFree(w) PROVE AnswerInv'
  <2>1. PICK c, r : c = wk[w].c /\ r = [wk[w] EXCEPT !.pc = "finish"]
    OBVIOUS
  <2>2. /\ wk[w].pc = "free" /\ Usable(c) /\ FreeRest(c) /\ wk' = [wk EXCEPT ![w] = r]
        /\ UNCHANGED <<authed, net, queue, sent, committed, failed, hasty>>
    BY <1>2, <2>1 DEF WkFree, SetW
  <2>3. c \in hasty /\ c \in Clients /\ wk[w] \in WkSet /\ comm[c] # "none"
    BY <2>1, <2>2, Hasty DEF Usable
  <2>4. wk[w].pc \notin Served /\ r.pc \notin Served
    BY <2>1, <2>2, <2>3 DEF WkSet, Served
  <2>5. \A d \in Clients : SameServed(wk, wk', d)
    BY <2>2, <2>4, ChangeUnserved
  <2> QED BY <2>2, <2>3, <2>5, FreeRestRight
<1> QED BY <1>1, <1>2

-----------------------------------------------------------------------------
(* The statement that is run next                                          *)

LEMMA OpenedNext ==
  \A s, l : s \in SentSet /\ l = Len(s) /\ l > 0 =>
    (OpenedIn(s, l) <=> s[l].stmt = "begin" \/ (OpenedIn(s, l - 1) /\ s[l].stmt \notin {"commit", "rollback"}))
<1> SUFFICES ASSUME NEW s, NEW l, s \in SentSet, l = Len(s), l > 0
             PROVE  OpenedIn(s, l) <=> s[l].stmt = "begin" \/ (OpenedIn(s, l - 1) /\ s[l].stmt \notin {"commit", "rollback"})
  OBVIOUS
<1>1. l \in Nat \ {0} /\ l \in 1 .. l
  BY DEF SentSet
<1>2. \A i \in 1 .. l : i \in 1 .. l - 1 \/ i = l
  BY <1>1
<1>3. ASSUME s[l].stmt = "begin" PROVE OpenedIn(s, l)
  <2>1. \A j \in l + 1 .. l : FALSE
    BY <1>1
  <2> QED BY <1>1, <1>3, <2>1 DEF OpenedIn
<1>4. ASSUME OpenedIn(s, l - 1), s[l].stmt \notin {"commit", "rollback"} PROVE OpenedIn(s, l)
  <2>1. PICK i \in 1 .. l - 1 : s[i].stmt = "begin" /\ \A j \in i + 1 .. l - 1 : s[j].stmt \notin {"commit", "rollback"}
    BY <1>4 DEF OpenedIn
  <2>2. i \in 1 .. l /\ \A j \in i + 1 .. l : j \in i + 1 .. l - 1 \/ j = l
    BY <1>1
  <2>3. \A j \in i + 1 .. l : s[j].stmt \notin {"commit", "rollback"}
    BY <1>4, <2>1, <2>2
  <2> QED BY <2>1, <2>2, <2>3 DEF OpenedIn
<1>5. ASSUME OpenedIn(s, l), s[l].stmt # "begin"
      PROVE  OpenedIn(s, l - 1) /\ s[l].stmt \notin {"commit", "rollback"}
  <2>1. PICK i \in 1 .. l : s[i].stmt = "begin" /\ \A j \in i + 1 .. l : s[j].stmt \notin {"commit", "rollback"}
    BY <1>5 DEF OpenedIn
  <2>2. i \in 1 .. l - 1 /\ l \in i + 1 .. l /\ \A j \in i + 1 .. l - 1 : j \in i + 1 .. l
    BY <1>1, <1>2, <1>5, <2>1
  <2> QED BY <2>1, <2>2 DEF OpenedIn
<1> QED BY <1>3, <1>4, <1>5

\* A statement that neither opens nor ends a transaction is run.
LEMMA DoneMore ==
  \A c, s, v, x, P, F, C :
    /\ ~x /\ s \in SentSet /\ Len(s) > 0 /\ v \in Sessions /\ P # {} /\ s[Len(s)].stmt \notin {"begin", "commit", "rollback"}
    /\ PastRight(c, s, v, P, F, C) /\ TrxRight(c, s, v, x, P, C)
    => PastRight(c, s, v, {}, F, C) /\ TrxRight(c, s, v, x, {}, C)
<1> SUFFICES ASSUME NEW c, NEW s, NEW v, NEW x, NEW P, NEW F, NEW C,
                    ~x, s \in SentSet, Len(s) > 0, v \in Sessions, P # {}, s[Len(s)].stmt \notin {"begin", "commit", "rollback"},
                    PastRight(c, s, v, P, F, C), TrxRight(c, s, v, x, P, C)
             PROVE  PastRight(c, s, v, {}, F, C) /\ TrxRight(c, s, v, x, {}, C)
  OBVIOUS
<1>1. PICK l : l = Len(s) /\ l \in Nat \ {0}
  BY DEF SentSet
<1>2. Done(s, P) = l - 1 /\ Done(s, {}) = l
  BY <1>1 DEF Done
<1>3. PastRight(c, s, v, {}, F, C)
  BY <1>1, <1>2 DEF PastRight
<1>4. /\ v.multi <=> OpenedIn(s, l - 1)
      /\ \A id \in v.work : (OpenedIn(s, id) => v.multi) /\ \A j \in id .. l - 1 : s[j].stmt # "rollback"
      /\ \A id \in Nat : <<c, id>> \in C /\ OpenedIn(s, id) => AskedIn(s, id)
  BY <1>2 DEF TrxRight
<1>5. v.multi <=> OpenedIn(s, l)
  BY <1>1, <1>4, OpenedNext
<1>6. \A id \in v.work : \A j \in id .. l : s[j].stmt # "rollback"
  <2> SUFFICES ASSUME NEW id \in v.work, NEW j \in id .. l PROVE s[j].stmt # "rollback"
    OBVIOUS
  <2>1. id \in Nat
    BY DEF Sessions
  <2>2. j \in id .. l - 1 \/ j = l
    BY <1>1, <2>1
  <2> QED BY <1>1, <1>4, <2>2
<1> QED BY <1>2, <1>3, <1>4, <1>5, <1>6 DEF TrxRight

-----------------------------------------------------------------------------
(* A request is read                                                       *)

\* What is read is the one request that a client which waits has open.
LEMMA AtRead ==
  ASSUME IInv, AnswerInv, NEW c \in Clients, NEW req, ReadMessage(c, req)
  PROVE  /\ req \in Requests /\ comm[c] # "none" /\ \A d \in Clients : d # c => net'[d] = net[d]
         /\ c \notin hasty =>
              /\ sent[c] \in SentSet /\ Current(sent[c], req) /\ ~net[c].closed /\ out[c] = <<>> /\ RightNow(c)
              /\ Pending(c) = {req} /\ Running(c) = {} /\ CanWrite(c) /\ owner[fd[c]] = c
              /\ net[c].reqs # <<>> /\ net'[c].reqs = <<>> /\ net'[c].closed = net[c].closed /\ net'[c].script = net[c].script
              /\ ~InQueue(queue, c) /\ \A w \in Workers : ~Serves(wk[w], c)
<1>1. comm[c] = "live" /\ req \in Requests /\ net[c].reqs # <<>>
  BY ReadStep
<1>2. PICK n \in Nets : /\ net' = [net EXCEPT ![c] = n] /\ n.closed = net[c].closed
                        /\ c \notin hasty => n.reqs = <<>>
  BY ReadStep
<1>3. net'[c] = n /\ \A d \in Clients : d # c => net'[d] = net[d]
  BY <1>2 DEF IInv, TypeInv
<1>4. req = net[c].reqs[1] /\ \E r : net' = [net EXCEPT ![c].reqs = r]
  BY DEF ReadMessage
<1>5. n.script = net[c].script
  <2>1. PICK r : net' = [net EXCEPT ![c].reqs = r]
    BY <1>4
  <2>2. net'[c] = [net[c] EXCEPT !.reqs = r] /\ net[c] \in Nets
    BY <2>1 DEF IInv, TypeInv
  <2>3. net'[c].script = net[c].script
    BY <2>2 DEF Nets
  <2> QED BY <1>3, <2>3
<1>6. ASSUME c \notin hasty
      PROVE  /\ sent[c] \in SentSet /\ Current(sent[c], req) /\ ~net[c].closed /\ out[c] = <<>> /\ RightNow(c)
             /\ Pending(c) = {req} /\ Running(c) = {} /\ CanWrite(c) /\ owner[fd[c]] = c
             /\ ~InQueue(queue, c) /\ \A w \in Workers : ~Serves(wk[w], c)
  <2>1. ClientOK(c, comm[c], out[c], net[c], EndCount(c), Len(sent[c]), queue, wk)
    BY <1>6 DEF IInv, ClientInv, Fits
  <2>2. out[c] = <<>> /\ ~net[c].closed /\ ~InQueue(queue, c)
    BY <1>1, <1>2, <1>6, <2>1, ReadRequest
  <2>3. \A w \in Workers : ~Serves(wk[w], c)
    BY <1>1, <2>1 DEF ClientOK, OneRequest
  <2>4. Pending(c) = {req} /\ Running(c) = {}
    BY <1>1, <1>4, <2>1, Counts, OnItsWay DEF Pending, Running
  <2>5. RightNow(c) /\ sent[c] \in SentSet
    BY <1>6 DEF AnswerInv, RightNow, IInv, TypeInv, SentSet
  <2>6. Current(sent[c], req)
    BY <2>4, <2>5 DEF RightNow, Right, HandsRight
  <2>7. owner[fd[c]] = c
    BY <1>1 DEF IInv, ConnInv
  <2>8. CanWrite(c)
    BY <2>2, <2>7, ServerAssumption DEF CanWrite, Reaches
  <2> QED BY <2>2, <2>3, <2>4, <2>5, <2>6, <2>7, <2>8
<1> QED BY <1>1, <1>2, <1>3, <1>5, <1>6

\* The event thread answers what it has read, with p.
AnswersAtOnce(c, p) ==
  /\ session'[c] \in Sessions /\ PastRight(c, sent[c], session'[c], {}, failed, committed')
  /\ TrxRight(c, sent[c], session'[c], net[c].closed, {}, committed')
  /\ ToldRight(c, sent[c], got[c], Pending(c), {}, failed, committed')
  /\ OutRight(c, sent[c], p, failed, committed') /\ LoginRight(c, sent[c], authed'[c], net'[c])

LEMMA ReadAnsweredRight ==
  ASSUME IInv, IInv', AnswerInv, NEW c \in Clients, NEW req, ReadMessage(c, req),
         NEW p, Own(c, p), Flush(c, out[c] \o p), UNCHANGED <<queue, wk, sent, failed, hasty>>,
         \A d \in Clients : d # c => session'[d] = session[d] /\ authed'[d] = authed[d] /\ SameOf(d, committed, committed'),
         c \notin hasty => AnswersAtOnce(c, p)
  PROVE  AnswerInv'
<1>1. PICK o : o = out[c] \o p
  OBVIOUS
<1>2. Own(c, out[c])
  BY DEF Own, IInv, TypeInv, OutInv
<1>3. Own(c, o) /\ Flush(c, o)
  BY <1>1, <1>2, OwnConcat
<1>4. comm[c] # "none" /\ \A d \in Clients : d # c => net'[d] = net[d]
  BY AtRead
<1>5. /\ \A d \in Clients : d # c => out'[d] = out[d] /\ Strayed(d, got[d], got'[d])
      /\ CanWrite(c) /\ owner[fd[c]] = c => out'[c] = <<>> /\ got'[c] = got[c] \o o
  BY <1>3, <1>4, FlushParts
<1>6. \A d \in Clients : d # c => Untouched(d)
  BY <1>4, <1>5, SameAll DEF Untouched
<1>7. ASSUME c \in Clients \ hasty' PROVE RightNow(c)'
  <2>1. c \notin hasty
    BY <1>7
  <2>2. /\ sent[c] \in SentSet /\ Current(sent[c], req) /\ out[c] = <<>>
        /\ Pending(c) = {req} /\ CanWrite(c) /\ owner[fd[c]] = c
        /\ net'[c].reqs = <<>> /\ net'[c].closed = net[c].closed
        /\ ~InQueue(queue, c) /\ \A w \in Workers : ~Serves(wk[w], c)
    BY <2>1, AtRead
  <2>3. o = p
    BY <1>1, <2>2, EmptyConcat DEF Own
  <2>4. out'[c] = <<>> /\ got'[c] = got[c] \o p
    BY <1>5, <2>2, <2>3
  <2>5. Pending(c)' = {} /\ Running(c)' = {}
    <3>1. PICK n : n = net'[c]
      OBVIOUS
    <3>2. ~Busy(c, n, queue, wk)
      BY <2>2, <3>1 DEF Busy
    <3>3. PendingOf(c, n, queue, wk) = {} /\ RunningOf(c, wk) = {}
      BY <3>2, NoneOpen
    <3> QED BY <3>1, <3>3 DEF Pending, Running
  <2>6. AnswersAtOnce(c, p)
    BY <2>1
  <2>7. ToldRight(c, sent[c], got[c] \o p, {}, {}, failed, committed')
    <3>1. PICK P, C : P = Pending(c) /\ P # {} /\ C = committed'
      BY <2>2
    <3>2. ToldRight(c, sent[c], got[c], P, {}, failed, C) /\ OutRight(c, sent[c], p, failed, C)
      BY <2>6, <3>1 DEF AnswersAtOnce
    <3>3. Len(sent[c]) > 0 /\ got[c] \in Seq(PartSet) /\ p \in Seq(PartSet)
      BY <2>2 DEF Current, IInv, TypeInv, Own
    <3>4. ToldRight(c, sent[c], got[c] \o p, {}, {}, failed, C)
      BY <2>2, <3>1, <3>2, <3>3, ToldMore
    <3> QED BY <3>1, <3>4
  <2>8. OutRight(c, sent[c], <<>>, failed, committed') /\ HandsRight(c, sent[c], session'[c], {}, {}, failed)
    BY DEF OutRight, HandsRight
  <2>9. Right(c, sent[c], got[c] \o p, <<>>, session'[c], authed'[c], net'[c], {}, {}, failed, committed')
    BY <2>2, <2>6, <2>7, <2>8 DEF Right, AnswersAtOnce
  <2> QED BY <2>4, <2>5, <2>9 DEF RightNow
<1> QED BY <1>6, <1>7, AnswerStepOf

AuthedInv == authed \in [Clients -> BOOLEAN]

LEMMA AuthedStep == AuthedInv /\ [Next]_vars => AuthedInv'
<1> SUFFICES ASSUME AuthedInv, [Next]_vars PROVE AuthedInv'
  OBVIOUS
<1>1. CASE EventThread
  <2>1. ASSUME NEW c \in Clients, Accept(c) \/ Recv(c) \/ ReadVersion(c) \/ ReadQuery(c)
        PROVE  authed' = authed
    BY <2>1 DEF Accept, Recv, ReadVersion, ReadQuery, conns
  <2>2. ASSUME NEW c \in Clients, ReadLogin(c)
        PROVE  authed' = [authed EXCEPT ![c] = TRUE]
    BY <2>2 DEF ReadLogin
  <2>3. ASSUME ReadClosed \/ EvClose \/ EvFree
        PROVE  authed' = authed
    BY <2>3 DEF ReadClosed, EvClose, EvFree, conns
  <2> QED BY <1>1, <2>1, <2>2, <2>3 DEF EventThread, AuthedInv
<1>2. ASSUME NEW w \in Workers, WorkerStep(w)
      PROVE  authed' = authed
  <2>1. CASE TakeEvent(w) \/ HandleSql(w) \/ AnswerState(w) \/ OpenResult(w)
    BY <2>1 DEF TakeEvent, HandleSql, AnswerState, OpenResult, conns
  <2>2. CASE SendRowsPlain(w) \/ SendRowsMysql(w) \/ WriteDebug(w) \/ FlushResult(w)
    BY <2>2 DEF SendRowsPlain, SendRowsMysql, WriteDebug, FlushResult
  <2>3. CASE WkClose(w) \/ WkFree(w) \/ Finish(w) \/ Touch(w)
    BY <2>3 DEF WkClose, WkFree, Finish, Touch, conns
  <2> QED BY <1>2, <2>1, <2>2, <2>3 DEF WorkerStep
<1>3. ASSUME NEW c \in Clients, ClientStep(c)
      PROVE  authed' = authed
  BY <1>3 DEF ClientStep, Send, SendRest, Close, conns
<1>4. CASE UNCHANGED vars
  BY <1>4 DEF vars, conns, AuthedInv
<1> QED BY <1>1, <1>2, <1>3, <1>4 DEF Next, AuthedInv

LEMMA ReadLoginRight ==
  ASSUME IInv, IInv', AuthedInv, AnswerInv, NEW c \in Clients, ReadLogin(c)
  PROVE  AnswerInv'
<1>1. PICK req : ReadMessage(c, req) /\ Flush(c, out[c] \o <<Part(c, req, "login")>>)
  BY DEF ReadLogin
<1>2. PICK x : x = Part(c, req, "login")
  OBVIOUS
<1>3. x \in PartSet /\ x.what = "login" /\ x.id = req.id /\ Own(c, <<x>>)
  BY <1>1, <1>2, AtRead, OnePart DEF Part, PartSet, Requests, Terminators, Answer
<1>4. /\ c \in Mysql /\ ~authed[c] /\ authed' = [authed EXCEPT ![c] = TRUE]
      /\ UNCHANGED <<session, queue, wk, sent, committed, failed, hasty>>
  BY DEF ReadLogin
<1>5. \A d \in Clients : d # c => session'[d] = session[d] /\ authed'[d] = authed[d] /\ SameOf(d, committed, committed')
  BY <1>4, SameAll DEF AuthedInv
<1>6. ASSUME c \notin hasty PROVE AnswersAtOnce(c, <<x>>)
  <2>1. /\ sent[c] \in SentSet /\ Current(sent[c], req) /\ ~net[c].closed /\ RightNow(c)
        /\ Pending(c) = {req} /\ Running(c) = {} /\ net'[c].script = net[c].script
    BY <1>1, <1>6, AtRead
  <2>2. /\ session[c] \in Sessions /\ PastRight(c, sent[c], session[c], Pending(c), failed, committed)
        /\ TrxRight(c, sent[c], session[c], net[c].closed, Pending(c), committed)
        /\ ToldRight(c, sent[c], got[c], Pending(c), {}, failed, committed)
        /\ LoginRight(c, sent[c], authed[c], net[c])
    BY <2>1 DEF RightNow, Right
  <2>3. Len(sent[c]) > 0 /\ sent[c][Len(sent[c])].stmt = "login"
    BY <1>4, <2>1, <2>2 DEF LoginRight, Current
  <2>4. PICK P : P = Pending(c) /\ P # {}
    BY <2>1
  <2>5. PastRight(c, sent[c], session[c], {}, failed, committed) /\ TrxRight(c, sent[c], session[c], net[c].closed, {}, committed)
    BY <2>1, <2>2, <2>3, <2>4, DoneMore
  <2>6. OutRight(c, sent[c], <<x>>, failed, committed)
    <3>1. Truthful(c, x, sent[c], failed, committed) /\ x.id = Len(sent[c])
      BY <1>3, <2>1 DEF Truthful, Current
    <3> QED BY <1>3, <2>3, <3>1, OneRight
  <2>7. LoginRight(c, sent[c], authed'[c], net'[c])
    <3>1. LoginRight(c, sent[c], TRUE, net[c])
      BY <2>2 DEF LoginRight
    <3>2. authed'[c] = TRUE
      BY <1>4 DEF AuthedInv
    <3>3. LoginRight(c, sent[c], authed'[c], net[c])
      BY <3>1, <3>2
    <3> QED BY <2>1, <3>3, <3>2 DEF LoginRight
  <2> QED BY <1>4, <2>2, <2>5, <2>6, <2>7 DEF AnswersAtOnce
<1> QED BY <1>1, <1>2, <1>3, <1>4, <1>5, <1>6, ReadAnsweredRight

LEMMA ReadVersionRight ==
  ASSUME IInv, IInv', AnswerInv, NEW c \in Clients, ReadVersion(c)
  PROVE  AnswerInv'
<1>1. PICK req : /\ ReadMessage(c, req) /\ req.stmt = "version"
                 /\ Flush(c, out[c] \o <<Part(c, req, "cols"), Part(c, req, "row"), Part(c, req, "eof")>>)
  BY DEF ReadVersion
<1>2. PICK x, y, z : x = Part(c, req, "cols") /\ y = Part(c, req, "row") /\ z = Part(c, req, "eof")
  OBVIOUS
<1>3. PICK p : p = <<x, y, z>>
  OBVIOUS
<1>4. /\ x \in PartSet /\ y \in PartSet /\ z \in PartSet /\ x.c = c /\ y.c = c /\ z.c = c
      /\ x.id = req.id /\ y.id = req.id /\ z.id = req.id /\ x.what = "cols" /\ y.what = "row" /\ z.what = "eof"
  BY <1>1, <1>2, AtRead DEF Part, PartSet, Requests, Terminators
<1>5. p \in Seq(PartSet) /\ Len(p) = 3 /\ \A i \in 1 .. 3 : p[i] = IF i = 1 THEN x ELSE IF i = 2 THEN y ELSE z
  BY <1>3, <1>4, Sequence3
<1>6. Own(c, p)
  BY <1>4, <1>5 DEF Own
<1>7. c \in Mysql /\ authed[c] /\ EndTrx(c) /\ UNCHANGED <<authed, queue, wk, sent, failed, hasty>>
  BY DEF ReadVersion
<1>8. \A d \in Clients : d # c => session'[d] = session[d] /\ authed'[d] = authed[d] /\ SameOf(d, committed, committed')
  BY <1>7, EndTrxIs
<1>9. ASSUME c \notin hasty PROVE AnswersAtOnce(c, p)
  <2>1. /\ sent[c] \in SentSet /\ Current(sent[c], req) /\ ~net[c].closed /\ RightNow(c)
        /\ Pending(c) = {req} /\ Running(c) = {} /\ net'[c].script = net[c].script
    BY <1>1, <1>9, AtRead
  <2>2. /\ session[c] \in Sessions /\ PastRight(c, sent[c], session[c], Pending(c), failed, committed)
        /\ TrxRight(c, sent[c], session[c], net[c].closed, Pending(c), committed)
        /\ ToldRight(c, sent[c], got[c], Pending(c), {}, failed, committed)
        /\ LoginRight(c, sent[c], authed[c], net[c])
    BY <2>1 DEF RightNow, Right
  <2>3. PICK l : l = Len(sent[c]) /\ l \in Nat \ {0}
    BY <2>1 DEF Current, SentSet
  <2>4. req.id = l /\ sent[c][l].stmt = "version" /\ Len(sent[c]) > 0
    BY <1>1, <2>1, <2>3 DEF Current
  <2>5. PICK P : P = Pending(c) /\ P # {}
    BY <2>1
  <2>6. PastRight(c, sent[c], session[c], {}, failed, committed) /\ TrxRight(c, sent[c], session[c], net[c].closed, {}, committed)
    BY <2>1, <2>2, <2>3, <2>4, <2>5, DoneMore
  <2>7. Ran(c, sent[c], session[c], session'[c], failed, failed, committed, committed')
    <3>1. /\ session'[c] \in Sessions /\ session'[c].multi = session[c].multi /\ session'[c].work \subseteq session[c].work
          /\ \A id \in Nat : /\ <<c, id>> \in committed => <<c, id>> \in committed'
                             /\ <<c, id>> \in committed' => <<c, id>> \in committed
                                                              \/ (~session[c].multi /\ id \in session[c].work)
      BY <1>7, <2>2, EndTrxIs
    <3> QED BY <3>1 DEF Ran
  <2>8. PICK C : C = committed'
    OBVIOUS
  <2>9. PastRight(c, sent[c], session'[c], {}, failed, C) /\ TrxRight(c, sent[c], session'[c], net[c].closed, {}, C)
    BY <2>1, <2>2, <2>4, <2>6, <2>7, <2>8, RanRight
  <2>10. ToldRight(c, sent[c], got[c], P, {}, failed, C)
    <3>1. PICK H : H = {}
      OBVIOUS
    <3>2. ToldRight(c, sent[c], got[c], P, H, failed, committed)
      BY <2>2, <2>5, <3>1
    <3>3. Ran(c, sent[c], session[c], session'[c], failed, failed, committed, C)
      BY <2>7, <2>8
    <3>4. ToldRight(c, sent[c], got[c], P, H, failed, C)
      BY <2>1, <2>4, <2>5, <3>2, <3>3, RanTold, ZenonT(30)
    <3> QED BY <3>1, <3>4
  <2>11. OutRight(c, sent[c], p, failed, C)
    <3>1. <<c, l>> \notin failed
      <4>1. Done(sent[c], P) = l - 1
        BY <2>3, <2>5 DEF Done
      <4>2. PastRight(c, sent[c], session[c], P, failed, committed)
        BY <2>2, <2>5
      <4> QED BY <2>3, <4>1, <4>2 DEF PastRight
    <3>2. Truthful(c, x, sent[c], failed, C) /\ Truthful(c, y, sent[c], failed, C) /\ Truthful(c, z, sent[c], failed, C)
      BY <1>4, <2>4, <3>1 DEF Truthful
    <3>3. ASSUME NEW i \in 1 .. Len(p) PROVE p[i].id = l /\ Truthful(c, p[i], sent[c], failed, C)
      BY <1>4, <1>5, <2>4, <3>2
    <3>4. ASSUME NEW i \in 1 .. Len(p), NEW j \in 1 .. Len(p), i < j PROVE p[i].what \notin Terminators
      BY <1>4, <1>5, <3>4 DEF Terminators
    <3> QED BY <2>3, <2>4, <3>3, <3>4 DEF OutRight
  <2>12. session'[c] \in Sessions
    BY <2>7 DEF Ran
  <2>13. LoginRight(c, sent[c], authed'[c], net'[c])
    BY <1>7, <2>1, <2>2 DEF LoginRight
  <2> QED BY <2>5, <2>8, <2>9, <2>10, <2>11, <2>12, <2>13 DEF AnswersAtOnce
<1>10. Flush(c, out[c] \o p) /\ UNCHANGED <<queue, wk, sent, failed, hasty>>
  BY <1>1, <1>2, <1>3, <1>7
<1> QED BY <1>1, <1>6, <1>8, <1>9, <1>10, ReadAnsweredRight

\* The requests of d that are in the queue q.
Queued(q, d) == {q[i].req : i \in {j \in 1 .. Len(q) : q[j].c = d}}

LEMMA QueuedOne ==
  \A q, x : q \in Seq(Events) /\ x \in Events =>
    /\ ~InQueue(q, x.c) => Queued(Append(q, x), x.c) = {x.req}
    /\ q # <<>> /\ x = Head(q) /\ Once(q, x.c) => Queued(q, x.c) = {x.req}
<1> SUFFICES ASSUME NEW q, NEW x, q \in Seq(Events), x \in Events
             PROVE  /\ ~InQueue(q, x.c) => Queued(Append(q, x), x.c) = {x.req}
                    /\ q # <<>> /\ x = Head(q) /\ Once(q, x.c) => Queued(q, x.c) = {x.req}
  OBVIOUS
<1>1. PICK r : r = Append(q, x)
  OBVIOUS
<1>2. Len(q) \in Nat /\ Len(r) = Len(q) + 1 /\ r[Len(q) + 1] = x /\ \A i \in 1 .. Len(q) : r[i] = q[i]
  BY <1>1
<1>3. ASSUME ~InQueue(q, x.c) PROVE Queued(r, x.c) = {x.req}
  <2>1. PICK k : k = Len(q) + 1 /\ k \in 1 .. Len(r) /\ r[k] = x
    BY <1>2
  <2>2. \A i \in 1 .. Len(r) : r[i].c = x.c => i = k
    BY <1>2, <1>3, <2>1 DEF InQueue
  <2>3. {j \in 1 .. Len(r) : r[j].c = x.c} = {k}
    BY <2>1, <2>2
  <2> QED BY <2>1, <2>3 DEF Queued
<1>4. ASSUME q # <<>>, x = Head(q), Once(q, x.c)
      PROVE  Queued(q, x.c) = {x.req}
  <2>1. 1 \in 1 .. Len(q) /\ q[1] = x
    BY <1>4
  <2>2. \A i \in 1 .. Len(q) : q[i].c = x.c => i = 1
    BY <1>4, <2>1 DEF Once
  <2>3. {j \in 1 .. Len(q) : q[j].c = x.c} = {1}
    BY <2>1, <2>2
  <2> QED BY <2>1, <2>3 DEF Queued
<1> QED BY <1>1, <1>3, <1>4

LEMMA ReadQueryRight ==
  ASSUME IInv, IInv', AnswerInv, NEW c \in Clients, ReadQuery(c)
  PROVE  AnswerInv'
<1>1. PICK req : ReadMessage(c, req) /\ queue' = Append(queue, [c |-> c, req |-> req])
  BY DEF ReadQuery
<1>2. (c \in Mysql => authed[c]) /\ UNCHANGED <<conns, wk, truth>>
  BY DEF ReadQuery
<1>3. PICK x : x = [c |-> c, req |-> req]
  OBVIOUS
<1>4. req \in Requests /\ \A d \in Clients : d # c => net'[d] = net[d]
  BY <1>1, AtRead
<1>5. x \in Events /\ x.c = c /\ x.req = req /\ queue \in Seq(Events) /\ queue' = Append(queue, x)
  BY <1>1, <1>3, <1>4 DEF Events, IInv, TypeInv
<1>6. \A d \in Clients : d # c => SameQueue(queue, queue', d)
  <2>1. PICK q : q = queue'
    OBVIOUS
  <2>2. \A d : d # c => SameQueue(queue, q, d)
    BY <1>5, <2>1, QueuedElsewhere
  <2> QED BY <2>1, <2>2
<1>7. \A d \in Clients : d # c => Untouched(d)
  BY <1>2, <1>4, <1>6, SameAll DEF Untouched, conns, truth
<1>8. ASSUME c \in Clients \ hasty' PROVE RightNow(c)'
  <2>1. c \notin hasty
    BY <1>2, <1>8 DEF truth
  <2>2. /\ Pending(c) = {req} /\ Running(c) = {} /\ RightNow(c)
        /\ net'[c].reqs = <<>> /\ net'[c].closed = net[c].closed /\ net'[c].script = net[c].script
        /\ ~InQueue(queue, c) /\ \A w \in Workers : ~Serves(wk[w], c)
    BY <1>1, <2>1, AtRead
  <2>3. PICK q, n : q = queue' /\ n = net'[c]
    OBVIOUS
  <2>4. Queued(q, c) = {req}
    BY <1>5, <2>2, <2>3, QueuedOne
  <2>5. SeqRange(n.reqs) = {}
    BY <2>2, <2>3 DEF SeqRange
  <2>6. {v \in Workers : wk[v].c = c /\ wk[v].pc = "sql"} = {}
    BY <2>2 DEF Serves, Served
  <2>7. PendingOf(c, n, q, wk) = {req}
    BY <2>4, <2>5, <2>6 DEF PendingOf, Queued
  <2>8. Pending(c)' = Pending(c) /\ Running(c)' = Running(c)
    BY <1>2, <2>2, <2>3, <2>7 DEF Pending, Running
  <2>9. n.script = net[c].script /\ (net[c].closed => n.closed) /\ (c \in Mysql /\ ~authed[c] /\ net[c].reqs # <<>> => n.reqs # <<>>)
    BY <1>2, <2>2, <2>3
  <2>10. Right(c, sent[c], got[c], out[c], session[c], authed[c], n, Pending(c), Running(c), failed, committed)
    BY <2>2, <2>9, RightMoved DEF RightNow
  <2> QED BY <1>2, <2>3, <2>8, <2>10 DEF RightNow, conns, truth
<1>9. hasty \subseteq hasty'
  BY <1>2 DEF truth
<1> QED BY <1>7, <1>8, <1>9, AnswerStepOf

LEMMA TakeEventRight ==
  ASSUME IInv, IInv', AnswerInv, NEW w \in Workers, TakeEvent(w)
  PROVE  AnswerInv'
<1> USE ServerAssumption
<1>1. PICK x : x = Head(queue)
  OBVIOUS
<1>2. PICK r : r = [WkIdle EXCEPT !.pc = "sql", !.c = x.c, !.req = x.req]
  OBVIOUS
<1>3. /\ wk[w].pc = "idle" /\ queue # <<>> /\ queue' = Tail(queue) /\ wk' = [wk EXCEPT ![w] = r]
      /\ UNCHANGED <<conns, net, truth>>
  BY <1>1, <1>2 DEF TakeEvent, SetW
<1>4. queue \in Seq(Events)
  BY DEF IInv, TypeInv, Events
<1>5. PICK c : c = x.c /\ c \in Clients /\ x \in Events
  BY <1>1, <1>3, <1>4, QueueTail DEF Events
<1>6. r.c = c /\ r.pc = "sql" /\ r.req = x.req
  BY <1>2, <1>5 DEF WkIdle
<1>7. wk'[w] = r /\ \A v \in Workers : v # w => wk'[v] = wk[v]
  BY <1>3 DEF IInv, TypeInv
<1>8. \A d \in Clients : d # c => SameServed(wk, wk', d)
  BY <1>3, <1>6, <1>7 DEF SameServed, Serves, Served
<1>9. \A d \in Clients : d # c => SameQueue(queue, queue', d)
  <2>1. PICK q : q = queue'
    OBVIOUS
  <2>2. \A d : d # c => SameQueue(queue, q, d)
    BY <1>1, <1>3, <1>4, <1>5, <2>1, QueuedElsewhere
  <2> QED BY <2>1, <2>2
<1>10. \A d \in Clients : d # c => Untouched(d)
  BY <1>3, <1>8, <1>9, SameAll DEF Untouched, conns, truth
<1>11. ASSUME c \in Clients \ hasty' PROVE RightNow(c)'
  <2>1. c \notin hasty /\ RightNow(c)
    BY <1>3, <1>11 DEF truth, AnswerInv, RightNow
  <2>2. ClientOK(c, comm[c], out[c], net[c], EndCount(c), Len(sent[c]), queue, wk)
    BY <2>1, <1>5 DEF IInv, ClientInv, Fits
  <2>3. InQueue(queue, c)
    BY <1>1, <1>3, <1>4, <1>5, QueueTail
  <2>4. net[c].reqs = <<>> /\ Once(queue, c) /\ \A v \in Workers : ~Serves(wk[v], c)
    BY <2>2, <2>3 DEF ClientOK, OneRequest
  <2>5. Pending(c) = {x.req} /\ Running(c) = {}
    <3>1. Queued(queue, c) = {x.req}
      BY <1>1, <1>3, <1>4, <1>5, <2>4, QueuedOne
    <3>2. {v \in Workers : wk[v].c = c /\ wk[v].pc = "sql"} = {} /\ {v \in Workers : wk[v].c = c /\ wk[v].pc \in Served \ {"sql"}} = {}
      BY <2>4 DEF Serves, Served
    <3>3. SeqRange(net[c].reqs) = {}
      BY <2>4 DEF SeqRange
    <3> QED BY <3>1, <3>2, <3>3 DEF Pending, Running, PendingOf, RunningOf, Queued
  <2>6. Pending(c)' = {x.req} /\ Running(c)' = {}
    <3>1. ClientOK(c, comm'[c], out'[c], net'[c], EndCount(c)', Len(sent'[c]), queue', wk')
      BY <1>11 DEF IInv, ClientInv, Fits
    <3>2. Serves(wk'[w], c)
      BY <1>6, <1>7 DEF Serves, Served
    <3>3. PICK e, l : ClientOK(c, comm'[c], out'[c], net'[c], e, l, queue', wk')
      BY <3>1
    <3>4. OpenAt(c, net'[c], queue', wk', w)
      BY <3>2, <3>3, Served1
    <3> QED BY <1>6, <1>7, <3>4 DEF OpenAt, Pending, Running
  <2>7. Pending(c)' = Pending(c) /\ Running(c)' = Running(c)
    BY <2>5, <2>6
  <2> QED BY <1>3, <2>1, <2>7 DEF RightNow, conns, truth
<1>12. hasty \subseteq hasty'
  BY <1>3 DEF truth
<1> QED BY <1>10, <1>11, <1>12, AnswerStepOf

\* What the statement st does to the session v and to the committed changes C.
Commands(c, st, v, u, C, D) ==
  /\ u \in Sessions
  /\ st = "begin" => u.multi /\ u.work = v.work
  /\ st \in {"commit", "rollback"} => ~u.multi /\ u.work = {}
  /\ st \notin {"begin", "commit", "rollback"} => u.multi = v.multi /\ u.work = v.work
  /\ \A id \in Nat : <<c, id>> \in D <=> <<c, id>> \in C \/ (st = "commit" /\ id \in v.work)

LEMMA CommandIs ==
  ASSUME IInv, NEW c \in Clients, NEW st, Command(c, st)
  PROVE  /\ \A d \in Clients : d # c => SameOf(d, committed, committed')
         /\ session[c] \in Sessions => Commands(c, st, session[c], session'[c], committed, committed')
<1>1. PICK C : C = committed'
  OBVIOUS
<1>2. CASE st = "begin"
  <2>1. session' = [session EXCEPT ![c] = [session[c] EXCEPT !.multi = TRUE, !.active = TRUE]] /\ committed' = committed
    BY <1>2 DEF Command, BeginTrx, IInv, TypeInv
  <2>2. session'[c] = [session[c] EXCEPT !.multi = TRUE, !.active = TRUE]
    BY <2>1 DEF IInv, TypeInv
  <2>3. session[c] \in Sessions => session'[c] \in Sessions /\ session'[c].multi /\ session'[c].work = session[c].work
    BY <2>2 DEF Sessions
  <2> QED BY <1>2, <2>1, <2>3, SameAll DEF Commands
<1>3. ASSUME st \in {"commit", "rollback"}
      PROVE  /\ \A d \in Clients : d # c => SameOf(d, committed, committed')
             /\ session[c] \in Sessions => Commands(c, st, session[c], session'[c], committed, committed')
  <2>1. PICK done : /\ StopTrx(c, done)
                    /\ st = "commit" => done = {<<c, id>> : id \in session[c].work}
                    /\ st = "rollback" => done = {}
    BY <1>3 DEF Command
  <2>2. /\ session' = [session EXCEPT ![c] = [session[c] EXCEPT !.multi = FALSE, !.active = FALSE, !.work = {}]]
        /\ committed' = committed \cup done
    BY <2>1 DEF StopTrx, IInv, TypeInv
  <2>3. session'[c] = [session[c] EXCEPT !.multi = FALSE, !.active = FALSE, !.work = {}]
    BY <2>2 DEF IInv, TypeInv
  <2>4. session[c] \in Sessions => session'[c] \in Sessions /\ ~session'[c].multi /\ session'[c].work = {}
    BY <2>3 DEF Sessions
  <2>5. \A d, id : <<d, id>> \in C <=> <<d, id>> \in committed \/ (d = c /\ st = "commit" /\ id \in session[c].work)
    BY <1>1, <1>3, <2>1, <2>2
  <2>6. \A d : d # c => SameOf(d, committed, C)
    BY <2>5 DEF SameOf
  <2> QED BY <1>1, <1>3, <2>4, <2>5, <2>6 DEF Commands
<1>4. CASE st = "set"
  <2>1. session' = [session EXCEPT ![c] = [session[c] EXCEPT !.debug = TRUE]] /\ committed' = committed
    BY <1>4 DEF Command, SetVariable, IInv, TypeInv
  <2>2. session'[c] = [session[c] EXCEPT !.debug = TRUE]
    BY <2>1 DEF IInv, TypeInv
  <2>3. session[c] \in Sessions => session'[c] \in Sessions /\ session'[c].multi = session[c].multi /\ session'[c].work = session[c].work
    BY <2>2 DEF Sessions
  <2> QED BY <1>4, <2>1, <2>3, SameAll DEF Commands
<1>5. CASE st \notin {"begin", "commit", "rollback", "set"}
  <2>1. session' = session /\ committed' = committed
    BY <1>5 DEF Command, OpenFile
  <2> QED BY <1>5, <2>1, SameAll DEF Commands
<1> QED BY <1>2, <1>3, <1>4, <1>5

\* What failed is still what has been run when the last request has.
LEMMA PastMore ==
  \A c, s, v, u, P, F, G, C, D :
    /\ s \in SentSet /\ Len(s) > 0 /\ v \in Sessions /\ P # {} /\ PastRight(c, s, v, P, F, C)
    /\ Commands(c, s[Len(s)].stmt, v, u, C, D)
    /\ \A id \in Nat : <<c, id>> \in G => <<c, id>> \in F \/ id = Len(s)
    => PastRight(c, s, u, {}, G, D)
<1> SUFFICES ASSUME NEW c, NEW s, NEW v, NEW u, NEW P, NEW F, NEW G, NEW C, NEW D,
                    s \in SentSet, Len(s) > 0, v \in Sessions, P # {}, PastRight(c, s, v, P, F, C),
                    Commands(c, s[Len(s)].stmt, v, u, C, D),
                    \A id \in Nat : <<c, id>> \in G => <<c, id>> \in F \/ id = Len(s)
             PROVE  PastRight(c, s, u, {}, G, D)
  OBVIOUS
<1>1. PICK l : l = Len(s) /\ l \in Nat \ {0}
  BY DEF SentSet
<1>2. Done(s, P) = l - 1 /\ Done(s, {}) = l
  BY <1>1 DEF Done
<1>3. \A id \in 1 .. l - 1 : id \in 1 .. l
  BY <1>1
<1>4. l \in 1 .. l
  BY <1>1
<1>5. \A id \in Nat : <<c, id>> \in F \/ <<c, id>> \in C \/ id \in v.work => id \in 1 .. l
  BY <1>2, <1>3 DEF PastRight
<1>6. \A id : id \in u.work => id \in v.work
  BY DEF Commands
<1>7. \A id \in Nat : <<c, id>> \in D => <<c, id>> \in C \/ id \in v.work
  BY DEF Commands
<1> QED BY <1>1, <1>2, <1>4, <1>5, <1>6, <1>7 DEF PastRight

LEMMA TrxMore ==
  \A c, s, v, u, x, P, F, C, D :
    /\ ~x /\ s \in SentSet /\ Len(s) > 0 /\ v \in Sessions /\ P # {}
    /\ PastRight(c, s, v, P, F, C) /\ TrxRight(c, s, v, x, P, C) /\ Commands(c, s[Len(s)].stmt, v, u, C, D)
    => TrxRight(c, s, u, x, {}, D)
<1> SUFFICES ASSUME NEW c, NEW s, NEW v, NEW u, NEW x, NEW P, NEW F, NEW C, NEW D,
                    ~x, s \in SentSet, Len(s) > 0, v \in Sessions, P # {},
                    PastRight(c, s, v, P, F, C), TrxRight(c, s, v, x, P, C), Commands(c, s[Len(s)].stmt, v, u, C, D)
             PROVE  TrxRight(c, s, u, x, {}, D)
  OBVIOUS
<1>1. PICK l : l = Len(s) /\ l \in Nat \ {0}
  BY DEF SentSet
<1>2. Done(s, P) = l - 1 /\ Done(s, {}) = l
  BY <1>1 DEF Done
<1>3. PICK st : st = s[l].stmt
  OBVIOUS
<1>4. Commands(c, st, v, u, C, D)
  BY <1>1, <1>3
<1>5. /\ v.multi <=> OpenedIn(s, l - 1)
      /\ \A id \in v.work : (OpenedIn(s, id) => v.multi) /\ \A j \in id .. l - 1 : s[j].stmt # "rollback"
      /\ \A id \in Nat : <<c, id>> \in C /\ OpenedIn(s, id) => AskedIn(s, id)
  BY <1>2 DEF TrxRight
<1>6. \A id \in v.work : id \in 1 .. l - 1
  BY <1>2 DEF PastRight, Sessions
<1>7. OpenedIn(s, l) <=> st = "begin" \/ (OpenedIn(s, l - 1) /\ st \notin {"commit", "rollback"})
  BY <1>1, <1>3, OpenedNext
<1>8. u.multi <=> OpenedIn(s, l)
  BY <1>4, <1>5, <1>7 DEF Commands, Sessions
<1>9. ASSUME NEW id \in v.work, st # "rollback" PROVE \A j \in id .. l : s[j].stmt # "rollback"
  <2>1. \A j \in id .. l : j \in id .. l - 1 \/ j = l
    BY <1>1, <1>6
  <2> QED BY <1>3, <1>5, <1>9, <2>1
<1>10. \A id \in u.work : (OpenedIn(s, id) => u.multi) /\ \A j \in id .. l : s[j].stmt # "rollback"
  <2> SUFFICES ASSUME NEW id \in u.work PROVE (OpenedIn(s, id) => u.multi) /\ \A j \in id .. l : s[j].stmt # "rollback"
    OBVIOUS
  <2>1. id \in v.work /\ st # "rollback" /\ (v.multi => u.multi)
    BY <1>4 DEF Commands
  <2> QED BY <1>5, <1>9, <2>1
<1>11. ASSUME NEW id \in Nat, <<c, id>> \in D, OpenedIn(s, id) PROVE AskedIn(s, id)
  <2>1. CASE <<c, id>> \in C
    BY <1>5, <1>11, <2>1
  <2>2. CASE st = "commit" /\ id \in v.work
    <3>1. l \in id .. Len(s) /\ s[l].stmt = "commit"
      BY <1>1, <1>3, <1>6, <2>2
    <3>2. \A j \in id .. l : s[j].stmt # "rollback"
      BY <1>9, <2>2
    <3> QED BY <3>1, <3>2 DEF AskedIn
  <2> QED BY <1>4, <1>11, <2>1, <2>2 DEF Commands
<1> QED BY <1>2, <1>8, <1>10, <1>11 DEF TrxRight

\* What becomes of the worker when it has run the statement of the request q.
Handled(r, c, q) ==
  /\ q.stmt = "blank" => r.pc \notin Served
  /\ q.stmt # "blank" => /\ r.pc = "open" /\ r.c = c /\ r.req = q
                         /\ r.rc = (q.stmt # "syntax") /\ r.op = (q.stmt \in {"select", "change"})

LEMMA HandledIs ==
  ASSUME IInv, NEW w \in Workers, HandleSql(w)
  PROVE  \E r : wk' = [wk EXCEPT ![w] = r] /\ Handled(r, wk[w].c, wk[w].req)
<1>1. PICK q : q = wk[w].req
  OBVIOUS
<1>2. wk[w] \in WkSet
  BY Worker DEF HandleSql
<1>3. PICK rc \in BOOLEAN, op \in BOOLEAN :
        /\ rc = (q.stmt # "syntax") /\ op = (q.stmt \in {"select", "change"})
        /\ wk' = [wk EXCEPT ![w] = IF q.stmt = "blank" THEN WkIdle ELSE [wk[w] EXCEPT !.pc = "open", !.rc = rc, !.op = op]]
  <2>1. wk' = [wk EXCEPT ![w] = IF q.stmt = "blank" THEN WkIdle
                                ELSE [wk[w] EXCEPT !.pc = "open", !.rc = q.stmt # "syntax", !.op = q.stmt \in {"select", "change"}]]
    BY <1>1 DEF HandleSql, SetW
  <2>2. (q.stmt # "syntax") \in BOOLEAN /\ (q.stmt \in {"select", "change"}) \in BOOLEAN
    OBVIOUS
  <2> QED BY <2>1, <2>2, Zenon
<1>4. CASE q.stmt = "blank"
  BY <1>1, <1>3, <1>4 DEF Handled, WkIdle, Served
<1>5. CASE q.stmt # "blank"
  <2>1. PICK r : r = [wk[w] EXCEPT !.pc = "open", !.rc = rc, !.op = op]
    OBVIOUS
  <2>2. r.pc = "open" /\ r.c = wk[w].c /\ r.req = q /\ r.rc = rc /\ r.op = op
    BY <1>1, <1>2, <2>1 DEF WkSet
  <2>3. wk' = [wk EXCEPT ![w] = r]
    BY <1>3, <1>5, <2>1
  <2>4. Handled(r, wk[w].c, q)
    BY <1>3, <1>5, <2>2 DEF Handled
  <2> QED BY <1>1, <2>3, <2>4
<1> QED BY <1>4, <1>5

LEMMA HandleSqlRight ==
  ASSUME IInv, IInv', AnswerInv, NEW w \in Workers, HandleSql(w)
  PROVE  AnswerInv'
<1>1. PICK c, q, st : c = wk[w].c /\ q = wk[w].req /\ st = q.stmt
  OBVIOUS
<1>2. /\ wk[w].pc = "sql" /\ Usable(c) /\ Command(c, st)
      /\ failed' = (IF st \in {"syntax", "noplan"} THEN failed \cup {<<c, q.id>>} ELSE failed)
      /\ UNCHANGED <<authed, out, net, queue, got, sent, hasty>>
  BY <1>1 DEF HandleSql
<1>3. c \in Clients /\ q \in Requests /\ wk[w].pc \in Served /\ Serves(wk[w], c)
  BY <1>1, <1>2, Worker DEF Served, Serves
<1>4. PICK r : wk' = [wk EXCEPT ![w] = r] /\ Handled(r, c, q)
  BY <1>1, HandledIs
<1>5. Serves(r, c) \/ r.pc \notin Served
  BY <1>4 DEF Handled, Serves, Served
<1>6. wk'[w] = r /\ (\A v \in Workers : v # w => wk'[v] = wk[v]) /\ \A d \in Clients : d # c => SameServed(wk, wk', d)
  <2>1. wk' = [wk EXCEPT ![w] = r] /\ wk = [v \in Workers |-> wk[v]]
    BY <1>4 DEF IInv, TypeInv
  <2>2. \A d : d # c => SameServed(wk, wk', d)
    BY <1>3, <1>5, <2>1, WorkerServed
  <2> QED BY <2>1, <2>2
<1>7. PICK G, D, i : G = failed' /\ D = committed' /\ i = q.id
  OBVIOUS
<1>8. /\ \A d : d # c => SameOf(d, failed, G)
      /\ \A id \in Nat : (<<c, id>> \in failed => <<c, id>> \in G) /\ (<<c, id>> \in G => <<c, id>> \in failed \/ id = i)
      /\ <<c, i>> \in G <=> <<c, i>> \in failed \/ st \in {"syntax", "noplan"}
  <2>1. G = failed \/ G = failed \cup {<<c, i>>}
    BY <1>2, <1>7
  <2>2. <<c, i>> \in G <=> <<c, i>> \in failed \/ st \in {"syntax", "noplan"}
    BY <1>2, <1>7
  <2> QED BY <2>1, <2>2, FailedIs, ZenonT(30)
<1>9. \A d \in Clients : d # c => Untouched(d)
  <2>1. \A d \in Clients : d # c => SameOf(d, committed, committed')
    BY <1>2, <1>3, CommandIs
  <2>2. \A d \in Clients : d # c => session'[d] = session[d]
    BY <1>2, <1>3, CommandStep
  <2> QED BY <1>2, <1>6, <1>7, <1>8, <2>1, <2>2, SameAll DEF Untouched
<1>10. ASSUME c \in Clients \ hasty' PROVE RightNow(c)'
  <2>1. c \notin hasty
    BY <1>2, <1>10
  <2>2. sent[c] \in SentSet /\ Current(sent[c], q) /\ OpenAt(c, net[c], queue, wk, w) /\ ~net[c].closed /\ RightNow(c)
    BY <1>1, <1>3, <2>1, AtWork
  <2>3. PICK s, g, v, u, a, n, F, C : /\ s = sent[c] /\ g = got[c] /\ v = session[c] /\ u = session'[c] /\ a = authed[c]
                                      /\ n = net[c] /\ F = failed /\ C = committed
    OBVIOUS
  <2>4. PICK P, H : P = {q} /\ H = {}
    OBVIOUS
  <2>5. Pending(c) = P /\ Running(c) = H /\ P # {}
    BY <1>1, <1>2, <2>2, <2>4 DEF OpenAt, Pending, Running
  <2>6. s \in SentSet /\ Len(s) > 0 /\ q.id = Len(s) /\ st = s[Len(s)].stmt /\ ~n.closed
    BY <1>1, <2>2, <2>3 DEF Current
  <2>7. /\ v \in Sessions /\ PastRight(c, s, v, P, F, C) /\ TrxRight(c, s, v, n.closed, P, C)
        /\ ToldRight(c, s, g, P, H, F, C) /\ LoginRight(c, s, a, n)
    BY <2>2, <2>3, <2>5 DEF RightNow, Right
  <2>8. Commands(c, s[Len(s)].stmt, v, u, C, D)
    BY <1>2, <1>3, <1>7, <2>3, <2>6, <2>7, CommandIs
  <2>9. PastRight(c, s, u, {}, G, D)
    BY <1>7, <1>8, <2>3, <2>5, <2>6, <2>7, <2>8, PastMore
  <2>10. TrxRight(c, s, u, n.closed, {}, D)
    BY <2>5, <2>6, <2>7, <2>8, TrxMore
  <2>11. \A Q, K : ToldRight(c, s, g, Q, K, G, D)
    <3>1. \A id \in Nat : id # Len(s) => (<<c, id>> \in F <=> <<c, id>> \in G)
      BY <1>7, <1>8, <2>3, <2>6
    <3>2. \A id \in Nat : <<c, id>> \in C => <<c, id>> \in D
      BY <2>8 DEF Commands
    <3> QED BY <2>5, <2>6, <2>7, <3>1, <3>2, ToldKept
  <2>12. <<c, q.id>> \notin F
    <3>1. PICK l : l = Len(s) /\ l \in Nat \ {0}
      BY <2>6 DEF SentSet
    <3>2. Done(s, P) = l - 1
      BY <2>5, <3>1 DEF Done
    <3>3. l \notin 1 .. l - 1
      BY <3>1
    <3> QED BY <2>6, <2>7, <3>1, <3>2, <3>3 DEF PastRight
  <2>13. out[c] = <<>> /\ OutRight(c, s, <<>>, G, D)
    <3>1. out[c] = <<>>
      BY <1>1, <1>2, <1>3, <2>1, Held
    <3> QED BY <3>1 DEF OutRight
  <2>14. u \in Sessions
    BY <2>8 DEF Commands
  <2>15. CASE st = "blank"
    <3>1. ClientOK(c, comm[c], out[c], net[c], EndCount(c), Len(sent[c]), queue, wk)
      BY <1>3, <2>1 DEF IInv, ClientInv, Fits
    <3>2. ~Serves(wk'[w], c)
      BY <1>1, <1>4, <1>6, <2>15 DEF Serves, Handled
    <3>3. PICK m : m = wk'
      OBVIOUS
    <3>4. PendingOf(c, net[c], queue, m) = {} /\ RunningOf(c, m) = {}
      <4>1. ~Serves(m[w], c) /\ \A x \in Workers : x # w => m[x] = wk[x]
        BY <1>6, <3>2, <3>3
      <4>2. PICK e, l : ClientOK(c, comm[c], out[c], net[c], e, l, queue, wk)
        BY <3>1
      <4> QED BY <1>3, <4>1, <4>2, LeavesNone
    <3>5. Pending(c)' = {} /\ Running(c)' = {}
      BY <1>2, <3>3, <3>4 DEF Pending, Running
    <3>6. HandsRight(c, s, u, {}, {}, G)
      BY DEF HandsRight
    <3>7. Right(c, s, g, <<>>, u, a, n, {}, {}, G, D)
      BY <2>7, <2>9, <2>10, <2>11, <2>13, <2>14, <3>6 DEF Right
    <3> QED BY <1>2, <1>7, <2>3, <2>13, <3>5, <3>7 DEF RightNow
  <2>16. CASE st # "blank"
    <3>1. r.pc = "open" /\ r.c = c /\ r.req = q /\ r.rc = (st # "syntax") /\ r.op = (st \in {"select", "change"})
      BY <1>1, <1>4, <2>16 DEF Handled
    <3>2. ClientOK(c, comm'[c], out'[c], net'[c], EndCount(c)', Len(sent'[c]), queue', wk')
      BY <1>10 DEF IInv, ClientInv, Fits
    <3>3. Serves(wk'[w], c)
      BY <1>6, <3>1 DEF Serves, Served
    <3>4. PICK e, l : ClientOK(c, comm'[c], out'[c], net'[c], e, l, queue', wk')
      BY <3>2
    <3>5. OpenAt(c, net'[c], queue', wk', w)
      BY <3>3, <3>4, Served1
    <3>6. Pending(c)' = {} /\ Running(c)' = {r}
      BY <1>6, <3>1, <3>5 DEF OpenAt, Pending, Running
    <3>7. Phase(c, r, u, G)
      BY <1>1, <1>7, <1>8, <2>3, <2>12, <3>1 DEF Phase
    <3>8. HandsRight(c, s, u, {}, {r}, G)
      BY <2>2, <2>3, <3>1, <3>7 DEF HandsRight
    <3>9. Right(c, s, g, <<>>, u, a, n, {}, {r}, G, D)
      BY <2>7, <2>9, <2>10, <2>11, <2>13, <2>14, <3>8 DEF Right
    <3> QED BY <1>2, <1>7, <2>3, <2>13, <3>6, <3>9 DEF RightNow
  <2> QED BY <2>15, <2>16
<1>11. hasty \subseteq hasty'
  BY <1>2
<1> QED BY <1>9, <1>10, <1>11, AnswerStepOf

LEMMA AnswerInit == Init => AuthedInv /\ AnswerInv
<1> SUFFICES ASSUME Init PROVE AuthedInv /\ AnswerInv
  OBVIOUS
<1> USE ServerAssumption
<1>1. PICK s \in Scripts : net = [c \in Clients |-> [reqs |-> <<>>, closed |-> FALSE, script |-> s[c]]]
  BY DEF Init
<1>2. AuthedInv
  BY DEF Init, AuthedInv
<1>3. ASSUME NEW c \in Clients PROVE RightNow(c)
  <2>1. /\ sent[c] = <<>> /\ got[c] = <<>> /\ out[c] = <<>> /\ session[c] = NoSession /\ ~authed[c]
        /\ net[c].reqs = <<>> /\ net[c].script = s[c] /\ queue = <<>> /\ failed = {} /\ committed = {}
        /\ \A w \in Workers : wk[w] = WkIdle
    BY <1>1 DEF Init
  <2>2. Len(<<>>) = 0 /\ \A i \in 1 .. 0 : FALSE
    OBVIOUS
  <2>3. ~Busy(c, net[c], queue, wk)
    BY <2>1, <2>2 DEF Busy, InQueue, Serves, Served, WkIdle
  <2>4. Pending(c) = {} /\ Running(c) = {}
    BY <2>3, NoneOpen DEF Pending, Running
  <2>5. PICK q, v, n, a, F, C : q = <<>> /\ v = NoSession /\ n = net[c] /\ a = authed[c] /\ F = failed /\ C = committed
    OBVIOUS
  <2>6. Len(q) = 0 /\ Done(q, {}) = 0 /\ v \in Sessions /\ ~v.multi /\ v.work = {}
    BY <2>2, <2>5 DEF Done, NoSession, Sessions
  <2>7. HandsRight(c, q, v, {}, {}, F)
    BY DEF HandsRight
  <2>8. PastRight(c, q, v, {}, F, C) /\ TrxRight(c, q, v, n.closed, {}, C)
    BY <2>1, <2>2, <2>5, <2>6 DEF PastRight, TrxRight, OpenedIn
  <2>9. ToldRight(c, q, q, {}, {}, F, C) /\ OutRight(c, q, q, F, C)
    BY <2>2, <2>6 DEF ToldRight, OutRight, InOrder
  <2>10. LoginRight(c, q, a, n)
    BY <2>1, <2>5, <2>6 DEF LoginRight
  <2>11. Right(c, q, q, q, v, a, n, {}, {}, F, C)
    BY <2>6, <2>7, <2>8, <2>9, <2>10 DEF Right
  <2> QED BY <2>1, <2>4, <2>5, <2>11 DEF RightNow
<1> QED BY <1>2, <1>3 DEF AnswerInv, RightNow

LEMMA AnswerStutter == IInv /\ AnswerInv /\ UNCHANGED vars => AnswerInv'
<1> SUFFICES ASSUME IInv, AnswerInv, UNCHANGED vars PROVE AnswerInv'
  OBVIOUS
<1> QED BY SameAll, QuietStep DEF vars, conns, truth

LEMMA AnswerNext == IInv /\ IInv' /\ AuthedInv /\ AnswerInv /\ [Next]_vars => AnswerInv'
<1> SUFFICES ASSUME IInv, IInv', AuthedInv, AnswerInv, [Next]_vars PROVE AnswerInv'
  OBVIOUS
<1>1. CASE EventThread
  <2>1. ASSUME NEW c \in Clients, ReadLogin(c) \/ ReadVersion(c) \/ ReadQuery(c)
        PROVE  AnswerInv'
    BY <2>1, ReadLoginRight, ReadVersionRight, ReadQueryRight
  <2>2. ASSUME NEW c \in Clients, Accept(c) \/ Recv(c)
        PROVE  AnswerInv'
    BY <2>2, QuietKeeps
  <2>3. CASE ReadClosed \/ EvClose
    BY <2>3, QuietKeeps
  <2>4. CASE EvFree
    BY <2>4, FreesRight
  <2> QED BY <1>1, <2>1, <2>2, <2>3, <2>4 DEF EventThread
<1>2. ASSUME NEW w \in Workers, WorkerStep(w)
      PROVE  AnswerInv'
  <2>1. CASE TakeEvent(w) \/ HandleSql(w) \/ AnswerState(w) \/ OpenResult(w)
    BY <2>1, TakeEventRight, HandleSqlRight, AnswerStateRight, OpenResultRight
  <2>2. CASE SendRowsPlain(w) \/ SendRowsMysql(w) \/ WriteDebug(w) \/ FlushResult(w)
    BY <2>2, SendRowsPlainRight, SendRowsMysqlRight, WriteDebugRight, FlushResultRight
  <2>3. CASE WkClose(w) \/ Finish(w)
    BY <2>3, LeaveKeeps
  <2>4. CASE WkFree(w)
    BY <2>4, FreesRight
  <2>5. CASE Touch(w)
    BY <2>5, QuietKeeps
  <2> QED BY <1>2, <2>1, <2>2, <2>3, <2>4, <2>5 DEF WorkerStep
<1>3. ASSUME NEW c \in Clients, ClientStep(c)
      PROVE  AnswerInv'
  BY <1>3, SendRight, SendRestRight, CloseRight DEF ClientStep
<1> QED BY <1>1, <1>2, <1>3, AnswerStutter DEF Next

LEMMA AnswerSafe == AnswerInv => AnswersRight /\ CommitsAsAsked
<1> SUFFICES ASSUME AnswerInv, NEW c \in Clients \ hasty
             PROVE  /\ \A i, j \in 1 .. Len(got[c]) :
                         i < j /\ got[c][i].c = c /\ got[c][j].c = c =>
                           /\ got[c][i].id <= got[c][j].id
                           /\ got[c][i].what \in Terminators /\ got[c][j].what # "debug" => got[c][i].id < got[c][j].id
                    /\ \A i \in 1 .. Len(got[c]) :
                         /\ got[c][i].c = c /\ got[c][i].what = "fail" => <<c, got[c][i].id>> \in failed
                         /\ got[c][i].c = c /\ got[c][i].what \in {"ok", "end", "eof"} /\ <<c, got[c][i].id>> \in failed =>
                              sent[c][got[c][i].id].stmt = "noplan"
                              \/ (c \in Mysql /\ sent[c][got[c][i].id].stmt # "syntax")
                         /\ got[c][i].c = c /\ got[c][i].what = "ok" /\ sent[c][got[c][i].id].stmt = "change"
                              /\ ~Opened(c, got[c][i].id) => <<c, got[c][i].id>> \in committed
                    /\ \A id \in 1 .. Len(sent[c]) : <<c, id>> \in committed /\ Opened(c, id) => Asked(c, id)
  BY DEF AnswersRight, AnswersInOrder, AnswersTruthful, CommitsAsAsked
<1>1. /\ ToldRight(c, sent[c], got[c], Pending(c), Running(c), failed, committed)
      /\ TrxRight(c, sent[c], session[c], net[c].closed, Pending(c), committed)
  BY DEF AnswerInv, Right
<1>2. \A id : (Opened(c, id) <=> OpenedIn(sent[c], id)) /\ (Asked(c, id) <=> AskedIn(sent[c], id))
  BY DEF Opened, OpenedIn, Asked, AskedIn
<1>3. InOrder(c, got[c]) /\ \A i \in 1 .. Len(got[c]) : got[c][i].c = c => Truthful(c, got[c][i], sent[c], failed, committed)
  BY <1>1 DEF ToldRight
<1>4. \A id \in 1 .. Len(sent[c]) : <<c, id>> \in committed /\ Opened(c, id) => Asked(c, id)
  BY <1>1, <1>2 DEF TrxRight
<1> QED BY <1>2, <1>3, <1>4 DEF InOrder, Truthful

LEMMA AllHolds == Spec => [](IInv /\ AuthedInv /\ AnswerInv)
<1>1. Init => IInv /\ AuthedInv /\ AnswerInv
  BY InitHolds, AnswerInit
<1>2. IInv /\ AuthedInv /\ AnswerInv /\ [Next]_vars => (IInv /\ AuthedInv /\ AnswerInv)'
  BY StepKeeps, AuthedStep, AnswerNext
<1> QED BY <1>1, <1>2, PTL DEF Spec

\* A client that waits for its answers gets them in the order of its requests, one end
\* for each, and they say how the statements went, but for the two exceptions of the
\* code (AnswersRight: write_result, write_state, send_result_rows, read_event).
THEOREM AnswersCorrect == Spec => []AnswersRight
<1>1. Spec => [](IInv /\ AuthedInv /\ AnswerInv)
  BY AllHolds
<1>2. AnswerInv => AnswersRight
  BY AnswerSafe
<1> QED BY <1>1, <1>2, PTL

\* What is changed after BEGIN is committed by COMMIT only, and what is changed outside
\* is committed before the client is told SUCCESS (CommitsAsAsked: SqlResult::close,
\* TrxBeginExecutor, TrxEndExecutor, ~Session).
THEOREM CommitsCorrect == Spec => []CommitsAsAsked
<1>1. Spec => [](IInv /\ AuthedInv /\ AnswerInv)
  BY AllHolds
<1>2. AnswerInv => CommitsAsAsked
  BY AnswerSafe
<1> QED BY <1>1, <1>2, PTL
=============================================================================
