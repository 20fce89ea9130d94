----------------------- MODULE OutgoingRequestsProofs -----------------------
(***************************************************************************)
(* OutgoingRequests for trees of requests of any size and depth.           *)
(***************************************************************************)
EXTENDS OutgoingRequests, TLAPS

-----------------------------------------------------------------------------
(* Rounding.                                                               *)

\* Rounding to whole milliseconds adds at most half a millisecond.
LEMMA RoundedBound ==
    ASSUME NEW x \in Nat
    PROVE  Rounded(x) \in Nat /\ 2 * Rounded(x) <= x + 1
BY DEF Rounded

\* Truncation never adds anything to what is left, and leaves nothing positive
\* of what is over.
LEMMA TruncatedBound ==
    ASSUME NEW x \in Int
    PROVE  /\ Truncated(x) \in Int
           /\ Truncated(x) > 0 => 2 * Truncated(x) <= x
<1>1. CASE x >= 0
  BY <1>1 DEF Truncated
<1>2. CASE x < 0
  <2>1. (-x) \div 2 \in Nat
    BY <1>2
  <2> QED
    BY <1>2, <2>1 DEF Truncated
<1> QED
  BY <1>1, <1>2

LEMMA HeaderTimeoutType ==
    ASSUME NEW h \in Headers, HasLimit(h)
    PROVE  header_timeout(h) \in Nat
BY DEF Headers, HasLimit, header_timeout, Absent

\* A call that is made has time, and within the time its caller has left.
LEMMA BudgetBound ==
    ASSUME NEW r \in Request, NEW own \in OwnTimeouts, now \in Nat, r.start \in Nat,
           ~OutOfTime(Budget(r, own))
    PROVE  /\ Budget(r, own) \in Nat \ {0}
           /\ r.svc.decrease /\ HasLimit(r.hdr)
                 => Budget(r, own) <= 2 * header_timeout(r.hdr) - (now - r.start)
<1>1. own \in Nat \ {0}
  BY OutgoingAssumption
<1>2. CASE r.svc.decrease /\ HasLimit(r.hdr)
  <2> DEFINE x == 2 * header_timeout(r.hdr) - Spent(r)
             left == 2 * Truncated(x)
  <2>1. header_timeout(r.hdr) \in Nat
    BY <1>2, HeaderTimeoutType DEF Request
  <2>2. x \in Int /\ x = 2 * header_timeout(r.hdr) - (now - r.start)
    BY <2>1 DEF Spent
  <2>3. Truncated(x) \in Int /\ (Truncated(x) > 0 => 2 * Truncated(x) <= x)
    BY <2>2, TruncatedBound
  <2>4. Budget(r, own) = IF left < own THEN left ELSE own
    BY <1>2 DEF Budget
  <2> HIDE DEF x
  <2>5. Budget(r, own) \in Int /\ Budget(r, own) > 0 /\ Budget(r, own) <= left
    BY <1>1, <2>3, <2>4 DEF OutOfTime
  <2> QED
    BY <2>2, <2>3, <2>5
<1>3. CASE ~(r.svc.decrease /\ HasLimit(r.hdr))
  BY <1>1, <1>3 DEF Budget
<1> QED
  BY <1>2, <1>3

-----------------------------------------------------------------------------
(* The invariant: what holds of a request by itself, and what ties it to   *)
(* its caller and to its root.                                             *)

Own(r) ==
    /\ (r.st = "transit") <=> (r.start = Absent)
    /\ r.start = Absent => ~r.wrapped
    /\ r.start # Absent => r.hdr.rid # Absent
    /\ r.start # Absent /\ HasLimit(r.hdr) => r.start + 2 * header_timeout(r.hdr) <= r.until

OwnDebug(r) ==
    /\ r.mode.pass_debug => r.mode.enabled
    /\ r.mode.debug_response => r.hdr.debug # None \/ r.hdr.inherited
    /\ r.mode.enabled /\ ~r.svc.debug /\ r.svc.access # "granted" => check_debug_auth(r.hdr.cred)
    /\ r.wrapped => r.mode.debug_response

OwnBlame(r) ==
    r.st = "answered" => /\ r.code = INSUFFICIENT_TIMEOUT => timeout_was_reduced(r.hdr)
                         /\ r.code = SERVER_TIMEOUT => ~timeout_was_reduced(r.hdr)

\* Of request i in q: its caller and its root have been started, and it carries
\* what they gave it.
Linked(q, i) ==
    /\ q[i].from \in 0..(i - 1) /\ q[i].root \in 1..i
    /\ q[i].from = 0 => q[i].root = i /\ q[i].start # Absent
    /\ q[i].from # 0 =>
          /\ q[q[i].from].start # Absent /\ q[q[i].root].start # Absent
          /\ q[i].root = q[q[i].from].root
          /\ q[i].hdr.rid = q[q[i].root].hdr.rid
          /\ q[i].hdr.debug = None
          /\ q[i].hdr.inherited = q[q[i].from].mode.pass_debug
          /\ q[i].unwrap = q[q[i].from].mode.enabled
          /\ q[i].hdr.cred \in {NoCredentials, q[q[i].root].hdr.cred}

Timed(q, i) ==
    q[i].from # 0 =>
        /\ q[i].hdr.deadline # Absent
        /\ q[i].budget > 0
        /\ q[q[i].from].svc.decrease /\ HasLimit(q[q[i].from].hdr)
              => q[i].sent + 2 * q[i].hdr.deadline <= q[q[i].from].until + 1

Vain(q, i) ==
    q[i].st = "answered" /\ q[i].code = 504
        => \E c \in 1..Len(q) : q[c].from = i /\ ~timeout_was_reduced(q[c].hdr)

Clocked(r, t) == r.sent <= t /\ (r.start # Absent => r.start \in r.sent..t)

Good3(r) == Own(r) /\ OwnDebug(r) /\ OwnBlame(r)

Tree(q, t) ==
    /\ q \in Seq(Request)
    /\ \A i \in 1..Len(q) : Good3(q[i]) /\ Linked(q, i) /\ Timed(q, i) /\ Vain(q, i) /\ Clocked(q[i], t)

Inv == now \in 0..Horizon /\ overruns \subseteq (Nat \X Nat) /\ Tree(reqs, now)

\* What the context variables hold: a task that runs finds its own request in
\* both, and the request has been started; the task of a page runs as long as
\* the page has not answered.
Finds(x, i) == x.live => x.rc = i /\ x.hook = i

InContext(ts, q, i) ==
    /\ Finds(ts[i].page, i) /\ Finds(ts[i].child, i)
    /\ q[i].st = "running" => ts[i].page.live
    /\ ts[i].page.live \/ ts[i].child.live => q[i].start # Absent

Contexts(ts, q) ==
    /\ ts \in Seq([page : Task, child : Task]) /\ Len(ts) = Len(q)
    /\ \A i \in 1..Len(q) : InContext(ts, q, i)

\* What later steps leave of a request.
Kept(r, s) ==
    /\ s.hdr = r.hdr /\ s.from = r.from /\ s.root = r.root /\ s.svc = r.svc
    /\ s.sent = r.sent /\ s.budget = r.budget /\ s.unwrap = r.unwrap
    /\ r.start # Absent => s.start = r.start /\ s.until = r.until /\ s.mode = r.mode

LEMMA LinksKept ==
    ASSUME NEW q \in Seq(Request), NEW p \in Seq(Request), Len(q) <= Len(p),
           \A k \in 1..Len(q) : Kept(q[k], p[k]),
           NEW i \in 1..Len(q), Linked(q, i), Timed(q, i)
    PROVE  Linked(p, i) /\ Timed(p, i)
<1>1. q[i].from \in 0..(i - 1) /\ q[i].root \in 1..i /\ Kept(q[i], p[i])
  BY DEF Linked
<1>2. Kept(q[q[i].root], p[q[i].root]) /\ p[i].root = q[i].root /\ p[i].from = q[i].from
  BY <1>1 DEF Kept
<1>3. CASE q[i].from = 0
  BY <1>1, <1>2, <1>3 DEF Linked, Timed, Kept
<1>4. CASE q[i].from # 0
  <2>1. Kept(q[q[i].from], p[q[i].from])
    BY <1>1, <1>4
  <2> QED
    BY <1>1, <1>2, <1>4, <2>1 DEF Linked, Timed, Kept
<1> QED
  BY <1>3, <1>4

LEMMA VainKept ==
    ASSUME NEW q \in Seq(Request), NEW p \in Seq(Request), Len(q) <= Len(p),
           \A k \in 1..Len(q) : Kept(q[k], p[k]),
           NEW i \in 1..Len(q), Vain(q, i), p[i].st = q[i].st, p[i].code = q[i].code
    PROVE  Vain(p, i)
<1> SUFFICES ASSUME p[i].st = "answered", p[i].code = 504
             PROVE  \E c \in 1..Len(p) : p[c].from = i /\ ~timeout_was_reduced(p[c].hdr)
  BY DEF Vain
<1>1. PICK c \in 1..Len(q) : q[c].from = i /\ ~timeout_was_reduced(q[c].hdr)
  BY DEF Vain
<1>2. c \in 1..Len(p) /\ p[c].from = i /\ p[c].hdr = q[c].hdr
  BY <1>1 DEF Kept
<1> QED
  BY <1>1, <1>2

\* One more request.
LEMMA TreeGrows ==
    ASSUME NEW q, NEW t \in Nat, Tree(q, t), NEW r \in Request,
           Good3(r), Clocked(r, t), r.code # 504,
           Linked(Append(q, r), Len(q) + 1), Timed(Append(q, r), Len(q) + 1)
    PROVE  Tree(Append(q, r), t)
<1> DEFINE p == Append(q, r)
<1>1. q \in Seq(Request) /\ Len(q) \in Nat
  BY DEF Tree
<1>2. /\ p \in Seq(Request) /\ Len(p) = Len(q) + 1 /\ p[Len(q) + 1] = r
      /\ \A k \in 1..Len(q) : p[k] = q[k]
  BY <1>1
<1> HIDE DEF p
<1>3. \A k \in 1..Len(q) : Kept(q[k], p[k])
  BY <1>2 DEF Kept
<1>4. ASSUME NEW i \in 1..Len(q)
      PROVE  Good3(p[i]) /\ Linked(p, i) /\ Timed(p, i) /\ Vain(p, i) /\ Clocked(p[i], t)
  <2>1. Good3(q[i]) /\ Linked(q, i) /\ Timed(q, i) /\ Vain(q, i) /\ Clocked(q[i], t)
    BY DEF Tree
  <2>2. p[i] = q[i] /\ Len(q) <= Len(p)
    BY <1>1, <1>2
  <2>3. Linked(p, i) /\ Timed(p, i)
    BY <1>1, <1>2, <1>3, <2>1, <2>2, LinksKept
  <2>4. Vain(p, i)
    BY <1>1, <1>2, <1>3, <2>1, <2>2, VainKept
  <2> QED
    BY <2>1, <2>2, <2>3, <2>4
<1>5. /\ Good3(p[Len(q) + 1]) /\ Clocked(p[Len(q) + 1], t)
      /\ Linked(p, Len(q) + 1) /\ Timed(p, Len(q) + 1)
      /\ Vain(p, Len(q) + 1)
  BY <1>2 DEF p, Vain
<1>6. \A i \in 1..Len(p) : i \in 1..Len(q) \/ i = Len(q) + 1
  BY <1>1, <1>2
<1>7. Tree(p, t)
  BY <1>2, <1>4, <1>5, <1>6 DEF Tree
<1> QED
  BY <1>7 DEF p

\* One request changes; what ties the others to it stays.
LEMMA TreeChanges ==
    ASSUME NEW q, NEW t \in Nat, Tree(q, t), NEW c \in 1..Len(q), NEW r \in Request,
           Kept(q[c], r), Good3(r), Clocked(r, t),
           \/ r.code = q[c].code /\ r.st = q[c].st
           \/ r.code # 504
           \/ \E k \in 1..Len(q) : q[k].from = c /\ ~timeout_was_reduced(q[k].hdr)
    PROVE  Tree([q EXCEPT ![c] = r], t)
<1> DEFINE p == [q EXCEPT ![c] = r]
<1>1. q \in Seq(Request) /\ Len(q) \in Nat
  BY DEF Tree
<1>2. /\ p \in Seq(Request) /\ Len(p) = Len(q) /\ p[c] = r
      /\ \A k \in 1..Len(q) \ {c} : p[k] = q[k]
  BY <1>1
<1> HIDE DEF p
<1>3. \A k \in 1..Len(q) : Kept(q[k], p[k])
  BY <1>2 DEF Kept
<1>4. ASSUME NEW i \in 1..Len(q)
      PROVE  Good3(p[i]) /\ Linked(p, i) /\ Timed(p, i) /\ Vain(p, i) /\ Clocked(p[i], t)
  <2>1. Good3(q[i]) /\ Linked(q, i) /\ Timed(q, i) /\ Vain(q, i) /\ Clocked(q[i], t)
    BY DEF Tree
  <2>2. Len(q) <= Len(p)
    BY <1>1, <1>2
  <2>3. Linked(p, i) /\ Timed(p, i)
    BY <1>1, <1>2, <1>3, <2>1, <2>2, LinksKept
  <2>4. Good3(p[i]) /\ Clocked(p[i], t)
    BY <1>2, <2>1
  <2>5. Vain(p, i)
    <3>1. CASE p[i].st = q[i].st /\ p[i].code = q[i].code
      BY <1>1, <1>2, <1>3, <2>1, <2>2, <3>1, VainKept
    <3>2. CASE i = c /\ r.code # 504
      BY <1>2, <3>2 DEF Vain
    <3>3. CASE i = c /\ \E k \in 1..Len(q) : q[k].from = c /\ ~timeout_was_reduced(q[k].hdr)
      BY <1>2, <1>3, <3>3 DEF Vain, Kept
    <3> QED
      BY <1>2, <3>1, <3>2, <3>3
  <2> QED
    BY <2>3, <2>4, <2>5
<1>5. Tree(p, t)
  BY <1>2, <1>4 DEF Tree
<1> QED
  BY <1>5 DEF p

-----------------------------------------------------------------------------
(* Arrival.                                                                *)

Modes == [enabled : BOOLEAN, pass_debug : BOOLEAN, debug_response : BOOLEAN]

\* The debug mode a request gets is one it has asked for, and has credentials for.
LEMMA DebugModeType ==
    ASSUME NEW h \in Headers
    PROVE  /\ make_debug_mode(h) \in Modes /\ NoDebug \in Modes
           /\ ~NoDebug.enabled /\ ~NoDebug.pass_debug /\ ~NoDebug.debug_response
           /\ make_debug_mode(h).pass_debug => make_debug_mode(h).enabled
           /\ make_debug_mode(h).debug_response => h.debug # None \/ h.inherited
           /\ make_debug_mode(h).enabled => need_auth(h)
<1>1. (h.debug # "nopass" \/ h.inherited) \in BOOLEAN /\ (h.debug # None \/ h.inherited) \in BOOLEAN
  BY Zenon
<1>2. on_auth_ok(h) \in Modes
  BY <1>1 DEF on_auth_ok, Modes
<1>3. NoDebug \in Modes /\ ~NoDebug.enabled /\ ~NoDebug.pass_debug /\ ~NoDebug.debug_response
  BY DEF NoDebug, Modes
<1>4. on_auth_ok(h).enabled /\ on_auth_ok(h).debug_response = (h.debug # None \/ h.inherited)
  BY DEF on_auth_ok
<1>5. CASE need_auth(h)
  BY <1>2, <1>3, <1>4, <1>5 DEF make_debug_mode
<1>6. CASE ~need_auth(h)
  BY <1>3, <1>6 DEF make_debug_mode
<1> QED
  BY <1>3, <1>5, <1>6

LEMMA ArrivedType ==
    ASSUME NEW r \in Request, NEW i \in Nat \ {0}, now \in Nat, ChainEnd(r) \in Int,
           r.st = "transit", r.start = Absent, ~r.wrapped, r.sent <= now,
           HasLimit(r.hdr) => now + 2 * header_timeout(r.hdr) <= ChainEnd(r)
    PROVE  /\ Arrived(r, i) \in Request
           /\ Good3(Arrived(r, i)) /\ Clocked(Arrived(r, i), now)
           /\ Arrived(r, i).code # 504
           /\ Arrived(r, i).start # Absent
           /\ Arrived(r, i).from = r.from /\ Arrived(r, i).root = r.root
           /\ Arrived(r, i).svc = r.svc /\ Arrived(r, i).sent = r.sent
           /\ Arrived(r, i).budget = r.budget /\ Arrived(r, i).unwrap = r.unwrap
           /\ r.hdr.rid # Absent => Arrived(r, i).hdr = r.hdr
<1> DEFINE a == Arrived(r, i)
           denied == Denied(r)
           h == [r.hdr EXCEPT !.rid = IF r.hdr.rid = Absent THEN i ELSE r.hdr.rid]
           m == IF denied THEN NoDebug ELSE make_debug_mode(r.hdr)
           st == IF denied THEN "answered" ELSE "running"
           code == IF denied THEN 401 ELSE 0
           end == ChainEnd(r)
<1>1. a = [r EXCEPT !.hdr = h, !.start = now, !.until = end, !.mode = m, !.st = st, !.code = code]
  BY DEF Arrived, Request, Headers
<1>2. r.hdr \in Headers
  BY DEF Request
<1>3. /\ h \in Headers /\ h.rid # Absent
      /\ h.outer = r.hdr.outer /\ h.deadline = r.hdr.deadline /\ h.debug = r.hdr.debug
      /\ h.inherited = r.hdr.inherited /\ h.cred = r.hdr.cred
      /\ r.hdr.rid # Absent => h = r.hdr
  BY <1>2 DEF Headers, Absent
<1>4. m \in Modes
  BY <1>2, DebugModeType
<1>5. m.pass_debug => m.enabled
  BY <1>2, DebugModeType
<1>6. m.debug_response => r.hdr.debug # None \/ r.hdr.inherited
  BY <1>2, DebugModeType
<1>7. m.enabled => need_auth(r.hdr) /\ ~auth_failed(r.svc, r.hdr)
  BY <1>2, DebugModeType DEF Denied
<1>8. m.enabled /\ ~r.svc.debug /\ r.svc.access # "granted" => check_debug_auth(r.hdr.cred)
  BY <1>7 DEF auth_failed
<1>15. st \in {"answered", "running"} /\ code \in {0, 401} /\ end \in Int
  OBVIOUS
<1> HIDE DEF h, m, st, code, end, a
<1>16. a \in Request
  <2>1. a = [hdr |-> h, unwrap |-> r.unwrap, from |-> r.from, root |-> r.root, svc |-> r.svc, budget |-> r.budget,
             fast |-> r.fast, sent |-> r.sent, start |-> now, until |-> end, st |-> st,
             code |-> code, wrapped |-> r.wrapped, seen |-> r.seen, mode |-> m]
    BY <1>1 DEF Request
  <2> QED
    BY <1>3, <1>4, <1>15, <2>1 DEF Request, Modes
<1>9. /\ a \in Request
      /\ a.hdr = h /\ a.start = now /\ a.until = end /\ a.mode = m
      /\ a.st \in {"answered", "running"} /\ a.code \in {0, 401}
      /\ a.from = r.from /\ a.root = r.root /\ a.svc = r.svc /\ a.sent = r.sent
      /\ a.budget = r.budget /\ a.unwrap = r.unwrap /\ a.wrapped = r.wrapped
  BY <1>1, <1>15, <1>16 DEF Request
<1>10. HasLimit(h) = HasLimit(r.hdr) /\ header_timeout(h) = header_timeout(r.hdr)
  BY <1>3 DEF HasLimit, header_timeout
<1>11. a.start # Absent /\ Clocked(a, now)
  BY <1>9 DEF Absent, Clocked, Request
<1>12. Own(a)
  BY <1>3, <1>9, <1>10, <1>11 DEF Own, end
<1>13. OwnDebug(a)
  BY <1>3, <1>5, <1>6, <1>8, <1>9 DEF OwnDebug
<1>14. OwnBlame(a)
  BY <1>9 DEF OwnBlame, INSUFFICIENT_TIMEOUT, SERVER_TIMEOUT
<1> QED
  BY <1>3, <1>9, <1>11, <1>12, <1>13, <1>14 DEF a, Good3

LEMMA FreshType ==
    ASSUME NEW h \in Headers, NEW u \in BOOLEAN, NEW from \in Nat, NEW root \in Nat,
           NEW svc \in Services,
           NEW budget \in Nat, NEW fast \in BOOLEAN, now \in Nat
    PROVE  /\ Fresh(h, u, from, root, svc, budget, fast) \in Request
           /\ Good3(Fresh(h, u, from, root, svc, budget, fast))
           /\ Clocked(Fresh(h, u, from, root, svc, budget, fast), now)
<1> DEFINE f == Fresh(h, u, from, root, svc, budget, fast)
<1>1. NoDebug \in Modes /\ ~NoDebug.enabled /\ ~NoDebug.pass_debug /\ ~NoDebug.debug_response
  BY DebugModeType
<1>2. /\ f.st = "transit" /\ f.start = Absent /\ f.mode = NoDebug /\ f.wrapped = FALSE
      /\ f.sent = now
  BY DEF Fresh
<1>3. f \in Request
  BY <1>1 DEF Fresh, Request, Modes, Absent
<1> HIDE DEF f
<1> QED
  BY <1>1, <1>2, <1>3 DEF f, Good3, Own, OwnDebug, OwnBlame, Clocked

\* A client's request, as it is stored.
LEMMA ClientArrived ==
    ASSUME Inv, NEW f \in Request, NEW i \in Nat \ {0}, f.from = 0, f.root = i,
           f.st = "transit", f.start = Absent, ~f.wrapped, f.sent = now
    PROVE  /\ Arrived(f, i) \in Request /\ Good3(Arrived(f, i)) /\ Clocked(Arrived(f, i), now)
           /\ Arrived(f, i).code # 504 /\ Arrived(f, i).start # Absent
           /\ Arrived(f, i).from = 0 /\ Arrived(f, i).root = i
<1>1. now \in Nat /\ f.sent <= now
  BY OutgoingAssumption DEF Inv
<1>2. ChainEnd(f) \in Int /\ (HasLimit(f.hdr) => now + 2 * header_timeout(f.hdr) <= ChainEnd(f))
  <2>1. header_timeout(f.hdr) \in Int
    BY DEF Request, Headers, header_timeout, Absent
  <2>2. ChainEnd(f) = now + 2 * header_timeout(f.hdr)
    BY DEF ChainEnd
  <2> QED
    BY <1>1, <2>1, <2>2
<1> QED
  BY <1>1, <1>2, ArrivedType

LEMMA ClientFresh ==
    ASSUME Inv, NEW h \in Clients, NEW svc \in Services
    PROVE  /\ Len(reqs) + 1 \in Nat \ {0}
           /\ Fresh(h, FALSE, 0, Len(reqs) + 1, svc, 0, FALSE) \in Request
<1>1. Len(reqs) + 1 \in Nat \ {0} /\ now \in Nat
  BY OutgoingAssumption DEF Inv, Tree
<1>2. h \in Headers
  BY OutgoingAssumption
<1> QED
  BY <1>1, <1>2, FreshType

LEMMA ClientRequestInv ==
    ASSUME Inv, NEW h \in Clients, NEW svc \in Services, ClientRequest(h, svc)
    PROVE  Inv'
<1> DEFINE i == Len(reqs) + 1
           f == Fresh(h, FALSE, 0, i, svc, 0, FALSE)
           a == Arrived(f, i)
<1>1. reqs \in Seq(Request) /\ Len(reqs) \in Nat
  BY DEF Inv, Tree
<1>2. i \in Nat \ {0} /\ f \in Request
  BY ClientFresh
<1>3. f.from = 0 /\ f.root = i /\ f.st = "transit" /\ f.start = Absent /\ ~f.wrapped /\ f.sent = now
  BY DEF Fresh
<1>4. reqs' = Append(reqs, a) /\ UNCHANGED <<now, overruns>>
  BY DEF ClientRequest
<1> HIDE DEF f
<1>7. /\ a \in Request /\ Good3(a) /\ Clocked(a, now) /\ a.code # 504
      /\ a.start # Absent /\ a.from = 0 /\ a.root = i
  BY <1>2, <1>3, ClientArrived
<1> HIDE DEF a
<1>8. Append(reqs, a)[Len(reqs) + 1] = a
  BY <1>1, <1>7
<1>9. Linked(Append(reqs, a), Len(reqs) + 1) /\ Timed(Append(reqs, a), Len(reqs) + 1)
  BY <1>1, <1>7, <1>8 DEF Linked, Timed
<1>10. Tree(Append(reqs, a), now)
  BY <1>1, <1>7, <1>9, TreeGrows DEF Inv
<1> QED
  BY <1>4, <1>10 DEF Inv

LEMMA ArriveInv == ASSUME Inv, NEW i \in 1..Len(reqs), Arrive(i) PROVE Inv'
<1> DEFINE r == reqs[i]
           a == Arrived(r, i)
<1>1. reqs \in Seq(Request) /\ now \in Nat /\ r \in Request /\ i \in Nat \ {0}
  BY OutgoingAssumption DEF Inv, Tree
<1>2. Good3(r) /\ Linked(reqs, i) /\ Timed(reqs, i) /\ Clocked(r, now)
  BY DEF Inv, Tree
<1>3. /\ r.st = "transit" /\ UNCHANGED <<now, overruns>>
      /\ reqs' = [reqs EXCEPT ![i] = a]
  BY DEF Arrive
<1>4. r.start = Absent /\ r.sent <= now /\ r.from # 0
  BY <1>2, <1>3 DEF Good3, Own, Clocked, Linked
<1>5. r.hdr.rid # Absent
  <2>1. r.root \in 1..i /\ reqs[r.root].start # Absent /\ r.hdr.rid = reqs[r.root].hdr.rid
    BY <1>2, <1>4 DEF Linked
  <2>2. Own(reqs[r.root])
    BY <2>1 DEF Inv, Tree, Good3
  <2> QED
    BY <2>1, <2>2 DEF Own
<1>6. ChainEnd(r) \in Int /\ (HasLimit(r.hdr) => now + 2 * header_timeout(r.hdr) <= ChainEnd(r))
  <2> DEFINE p == reqs[r.from]
  <2>1. r.from \in 1..Len(reqs) /\ p \in Request
    BY <1>1, <1>2, <1>4 DEF Linked
  <2>2. r.hdr \in Headers /\ r.hdr.deadline # Absent
    BY <1>1, <1>2, <1>4 DEF Timed, Request
  <2>3. header_timeout(r.hdr) \in Nat /\ header_timeout(r.hdr) = r.hdr.deadline
    BY <2>2 DEF Headers, header_timeout
  <2>4. p.until \in Int /\ r.sent \in Nat
    BY <1>1, <2>1 DEF Request
  <2>5. CASE p.svc.decrease /\ HasLimit(p.hdr)
    <3>1. ChainEnd(r) = p.until + (now - r.sent) + 1
      BY <1>4, <2>5 DEF ChainEnd
    <3>2. r.sent + 2 * r.hdr.deadline <= p.until + 1
      BY <1>2, <1>4, <2>5 DEF Timed
    <3>3. \A n, d, s, u \in Int : s + 2 * d <= u + 1 => n + 2 * d <= u + (n - s) + 1
      OBVIOUS
    <3>4. now \in Int /\ r.hdr.deadline \in Int /\ r.sent \in Int /\ p.until \in Int
      BY <1>1, <2>3, <2>4
    <3>5. now + 2 * r.hdr.deadline <= p.until + (now - r.sent) + 1
      BY <3>2, <3>3, <3>4
    <3>6. p.until + (now - r.sent) + 1 \in Int
      BY <3>4
    <3> QED
      BY <2>3, <3>1, <3>5, <3>6
  <2>6. CASE ~(p.svc.decrease /\ HasLimit(p.hdr))
    <3>1. ChainEnd(r) = now + 2 * header_timeout(r.hdr)
      BY <1>4, <2>6 DEF ChainEnd
    <3> QED
      BY <1>1, <2>3, <3>1
  <2> QED
    BY <2>5, <2>6
<1>7. ~r.wrapped
  BY <1>2, <1>4 DEF Good3, Own
<1>8. /\ a \in Request /\ Good3(a) /\ Clocked(a, now) /\ a.code # 504
      /\ a.from = r.from /\ a.root = r.root /\ a.svc = r.svc /\ a.sent = r.sent
      /\ a.budget = r.budget /\ a.unwrap = r.unwrap /\ a.hdr = r.hdr
  BY <1>1, <1>3, <1>4, <1>5, <1>6, <1>7, ArrivedType
<1> HIDE DEF a
<1>9. Kept(reqs[i], a)
  BY <1>4, <1>8 DEF Kept
<1>10. Tree([reqs EXCEPT ![i] = a], now)
  BY <1>1, <1>8, <1>9, TreeChanges DEF Inv
<1> QED
  BY <1>3, <1>10 DEF Inv

-----------------------------------------------------------------------------
(* Calls.                                                                  *)

LEMMA ModifiedType ==
    ASSUME NEW r \in Request, NEW rid \in Int, NEW own \in OwnTimeouts,
           Budget(r, own) \in Nat
    PROVE  /\ Modified(r, rid, own) \in Headers
           /\ Modified(r, rid, own).rid = rid
           /\ Modified(r, rid, own).debug = None
           /\ Modified(r, rid, own).inherited = r.mode.pass_debug
           /\ Modified(r, rid, own).deadline = Rounded(Budget(r, own))
           /\ Modified(r, rid, own).cred \in {NoCredentials, r.hdr.cred}
<1>1. Rounded(own) \in Nat /\ Rounded(Budget(r, own)) \in Nat
  BY RoundedBound, OutgoingAssumption
<1>2. r.hdr \in Headers /\ r.mode \in Modes
  BY DEF Request, Modes
<1> DEFINE cred == IF r.mode.pass_debug THEN r.hdr.cred ELSE NoCredentials
<1>6. None \in Secrets /\ None \in {None, "on", "nopass"}
  BY DEF Secrets
<1>3. NoCredentials \in Credentials
  BY <1>6 DEF Credentials, NoCredentials
<1>7. cred \in Credentials /\ cred \in {NoCredentials, r.hdr.cred}
  <2>1. r.hdr.cred \in Credentials
    BY <1>2 DEF Headers
  <2> QED
    BY <1>3, <2>1
<1>8. r.mode.pass_debug \in BOOLEAN
  BY <1>2 DEF Modes
<1>9. Modified(r, rid, own) =
        [rid |-> rid, outer |-> Rounded(own), deadline |-> Rounded(Budget(r, own)),
         inherited |-> r.mode.pass_debug, cred |-> cred, debug |-> None, notpl |-> FALSE]
  BY DEF Modified
<1> HIDE DEF cred
<1>5. Modified(r, rid, own) \in Headers
  BY <1>1, <1>6, <1>7, <1>8, <1>9 DEF Headers
<1> QED
  BY <1>5, <1>7, <1>9

\* Whichever task of request i makes a call: it finds i's id and hook.
LEMMA OwnContext ==
    ASSUME Contexts(tasks, reqs), NEW i \in 1..Len(reqs), NEW t \in {"page", "child"},
           tasks[i][t].live
    PROVE  tasks[i][t].rc = i /\ tasks[i][t].hook = i /\ i # 0 /\ reqs[i].start # Absent
<1>1. InContext(tasks, reqs, i)
  BY DEF Contexts
<1>2. CASE t = "page"
  BY <1>1, <1>2 DEF InContext, Finds
<1>3. CASE t = "child"
  BY <1>1, <1>3 DEF InContext, Finds
<1> QED
  BY <1>2, <1>3

LEMMA CallInv ==
    ASSUME Inv, Contexts(tasks, reqs), NEW i \in 1..Len(reqs), NEW t \in {"page", "child"},
           NEW own \in OwnTimeouts, NEW svc \in Services, NEW fast \in BOOLEAN,
           Call(i, t, own, svc, fast)
    PROVE  Inv'
<1> DEFINE r == reqs[i]
           b == Budget(r, own)
           h == Modified(r, r.hdr.rid, own)
           f == Fresh(h, r.mode.enabled, i, r.root, svc, b, fast)
<1>1. reqs \in Seq(Request) /\ Len(reqs) \in Nat /\ now \in Nat /\ r \in Request /\ i \in Nat \ {0}
  BY OutgoingAssumption DEF Inv, Tree
<1>2. Good3(r) /\ Linked(reqs, i) /\ Clocked(r, now)
  BY DEF Inv, Tree
<1>16. tasks[i][t].rc = i /\ tasks[i][t].hook = i /\ i # 0 /\ r.start # Absent
  BY OwnContext DEF Call
<1>17. /\ BudgetIn(tasks[i][t], own) = b /\ Hooked(tasks[i][t], own) = h
       /\ debug_enabled(tasks[i][t]) = r.mode.enabled
  <2>1. r.mode.enabled \in BOOLEAN
    BY <1>1 DEF Request
  <2> QED
    BY <1>16, <2>1 DEF BudgetIn, Hooked, RequestId, debug_enabled
<1>3. /\ ~OutOfTime(b)
      /\ reqs' = Append(reqs, f)
      /\ overruns' = IF Overruns(r, b) THEN overruns \cup {<<r.hdr.outer, b>>} ELSE overruns
      /\ UNCHANGED now
  BY <1>16, <1>17 DEF Call
<1>4. r.start # Absent /\ r.start \in Nat
  BY <1>1, <1>16 DEF Request
<1>5. /\ b \in Nat \ {0}
      /\ r.svc.decrease /\ HasLimit(r.hdr) => b <= 2 * header_timeout(r.hdr) - (now - r.start)
  BY <1>1, <1>3, <1>4, BudgetBound
<1>6. /\ h \in Headers /\ h.rid = r.hdr.rid /\ h.debug = None
      /\ h.inherited = r.mode.pass_debug /\ h.deadline = Rounded(b)
      /\ h.cred \in {NoCredentials, r.hdr.cred}
  <2>1. r.hdr.rid \in Int
    BY <1>1 DEF Request, Headers
  <2> QED
    BY <1>1, <1>5, <2>1, ModifiedType
<1>7. Rounded(b) \in Nat /\ 2 * Rounded(b) <= b + 1
  BY <1>5, RoundedBound
<1>8. r.root \in 1..i
  BY <1>2 DEF Linked
<1> HIDE DEF b, h
<1>9. /\ f \in Request /\ Good3(f) /\ Clocked(f, now)
      /\ f.hdr = h /\ f.from = i /\ f.root = r.root /\ f.sent = now /\ f.budget = b /\ f.code = 0
      /\ f.unwrap = r.mode.enabled
  <2>1. r.mode.enabled \in BOOLEAN
    BY <1>1 DEF Request
  <2>2. f \in Request /\ Good3(f) /\ Clocked(f, now)
    BY <1>1, <1>5, <1>6, <1>8, <2>1, FreshType
  <2>3. /\ f.hdr = h /\ f.from = i /\ f.root = r.root /\ f.sent = now /\ f.budget = b
        /\ f.code = 0 /\ f.unwrap = r.mode.enabled
    BY DEF Fresh
  <2> QED
    BY <2>2, <2>3
<1> HIDE DEF f
<1> DEFINE q == Append(reqs, f)
<1>10. q[Len(reqs) + 1] = f /\ \A k \in 1..Len(reqs) : q[k] = reqs[k]
  BY <1>1, <1>9
<1> HIDE DEF q
<1>11. /\ r.root \in 1..Len(reqs) /\ reqs[r.root].start # Absent
       /\ r.hdr.rid = reqs[r.root].hdr.rid
       /\ r.hdr.cred \in {NoCredentials, reqs[r.root].hdr.cred}
  BY <1>1, <1>2, <1>4, <1>8 DEF Linked
<1>12. Linked(q, Len(reqs) + 1)
  <2>1. q[i] = r /\ q[r.root] = reqs[r.root]
    BY <1>10, <1>11
  <2>2. i \in 0..(Len(reqs) + 1 - 1) /\ r.root \in 1..(Len(reqs) + 1) /\ i # 0
    BY <1>1, <1>11
  <2> QED
    BY <1>4, <1>6, <1>9, <1>10, <1>11, <2>1, <2>2 DEF Linked
<1>13. Timed(q, Len(reqs) + 1)
  <2>1. q[i] = r
    BY <1>10
  <2>2. h.deadline # Absent /\ b > 0
    BY <1>5, <1>6, <1>7 DEF Absent
  <2>3. r.svc.decrease /\ HasLimit(r.hdr) => now + 2 * h.deadline <= r.until + 1
    <3> SUFFICES ASSUME r.svc.decrease, HasLimit(r.hdr) PROVE now + 2 * h.deadline <= r.until + 1
      OBVIOUS
    <3>1. r.start + 2 * header_timeout(r.hdr) <= r.until
      BY <1>2, <1>4 DEF Good3, Own
    <3>5. r.hdr \in Headers /\ r.until \in Int
      BY <1>1 DEF Request
    <3>6. header_timeout(r.hdr) \in Nat
      BY <3>5, HeaderTimeoutType
    <3>2. header_timeout(r.hdr) \in Int /\ r.until \in Int /\ r.start \in Int /\ h.deadline \in Int
          /\ b \in Int /\ now \in Int
      BY <1>1, <1>4, <1>5, <1>6, <1>7, <3>5, <3>6
    <3>3. b <= 2 * header_timeout(r.hdr) - (now - r.start) /\ 2 * h.deadline <= b + 1
      BY <1>5, <1>6, <1>7
    <3>4. \A n, d, s, u, bb, tt \in Int :
             s + 2 * tt <= u /\ bb <= 2 * tt - (n - s) /\ 2 * d <= bb + 1 => n + 2 * d <= u + 1
      OBVIOUS
    <3> QED
      BY <3>1, <3>2, <3>3, <3>4
  <2> QED
    BY <1>9, <1>10, <2>1, <2>2, <2>3 DEF Timed
<1>14. Tree(q, now)
  <2>1. Tree(reqs, now) /\ f.code # 504
    BY <1>9 DEF Inv
  <2> QED
    BY <1>1, <1>9, <1>12, <1>13, <2>1, TreeGrows DEF q
<1>15. overruns' \subseteq (Nat \X Nat)
  <2>1. Overruns(r, b) => r.hdr.outer \in Nat
    <3>1. r.hdr.outer \in Nat \cup {Absent}
      BY <1>1 DEF Request, Headers
    <3> QED
      BY <3>1 DEF Overruns, Absent
  <2> QED
    BY <1>3, <1>5, <2>1 DEF Inv
<1> QED
  BY <1>3, <1>14, <1>15 DEF Inv, q

-----------------------------------------------------------------------------
(* Answers.                                                                *)

LEMMA AnsweredType ==
    ASSUME NEW x \in Request, NEW code \in Nat, NEW w \in BOOLEAN
    PROVE  [x EXCEPT !.st = "answered", !.code = code, !.wrapped = w] \in Request
<1> DEFINE done == "answered"
           y == [x EXCEPT !.st = done, !.code = code, !.wrapped = w]
<1>3. y = [x EXCEPT !.st = done, !.code = code, !.wrapped = w]
  OBVIOUS
<1>4. done \in {"transit", "running", "answered"}
  OBVIOUS
<1> HIDE DEF done, y
<1>1. y = [hdr |-> x.hdr, unwrap |-> x.unwrap, from |-> x.from, root |-> x.root, svc |-> x.svc, budget |-> x.budget,
           fast |-> x.fast, sent |-> x.sent, start |-> x.start, until |-> x.until,
           st |-> done, code |-> code, wrapped |-> w, seen |-> x.seen, mode |-> x.mode]
  BY <1>3 DEF Request
<1>2. y \in Request
  BY <1>1, <1>4 DEF Request
<1> QED
  BY <1>2 DEF y, done

\* A running request is answered, with a blame that fits.
LEMMA AnsweredTree ==
    ASSUME NEW q, NEW t \in Nat, Tree(q, t), NEW i \in 1..Len(q), q[i].st = "running",
           NEW code \in Nat, NEW w, w = q[i].mode.debug_response,
           code = INSUFFICIENT_TIMEOUT => timeout_was_reduced(q[i].hdr),
           code = SERVER_TIMEOUT => ~timeout_was_reduced(q[i].hdr),
           code = 504 => \E k \in 1..Len(q) : q[k].from = i /\ ~timeout_was_reduced(q[k].hdr)
    PROVE  Tree([q EXCEPT ![i].st = "answered", ![i].code = code, ![i].wrapped = w], t)
<1> DEFINE r == [q[i] EXCEPT !.st = "answered", !.code = code, !.wrapped = w]
<1>1. q \in Seq(Request) /\ q[i] \in Request /\ Good3(q[i]) /\ Clocked(q[i], t)
  BY DEF Tree
<1>2. w \in BOOLEAN
  BY <1>1 DEF Request
<1>3. /\ r.hdr = q[i].hdr /\ r.from = q[i].from /\ r.root = q[i].root /\ r.svc = q[i].svc
      /\ r.budget = q[i].budget /\ r.sent = q[i].sent /\ r.start = q[i].start
      /\ r.unwrap = q[i].unwrap
      /\ r.until = q[i].until /\ r.mode = q[i].mode
      /\ r.st = "answered" /\ r.code = code /\ r.wrapped = w
  BY <1>1 DEF Request
<1>4. r \in Request
  BY <1>1, <1>2, AnsweredType
<1>5. [q EXCEPT ![i].st = "answered", ![i].code = code, ![i].wrapped = w] = [q EXCEPT ![i] = r]
  BY <1>1 DEF Request
<1> HIDE DEF r
<1>6. q[i].start # Absent
  BY <1>1 DEF Good3, Own
<1>7. Kept(q[i], r) /\ Clocked(r, t)
  BY <1>1, <1>3 DEF Kept, Clocked
<1>8. Good3(r)
  BY <1>1, <1>3, <1>6 DEF Good3, Own, OwnDebug, OwnBlame
<1>9. Tree([q EXCEPT ![i] = r], t)
  BY <1>3, <1>4, <1>7, <1>8, TreeChanges
<1> QED
  BY <1>5, <1>9

\* A caller has seen the result of a call.
LEMMA SeenTree ==
    ASSUME NEW q, NEW t \in Nat, Tree(q, t), NEW c \in 1..Len(q), NEW code \in Nat
    PROVE  Tree([q EXCEPT ![c].seen = code], t)
<1> DEFINE r == [q[c] EXCEPT !.seen = code]
<1>1. q \in Seq(Request) /\ q[c] \in Request /\ Good3(q[c]) /\ Clocked(q[c], t)
  BY DEF Tree
<1>2. /\ r.hdr = q[c].hdr /\ r.from = q[c].from /\ r.root = q[c].root /\ r.svc = q[c].svc
      /\ r.budget = q[c].budget /\ r.sent = q[c].sent /\ r.start = q[c].start
      /\ r.unwrap = q[c].unwrap
      /\ r.until = q[c].until /\ r.mode = q[c].mode /\ r.st = q[c].st /\ r.code = q[c].code
      /\ r.wrapped = q[c].wrapped /\ r \in Request
  BY <1>1 DEF Request
<1>3. [q EXCEPT ![c].seen = code] = [q EXCEPT ![c] = r]
  BY <1>1
<1> HIDE DEF r
<1>4. Kept(q[c], r) /\ Clocked(r, t) /\ Good3(r)
  BY <1>1, <1>2 DEF Kept, Clocked, Good3, Own, OwnDebug, OwnBlame
<1>5. Tree([q EXCEPT ![c] = r], t)
  BY <1>2, <1>4, TreeChanges
<1> QED
  BY <1>3, <1>5

\* What fail_fast_error_handler makes of a result is a blame that fits.
LEMMA FailFastBlame ==
    ASSUME NEW h, NEW code \in Nat
    PROVE  /\ fail_fast(h, code) \in Nat
           /\ fail_fast(h, code) = INSUFFICIENT_TIMEOUT => timeout_was_reduced(h)
           /\ fail_fast(h, code) = SERVER_TIMEOUT => ~timeout_was_reduced(h)
           /\ fail_fast(h, code) = 504 => code = SERVER_TIMEOUT
BY DEF fail_fast, out_of_request_time, Passed, INSUFFICIENT_TIMEOUT, SERVER_TIMEOUT

LEMMA ResultTree ==
    ASSUME Inv, NEW c \in 1..Len(reqs), NEW code \in Nat, NEW parsed \in BOOLEAN,
           Awaited(c), Result(c, code, parsed),
           code = SERVER_TIMEOUT => ~timeout_was_reduced(reqs[c].hdr)
    PROVE  Tree(reqs', now)
<1> DEFINE i == reqs[c].from
           told == [reqs EXCEPT ![c].seen = code]
           ff == fail_fast(reqs[i].hdr, code)
<1>1. /\ reqs \in Seq(Request) /\ Len(reqs) \in Nat /\ now \in Nat
      /\ Tree(reqs, now) /\ Linked(reqs, c)
  BY OutgoingAssumption DEF Inv, Tree
<1>2. i \in 1..Len(reqs) /\ i # c /\ reqs[i].st = "running"
  BY <1>1 DEF Awaited, Linked
<1>3. Tree(told, now)
  BY <1>1, SeenTree
<1>4. /\ Len(told) = Len(reqs) /\ told[i] = reqs[i]
      /\ told[c].from = i /\ told[c].hdr = reqs[c].hdr
  <2>1. reqs[c] \in Request
    BY <1>1
  <2>2. told[c] = [reqs[c] EXCEPT !.seen = code]
    BY <1>1
  <2> QED
    BY <1>1, <1>2, <2>1, <2>2 DEF Request
<1>5. CASE reqs[c].fast /\ (code >= 400 \/ ~parsed)
  <2>1. reqs' = [told EXCEPT ![i].st = "answered", ![i].code = ff,
                             ![i].wrapped = reqs[i].mode.debug_response]
    BY <1>5 DEF Result
  <2>2. /\ ff \in Nat
        /\ ff = INSUFFICIENT_TIMEOUT => timeout_was_reduced(reqs[i].hdr)
        /\ ff = SERVER_TIMEOUT => ~timeout_was_reduced(reqs[i].hdr)
        /\ ff = 504 => code = SERVER_TIMEOUT
    BY FailFastBlame
  <2>3. ff = 504 => \E k \in 1..Len(told) : told[k].from = i /\ ~timeout_was_reduced(told[k].hdr)
    BY <1>4, <2>2
  <2>4. /\ i \in 1..Len(told) /\ told[i].st = "running"
        /\ reqs[i].mode.debug_response = told[i].mode.debug_response
        /\ ff = INSUFFICIENT_TIMEOUT => timeout_was_reduced(told[i].hdr)
        /\ ff = SERVER_TIMEOUT => ~timeout_was_reduced(told[i].hdr)
    BY <1>2, <1>4, <2>2
  <2> DEFINE w == reqs[i].mode.debug_response
  <2>5. ff \in Nat /\ w = told[i].mode.debug_response
    BY <2>2, <2>4
  <2>6. reqs' = [told EXCEPT ![i].st = "answered", ![i].code = ff, ![i].wrapped = w]
    BY <2>1
  <2> HIDE DEF told, ff, w, i
  <2>7. Tree([told EXCEPT ![i].st = "answered", ![i].code = ff, ![i].wrapped = w], now)
    BY <1>1, <1>3, <2>3, <2>4, <2>5, AnsweredTree
  <2> QED
    BY <2>6, <2>7
<1>6. CASE ~(reqs[c].fast /\ (code >= 400 \/ ~parsed))
  BY <1>3, <1>6 DEF Result
<1> QED
  BY <1>5, <1>6

LEMMA OutOfTimeBlame ==
    ASSUME NEW h
    PROVE  /\ out_of_request_time(h) \in Nat \ {504}
           /\ out_of_request_time(h) = INSUFFICIENT_TIMEOUT => timeout_was_reduced(h)
           /\ out_of_request_time(h) = SERVER_TIMEOUT => ~timeout_was_reduced(h)
BY DEF out_of_request_time, INSUFFICIENT_TIMEOUT, SERVER_TIMEOUT

LEMMA AnswerInv ==
    ASSUME Inv, NEW i \in 1..Len(reqs), NEW code \in Nat \ {504}, reqs[i].st = "running",
           reqs' = Answered(i, code), UNCHANGED <<now, overruns>>,
           code = INSUFFICIENT_TIMEOUT => timeout_was_reduced(reqs[i].hdr),
           code = SERVER_TIMEOUT => ~timeout_was_reduced(reqs[i].hdr)
    PROVE  Inv'
<1>1. now \in Nat /\ Tree(reqs, now)
  BY OutgoingAssumption DEF Inv
<1>2. Tree(Answered(i, code), now)
  BY <1>1, AnsweredTree DEF Answered
<1> QED
  BY <1>2 DEF Inv

LEMMA ReceiveInv ==
    ASSUME Inv, NEW c \in 1..Len(reqs), NEW parsed \in BOOLEAN, Receive(c, parsed)
    PROVE  Inv'
<1> DEFINE code == IF reqs[c].wrapped /\ ~reqs[c].unwrap THEN 200 ELSE reqs[c].code
<1>1. reqs[c] \in Request /\ OwnBlame(reqs[c])
  BY DEF Inv, Tree, Good3
<1>2. code \in Nat /\ (code = SERVER_TIMEOUT => ~timeout_was_reduced(reqs[c].hdr))
  <2>1. reqs[c].st = "answered" /\ reqs[c].code \in Nat
    BY <1>1 DEF Receive, Request
  <2> QED
    BY <1>1, <2>1 DEF OwnBlame, SERVER_TIMEOUT
<1>3. Awaited(c) /\ Result(c, code, parsed) /\ UNCHANGED <<now, overruns>>
  BY DEF Receive
<1> HIDE DEF code
<1>4. Tree(reqs', now)
  BY <1>2, <1>3, ResultTree
<1> QED
  BY <1>3, <1>4 DEF Inv

LEMMA CallTimeoutInv == ASSUME Inv, NEW c \in 1..Len(reqs), CallTimeout(c) PROVE Inv'
<1> DEFINE code == out_of_request_time(reqs[c].hdr)
<1>1. code \in Nat /\ (code = SERVER_TIMEOUT => ~timeout_was_reduced(reqs[c].hdr))
  BY OutOfTimeBlame
<1>2. Awaited(c) /\ Result(c, code, TRUE) /\ UNCHANGED <<now, overruns>>
  BY DEF CallTimeout
<1> HIDE DEF code
<1>3. Tree(reqs', now)
  BY <1>1, <1>2, ResultTree
<1> QED
  BY <1>2, <1>3 DEF Inv

-----------------------------------------------------------------------------
(* Context variables.                                                      *)

Pair == [page : Task, child : Task]
Inside(i) == [live |-> TRUE, rc |-> i, hook |-> i]

LEMMA EnteredIs ==
    ASSUME NEW ts \in Seq(Pair), NEW i \in 1..Len(ts), NEW d \in BOOLEAN
    PROVE  Entered(ts, i, d) =
             IF d THEN ts ELSE [ts EXCEPT ![i] = [page |-> Inside(i), child |-> ts[i].child]]
<1>1. ts[i] \in Pair /\ i \in DOMAIN ts
  OBVIOUS
<1>4. create_task([create_task(NoTask) EXCEPT !.rc = i]) = [live |-> TRUE, rc |-> i, hook |-> 0]
  BY DEF create_task, NoTask
<1>5. \A v : [ts[i] EXCEPT !.page = v] = [page |-> v, child |-> ts[i].child]
  BY <1>1 DEF Pair
<1>2. EnterPage(ts, i) =
        [ts EXCEPT ![i] = [page |-> [live |-> TRUE, rc |-> i, hook |-> 0], child |-> ts[i].child]]
  BY <1>4, <1>5 DEF EnterPage
<1>3. set_extra_client_params(EnterPage(ts, i), i) =
        [ts EXCEPT ![i] = [page |-> Inside(i), child |-> ts[i].child]]
  BY <1>1, <1>2 DEF set_extra_client_params, Inside
<1> QED
  BY <1>3 DEF Entered

LEMMA LeftIs ==
    ASSUME NEW ts \in Seq(Pair), NEW i \in 1..Len(ts)
    PROVE  Left(ts, i) =
             [ts EXCEPT ![i] = [page |-> [live |-> FALSE, rc |-> ts[i].page.rc, hook |-> 0],
                                child |-> ts[i].child]]
<1>1. ts[i] \in Pair /\ i \in DOMAIN ts
  OBVIOUS
<1>3. \A v : [ts[i] EXCEPT !.page = v] = [page |-> v, child |-> ts[i].child]
  BY <1>1 DEF Pair
<1> QED
  BY <1>1, <1>3 DEF Left

\* The tasks of request i change, and the requests as far as they may.
LEMMA ContextChanges ==
    ASSUME NEW q, Contexts(tasks, q), NEW i \in 1..Len(q), NEW x \in Pair,
           NEW p, Len(p) = Len(q),
           \A k \in 1..Len(q) \ {i} : /\ p[k].st = "running" => q[k].st = "running"
                                      /\ q[k].start # Absent => p[k].start # Absent,
           Finds(x.page, i), Finds(x.child, i),
           p[i].st = "running" => x.page.live,
           x.page.live \/ x.child.live => p[i].start # Absent
    PROVE  Contexts([tasks EXCEPT ![i] = x], p)
<1> DEFINE ts == [tasks EXCEPT ![i] = x]
<1>1. tasks \in Seq(Pair) /\ Len(tasks) = Len(q)
  BY DEF Contexts, Pair
<1>2. /\ ts \in Seq(Pair) /\ Len(ts) = Len(p) /\ ts[i] = x
      /\ \A k \in 1..Len(q) \ {i} : ts[k] = tasks[k]
  BY <1>1
<1> HIDE DEF ts
<1>3. \A k \in 1..Len(q) : InContext(tasks, q, k)
  BY DEF Contexts
<1>4. ASSUME NEW k \in 1..Len(p) PROVE InContext(ts, p, k)
  <2>1. CASE k = i
    BY <1>2, <2>1 DEF InContext
  <2>2. CASE k # i
    <3>1. /\ k \in 1..Len(q) \ {i} /\ ts[k] = tasks[k] /\ InContext(tasks, q, k)
          /\ p[k].st = "running" => q[k].st = "running"
          /\ q[k].start # Absent => p[k].start # Absent
      <4>1. k \in 1..Len(q) \ {i}
        BY <2>2
      <4>2. ts[k] = tasks[k] /\ InContext(tasks, q, k)
        BY <1>2, <1>3, <4>1
      <4>3. /\ p[k].st = "running" => q[k].st = "running"
            /\ q[k].start # Absent => p[k].start # Absent
        BY <4>1
      <4> QED
        BY <4>1, <4>2, <4>3
    <3> QED
      BY <3>1 DEF InContext
  <2> QED
    BY <2>1, <2>2
<1>5. Contexts(ts, p)
  BY <1>2, <1>4 DEF Contexts, Pair
<1> QED
  BY <1>5 DEF ts

\* A request more, with its tasks.
LEMMA ContextGrows ==
    ASSUME NEW q \in Seq(Request), Contexts(tasks, q), NEW r \in Request, NEW x \in Pair,
           Finds(x.page, Len(q) + 1), Finds(x.child, Len(q) + 1),
           r.st = "running" => x.page.live,
           x.page.live \/ x.child.live => r.start # Absent
    PROVE  Contexts(Append(tasks, x), Append(q, r))
<1> DEFINE ts == Append(tasks, x)
           p == Append(q, r)
<1>1. tasks \in Seq(Pair) /\ Len(tasks) = Len(q) /\ Len(q) \in Nat
  BY DEF Contexts, Pair
<1>2. /\ ts \in Seq(Pair) /\ Len(ts) = Len(q) + 1 /\ Len(p) = Len(q) + 1
      /\ ts[Len(q) + 1] = x /\ p[Len(q) + 1] = r
      /\ \A k \in 1..Len(q) : ts[k] = tasks[k] /\ p[k] = q[k]
  BY <1>1
<1> HIDE DEF ts, p
<1>3. \A k \in 1..Len(q) : InContext(tasks, q, k)
  BY DEF Contexts
<1>4. ASSUME NEW k \in 1..Len(p) PROVE InContext(ts, p, k)
  <2>1. k \in 1..Len(q) \/ k = Len(q) + 1
    BY <1>1, <1>2
  <2> QED
    BY <1>2, <1>3, <2>1 DEF InContext
<1>5. Contexts(ts, p)
  BY <1>2, <1>4 DEF Contexts, Pair
<1> QED
  BY <1>5 DEF ts, p

LEMMA SeqEqual ==
    ASSUME NEW S, NEW s \in Seq(S), NEW u \in Seq(S), Len(s) = Len(u),
           \A k \in 1..Len(s) : s[k] = u[k]
    PROVE  s = u
OBVIOUS

LEMMA AppendExcept ==
    ASSUME NEW ts \in Seq(Pair), NEW u \in Pair, NEW v \in Pair
    PROVE  [Append(ts, u) EXCEPT ![Len(ts) + 1] = v] = Append(ts, v)
<1> DEFINE s == [Append(ts, u) EXCEPT ![Len(ts) + 1] = v]
<1>1. /\ Append(ts, u) \in Seq(Pair) /\ Len(Append(ts, u)) = Len(ts) + 1 /\ Len(ts) \in Nat
      /\ \A k \in 1..Len(ts) : Append(ts, u)[k] = ts[k]
  OBVIOUS
<1>2. /\ Append(ts, v) \in Seq(Pair) /\ Len(Append(ts, v)) = Len(ts) + 1
      /\ Append(ts, v)[Len(ts) + 1] = v /\ \A k \in 1..Len(ts) : Append(ts, v)[k] = ts[k]
  OBVIOUS
<1>3. /\ s \in Seq(Pair) /\ Len(s) = Len(ts) + 1 /\ s[Len(ts) + 1] = v
      /\ \A k \in 1..Len(ts) : s[k] = ts[k]
  <2> DEFINE w == Append(ts, u)
             n == Len(ts) + 1
  <2>1. w \in Seq(Pair) /\ Len(w) = n /\ n \in 1..Len(w)
    BY <1>1
  <2>2. n \notin 1..Len(ts) /\ 1..Len(ts) \subseteq 1..n
    BY <1>1
  <2> HIDE DEF w, n
  <2>3. /\ [w EXCEPT ![n] = v] \in Seq(Pair) /\ Len([w EXCEPT ![n] = v]) = n
        /\ [w EXCEPT ![n] = v][n] = v
        /\ \A k \in 1..n : k # n => [w EXCEPT ![n] = v][k] = w[k]
    BY <2>1
  <2> QED
    BY <1>1, <2>2, <2>3 DEF w, n
<1> HIDE DEF s
<1>4. \A k \in 1..(Len(ts) + 1) : s[k] = Append(ts, v)[k]
  BY <1>1, <1>2, <1>3
<1>5. s = Append(ts, v)
  BY <1>1, <1>2, <1>3, <1>4, SeqEqual
<1> QED
  BY <1>5 DEF s

LEMMA NoTasksType == NoTasks \in Pair /\ ~NoTasks.page.live /\ ~NoTasks.child.live
BY DEF NoTasks, NoTask, Pair, Task

LEMMA ArrivedState ==
    ASSUME NEW r \in Request, NEW i, now \in Nat
    PROVE  /\ Arrived(r, i).st = IF Denied(r) THEN "answered" ELSE "running"
           /\ Arrived(r, i).start # Absent
BY DEF Arrived, Request, Absent

-----------------------------------------------------------------------------
(* The whole.                                                              *)

LEMMA TickInv == ASSUME Inv, Tick PROVE Inv'
<1>1. now \in Nat /\ now' = now + 1 /\ now' \in 0..Horizon /\ reqs' = reqs /\ overruns' = overruns
  BY OutgoingAssumption DEF Inv, Tick
<1>2. Tree(reqs, now)
  BY DEF Inv
<1>3. ASSUME NEW r \in Request, Clocked(r, now) PROVE Clocked(r, now + 1)
  <2>1. r.sent \in Nat /\ r.start \in Nat \cup {Absent}
    BY DEF Request
  <2> QED
    BY <1>1, <1>3, <2>1 DEF Clocked, Absent
<1>4. Tree(reqs, now + 1)
  BY <1>2, <1>3 DEF Tree
<1> QED
  BY <1>1, <1>4 DEF Inv

LEMMA InitInv == ASSUME Init PROVE Inv
BY OutgoingAssumption DEF Init, Inv, Tree

LEMMA NextInv == ASSUME Inv, Contexts(tasks, reqs), [Next]_vars PROVE Inv'
<1>1. CASE \E h \in Clients, svc \in Services : ClientRequest(h, svc)
  BY <1>1, ClientRequestInv
<1>2. CASE \E i \in 1..Len(reqs) : Arrive(i)
  BY <1>2, ArriveInv
<1>3. CASE \E i \in 1..Len(reqs) : \E t \in {"page", "child"}, own \in OwnTimeouts,
              svc \in Services, fast \in BOOLEAN : Call(i, t, own, svc, fast)
  BY <1>3, CallInv
<1>4. CASE \E i \in 1..Len(reqs) : \E own \in OwnTimeouts : OutOfRequestTime(i, own)
  <2>1. PICK i \in 1..Len(reqs), own \in OwnTimeouts : OutOfRequestTime(i, own)
    BY <1>4
  <2> DEFINE code == out_of_request_time(reqs[i].hdr)
  <2>2. /\ code \in Nat \ {504}
        /\ code = INSUFFICIENT_TIMEOUT => timeout_was_reduced(reqs[i].hdr)
        /\ code = SERVER_TIMEOUT => ~timeout_was_reduced(reqs[i].hdr)
    BY OutOfTimeBlame
  <2>3. reqs[i].st = "running" /\ reqs' = Answered(i, code) /\ UNCHANGED <<now, overruns>>
    BY <2>1 DEF OutOfRequestTime
  <2> HIDE DEF code
  <2> QED
    BY <2>2, <2>3, AnswerInv
<1>5. CASE \E i \in 1..Len(reqs) : \E code \in Codes : Answer(i, code)
  <2>1. PICK i \in 1..Len(reqs), code \in Codes : Answer(i, code)
    BY <1>5
  <2>2. code \in Nat \ {504} /\ code # INSUFFICIENT_TIMEOUT /\ code # SERVER_TIMEOUT
    BY OutgoingAssumption
  <2>3. reqs[i].st = "running" /\ reqs' = Answered(i, code) /\ UNCHANGED <<now, overruns>>
    BY <2>1 DEF Answer
  <2> QED
    BY <2>2, <2>3, AnswerInv
<1>6. CASE \E i \in 1..Len(reqs) : \E parsed \in BOOLEAN : Receive(i, parsed)
  BY <1>6, ReceiveInv
<1>7. CASE \E i \in 1..Len(reqs) : CallTimeout(i)
  BY <1>7, CallTimeoutInv
<1>8. CASE Tick
  BY <1>8, TickInv
<1>10. CASE \E i \in 1..Len(reqs) : CreateTask(i)
  BY <1>10 DEF CreateTask, Inv
<1>9. CASE UNCHANGED vars
  BY <1>9 DEF vars, Inv
<1> QED
  BY <1>1, <1>2, <1>3, <1>4, <1>5, <1>6, <1>7, <1>8, <1>9, <1>10 DEF Next

\* A request that runs stays started, so its tasks keep what they find.
LEMMA ResultContexts ==
    ASSUME Inv, Contexts(tasks, reqs), NEW c \in 1..Len(reqs), NEW code, NEW parsed,
           Awaited(c), Result(c, code, parsed)
    PROVE  Contexts(tasks', reqs')
<1> DEFINE i == reqs[c].from
           told == [reqs EXCEPT ![c].seen = code]
           x == [page |-> [live |-> FALSE, rc |-> tasks[i].page.rc, hook |-> 0],
                 child |-> tasks[i].child]
<1>1. /\ reqs \in Seq(Request) /\ Len(reqs) \in Nat /\ Linked(reqs, c)
      /\ tasks \in Seq(Pair) /\ Len(tasks) = Len(reqs)
  BY DEF Inv, Tree, Contexts, Pair
<1>2. i \in 1..Len(reqs) /\ i # c /\ reqs[i].st = "running"
  BY <1>1 DEF Awaited, Linked
<1>3. /\ Len(told) = Len(reqs) /\ DOMAIN told = 1..Len(reqs)
      /\ \A k \in 1..Len(reqs) : told[k].st = reqs[k].st /\ told[k].start = reqs[k].start
  <2>1. DOMAIN told = 1..Len(reqs) /\ Len(told) = Len(reqs)
    BY <1>1
  <2>2. \A k \in 1..Len(reqs) : told[k] = IF k = c THEN [reqs[c] EXCEPT !.seen = code] ELSE reqs[k]
    BY <1>1
  <2>3. reqs[c] \in Request
    BY <1>1
  <2>4. /\ [reqs[c] EXCEPT !.seen = code].st = reqs[c].st
        /\ [reqs[c] EXCEPT !.seen = code].start = reqs[c].start
    BY <2>3 DEF Request
  <2> HIDE DEF told
  <2> QED
    BY <2>1, <2>2, <2>4
<1>4. CASE reqs[c].fast /\ (code >= 400 \/ ~parsed)
  <2> DEFINE p == [told EXCEPT ![i].st = "answered", ![i].code = fail_fast(reqs[i].hdr, code),
                               ![i].wrapped = reqs[i].mode.debug_response]
  <2>1. reqs' = p /\ tasks' = Left(tasks, i)
    BY <1>4 DEF Result
  <2>2. /\ Len(p) = Len(reqs) /\ p[i].st = "answered" /\ p[i].start = reqs[i].start
        /\ \A k \in 1..Len(reqs) \ {i} : p[k].st = reqs[k].st /\ p[k].start = reqs[k].start
    <3> DEFINE s == [told[i] EXCEPT !.st = "answered", !.code = fail_fast(reqs[i].hdr, code),
                                    !.wrapped = reqs[i].mode.debug_response]
    <3>1. told[i] = reqs[i] /\ reqs[i] \in Request
      BY <1>1, <1>2
    <3>2. s.st = "answered" /\ s.start = reqs[i].start
      BY <3>1 DEF Request
    <3> HIDE DEF told
    <3>3. p = [told EXCEPT ![i] = s]
      BY <1>2, <1>3
    <3> HIDE DEF p, s
    <3> QED
      BY <1>1, <1>2, <1>3, <3>2, <3>3
  <2>3. tasks' = [tasks EXCEPT ![i] = x]
    BY <1>1, <1>2, <2>1, LeftIs
  <2>4. tasks[i] \in Pair /\ InContext(tasks, reqs, i)
    BY <1>1, <1>2 DEF Contexts
  <2>5. x \in Pair /\ ~x.page.live /\ x.child = tasks[i].child
    BY <2>4 DEF Pair, Task
  <2>6. /\ Finds(x.page, i) /\ Finds(x.child, i)
        /\ x.page.live \/ x.child.live => reqs[i].start # Absent
    BY <2>4, <2>5 DEF InContext, Finds
  <2> HIDE DEF p, x, i
  <2>7. Contexts([tasks EXCEPT ![i] = x], p)
    BY <1>2, <2>2, <2>5, <2>6, ContextChanges
  <2> QED
    BY <2>1, <2>3, <2>7
<1>5. CASE ~(reqs[c].fast /\ (code >= 400 \/ ~parsed))
  <2>1. reqs' = told /\ tasks' = tasks
    BY <1>5 DEF Result
  <2> HIDE DEF told
  <2> QED
    BY <1>3, <2>1 DEF Contexts, InContext
<1> QED
  BY <1>4, <1>5

LEMMA AnsweredContexts ==
    ASSUME Inv, Contexts(tasks, reqs), NEW i \in 1..Len(reqs), NEW code,
           reqs[i].st = "running", reqs' = Answered(i, code), tasks' = Left(tasks, i)
    PROVE  Contexts(tasks', reqs')
<1> DEFINE p == Answered(i, code)
           x == [page |-> [live |-> FALSE, rc |-> tasks[i].page.rc, hook |-> 0],
                 child |-> tasks[i].child]
<1>1. /\ reqs \in Seq(Request) /\ tasks \in Seq(Pair) /\ Len(tasks) = Len(reqs)
      /\ InContext(tasks, reqs, i)
  BY DEF Inv, Tree, Contexts, Pair
<1>2. /\ Len(p) = Len(reqs) /\ p[i].st = "answered" /\ p[i].start = reqs[i].start
      /\ \A k \in 1..Len(reqs) \ {i} : p[k] = reqs[k]
  BY <1>1 DEF Answered, Request
<1>3. tasks' = [tasks EXCEPT ![i] = x]
  BY <1>1, LeftIs
<1>4. tasks[i] \in Pair
  BY <1>1
<1>5. x \in Pair /\ ~x.page.live /\ x.child = tasks[i].child
  BY <1>4 DEF Pair, Task
<1>6. /\ Finds(x.page, i) /\ Finds(x.child, i)
      /\ x.page.live \/ x.child.live => reqs[i].start # Absent
  BY <1>1, <1>5 DEF InContext, Finds
<1> HIDE DEF p, x
<1>7. Contexts([tasks EXCEPT ![i] = x], p)
  BY <1>2, <1>5, <1>6, ContextChanges
<1> QED
  BY <1>3, <1>7 DEF p

\* Every step leaves each task with the context of its own request.
LEMMA NextContexts == ASSUME Inv, Contexts(tasks, reqs), [Next]_vars PROVE Contexts(tasks', reqs')
<1>a. /\ reqs \in Seq(Request) /\ Len(reqs) \in Nat /\ now \in Nat
      /\ tasks \in Seq(Pair) /\ Len(tasks) = Len(reqs)
      /\ \A k \in 1..Len(reqs) : InContext(tasks, reqs, k) /\ tasks[k] \in Pair /\ Good3(reqs[k])
  <2>1. reqs \in Seq(Request) /\ now \in Nat /\ \A k \in 1..Len(reqs) : Good3(reqs[k])
    BY OutgoingAssumption DEF Inv, Tree
  <2>2. /\ tasks \in Seq(Pair) /\ Len(tasks) = Len(reqs)
        /\ \A k \in 1..Len(reqs) : InContext(tasks, reqs, k)
    BY DEF Contexts, Pair
  <2>3. Len(reqs) \in Nat
    BY <2>1
  <2>4. \A k \in 1..Len(reqs) : tasks[k] \in Pair
    BY <2>2
  <2> QED
    BY <2>1, <2>2, <2>3, <2>4
<1>b. ASSUME NEW i PROVE Inside(i).live /\ Inside(i).rc = i /\ Inside(i).hook = i
  BY DEF Inside
<1>c. ASSUME NEW i \in Nat PROVE Inside(i) \in Task
  BY DEF Inside, Task
<1>1. CASE \E h \in Clients, svc \in Services : ClientRequest(h, svc)
  <2>1. PICK h \in Clients, svc \in Services : ClientRequest(h, svc)
    BY <1>1
  <2> DEFINE i == Len(reqs) + 1
             f == Fresh(h, FALSE, 0, i, svc, 0, FALSE)
             a == Arrived(f, i)
             x == IF Denied(f) THEN NoTasks ELSE [page |-> Inside(i), child |-> NoTask]
  <2>2. reqs' = Append(reqs, a) /\ tasks' = Entered(Append(tasks, NoTasks), i, Denied(f))
    BY <2>1 DEF ClientRequest
  <2>3. i \in Nat \ {0} /\ f \in Request
    BY ClientFresh
  <2>4. f.from = 0 /\ f.root = i /\ f.st = "transit" /\ f.start = Absent /\ ~f.wrapped /\ f.sent = now
    BY DEF Fresh
  <2> HIDE DEF f
  <2>5. a \in Request
    BY <2>3, <2>4, ClientArrived
  <2>6. a.st = (IF Denied(f) THEN "answered" ELSE "running") /\ a.start # Absent
    BY <1>a, <2>3, ArrivedState
  <2>7. Denied(f) \in BOOLEAN
    BY DEF Denied
  <2> HIDE DEF a
  <2>8. tasks' = Append(tasks, x)
    <3>1. /\ Append(tasks, NoTasks) \in Seq(Pair) /\ i \in 1..Len(Append(tasks, NoTasks))
          /\ Append(tasks, NoTasks)[i] = NoTasks /\ NoTasks.child = NoTask
      BY <1>a, NoTasksType DEF NoTasks
    <3>2. \A v \in Pair : [Append(tasks, NoTasks) EXCEPT ![i] = v] = Append(tasks, v)
      BY <1>a, NoTasksType, AppendExcept
    <3>3. [page |-> Inside(i), child |-> NoTask] \in Pair
      BY <1>c, <2>3 DEF Pair, NoTask, Task
    <3>4. Entered(Append(tasks, NoTasks), i, Denied(f)) =
            IF Denied(f) THEN Append(tasks, NoTasks)
            ELSE [Append(tasks, NoTasks) EXCEPT ![i] = [page |-> Inside(i), child |-> NoTask]]
      <4> DEFINE w == Append(tasks, NoTasks)
      <4>1. w \in Seq(Pair) /\ i \in 1..Len(w) /\ w[i].child = NoTask
        BY <3>1
      <4> HIDE DEF w, i
      <4>2. Entered(w, i, Denied(f)) =
              IF Denied(f) THEN w ELSE [w EXCEPT ![i] = [page |-> Inside(i), child |-> NoTask]]
        BY <2>7, <4>1, EnteredIs
      <4> QED
        BY <4>2 DEF w
    <3> QED
      BY <2>2, <3>2, <3>3, <3>4
  <2>9. /\ x \in Pair /\ Finds(x.page, i) /\ Finds(x.child, i)
        /\ a.st = "running" => x.page.live
    <3>1. CASE Denied(f)
      BY <2>6, <3>1, NoTasksType DEF Finds
    <3>2. CASE ~Denied(f)
      BY <1>b, <1>c, <2>3, <3>2 DEF Finds, NoTask, Pair, Task
    <3> QED
      BY <3>1, <3>2
  <2> HIDE DEF x
  <2>10. Contexts(Append(tasks, x), Append(reqs, a))
    BY <1>a, <2>5, <2>6, <2>9, ContextGrows
  <2> QED
    BY <2>2, <2>8, <2>10
<1>2. CASE \E i \in 1..Len(reqs) : Arrive(i)
  <2>1. PICK i \in 1..Len(reqs) : Arrive(i)
    BY <1>2
  <2> DEFINE a == Arrived(reqs[i], i)
             x == IF Denied(reqs[i]) THEN tasks[i]
                  ELSE [page |-> Inside(i), child |-> tasks[i].child]
  <2>2. /\ reqs[i].st = "transit" /\ reqs' = [reqs EXCEPT ![i] = a]
        /\ tasks' = Entered(tasks, i, Denied(reqs[i]))
    BY <2>1 DEF Arrive
  <2>3. reqs[i] \in Request /\ reqs[i].start = Absent /\ InContext(tasks, reqs, i) /\ tasks[i] \in Pair
    BY <1>a, <2>2 DEF Good3, Own
  <2>4. ~tasks[i].page.live /\ ~tasks[i].child.live
    BY <2>3 DEF InContext
  <2>5. a.st = (IF Denied(reqs[i]) THEN "answered" ELSE "running") /\ a.start # Absent
    BY <1>a, <2>3, ArrivedState
  <2>6. Denied(reqs[i]) \in BOOLEAN
    BY DEF Denied
  <2>7. tasks' = [tasks EXCEPT ![i] = x]
    <3>1. i \in 1..Len(tasks) /\ [tasks EXCEPT ![i] = tasks[i]] = tasks
      BY <1>a
    <3> QED
      BY <1>a, <2>2, <2>6, <3>1, EnteredIs
  <2> HIDE DEF a
  <2>8. /\ x \in Pair /\ Finds(x.page, i) /\ Finds(x.child, i)
        /\ a.st = "running" => x.page.live
    <3>1. CASE Denied(reqs[i])
      BY <2>3, <2>4, <2>5, <3>1 DEF Finds
    <3>2. CASE ~Denied(reqs[i])
      BY <1>b, <1>c, <2>3, <2>4, <3>2 DEF Finds, Pair
    <3> QED
      BY <3>1, <3>2
  <2>9. /\ Len(reqs') = Len(reqs) /\ reqs'[i] = a
        /\ \A k \in 1..Len(reqs) \ {i} : reqs'[k] = reqs[k]
    BY <1>a, <2>2
  <2> HIDE DEF x
  <2>10. Contexts([tasks EXCEPT ![i] = x], reqs')
    BY <2>5, <2>8, <2>9, ContextChanges
  <2> QED
    BY <2>7, <2>10
<1>3. CASE \E i \in 1..Len(reqs) : CreateTask(i)
  <2>1. PICK i \in 1..Len(reqs) : CreateTask(i)
    BY <1>3
  <2> DEFINE x == [page |-> tasks[i].page, child |-> create_task(tasks[i].page)]
  <2>2. /\ InContext(tasks, reqs, i) /\ tasks[i] \in Pair /\ reqs[i].st = "running"
        /\ reqs' = reqs
    BY <1>a, <2>1 DEF CreateTask
  <2>3. tasks[i].page.live /\ tasks[i].page \in Task
    BY <2>2 DEF InContext, Pair
  <2>4. /\ create_task(tasks[i].page) \in Task /\ create_task(tasks[i].page).live
        /\ create_task(tasks[i].page).rc = tasks[i].page.rc
        /\ create_task(tasks[i].page).hook = tasks[i].page.hook
    BY <2>3 DEF create_task, Task
  <2>5. \A v : [tasks[i] EXCEPT !.child = v] = [page |-> tasks[i].page, child |-> v]
    BY <2>2 DEF Pair
  <2>6. tasks' = [tasks EXCEPT ![i] = x]
    BY <1>a, <2>1, <2>5 DEF CreateTask
  <2>7. /\ x \in Pair /\ x.page = tasks[i].page /\ x.child = create_task(tasks[i].page)
    BY <2>3, <2>4 DEF Pair
  <2>8. /\ Finds(x.page, i) /\ Finds(x.child, i) /\ x.page.live /\ reqs[i].start # Absent
    BY <2>2, <2>3, <2>4, <2>7 DEF InContext, Finds
  <2> HIDE DEF x
  <2>9. Contexts([tasks EXCEPT ![i] = x], reqs)
    BY <2>7, <2>8, ContextChanges
  <2> QED
    BY <2>2, <2>6, <2>9
<1>4. CASE \E i \in 1..Len(reqs) : \E t \in {"page", "child"}, own \in OwnTimeouts,
              svc \in Services, fast \in BOOLEAN : Call(i, t, own, svc, fast)
  <2>1. PICK i \in 1..Len(reqs), t \in {"page", "child"}, own \in OwnTimeouts,
             svc \in Services, fast \in BOOLEAN : Call(i, t, own, svc, fast)
    BY <1>4
  <2>2. PICK f : /\ reqs' = Append(reqs, f) /\ f.st = "transit"
                 /\ tasks' = Append(tasks, NoTasks)
    BY <2>1 DEF Call, Fresh
  <2>3. reqs' \in Seq(Request)
    BY <2>1, CallInv DEF Inv, Tree
  <2>4. f \in Request
    <3>1. reqs'[Len(reqs) + 1] = f /\ Len(reqs) + 1 \in 1..Len(reqs')
      BY <1>a, <2>2, <2>3
    <3> QED
      BY <2>3, <3>1
  <2>5. Contexts(Append(tasks, NoTasks), Append(reqs, f))
    BY <1>a, <2>2, <2>4, NoTasksType, ContextGrows DEF Finds
  <2> QED
    BY <2>2, <2>5
<1>5. CASE \E i \in 1..Len(reqs) : \E own \in OwnTimeouts : OutOfRequestTime(i, own)
  BY <1>5, AnsweredContexts DEF OutOfRequestTime
<1>6. CASE \E i \in 1..Len(reqs) : \E code \in Codes : Answer(i, code)
  BY <1>6, AnsweredContexts DEF Answer
<1>7. CASE \E i \in 1..Len(reqs) : \E parsed \in BOOLEAN : Receive(i, parsed)
  BY <1>7, ResultContexts DEF Receive
<1>8. CASE \E i \in 1..Len(reqs) : CallTimeout(i)
  BY <1>8, ResultContexts DEF CallTimeout
<1>9. CASE Tick
  BY <1>9 DEF Tick
<1>10. CASE UNCHANGED vars
  BY <1>10 DEF vars
<1> QED
  BY <1>1, <1>2, <1>3, <1>4, <1>5, <1>6, <1>7, <1>8, <1>9, <1>10 DEF Next

LEMMA Invariance == Spec => [](Inv /\ Contexts(tasks, reqs))
<1>1. Init => Inv /\ Contexts(tasks, reqs)
  BY InitInv DEF Init, Contexts
<1>2. Inv /\ Contexts(tasks, reqs) /\ [Next]_vars => (Inv /\ Contexts(tasks, reqs))'
  BY NextInv, NextContexts
<1> QED
  BY <1>1, <1>2, PTL DEF Spec

\* Requests are well formed, called by an earlier one and made with time left
\* (modify_http_client_request refuses a call that has none).
THEOREM OutgoingTypes == Spec => []TypeOK
<1>1. Inv /\ Contexts(tasks, reqs) => TypeOK
  <2> SUFFICES ASSUME Inv, Contexts(tasks, reqs), NEW i \in 1..Len(reqs)
               PROVE  /\ reqs[i].from \in 0..(i - 1)
                      /\ reqs[i].from # 0 => reqs[i].budget > 0
                      /\ reqs[i].sent <= now
                      /\ reqs[i].start # Absent => reqs[i].start \in reqs[i].sent..now
    BY DEF Inv, Tree, TypeOK, Contexts
  <2>1. Linked(reqs, i) /\ Timed(reqs, i) /\ Clocked(reqs[i], now)
    BY DEF Inv, Tree
  <2> QED
    BY <2>1 DEF Linked, Timed, Clocked
<1> QED
  BY <1>1, Invariance, PTL

\* In a tree of calls of any depth no service is given time past the end of its
\* callers', but for the way and the rounding (modify_http_client_request).
THEOREM DeadlinesAreNested == Spec => []NestedDeadlines
<1>1. Inv => NestedDeadlines
  BY DEF Inv, Tree, Good3, Own, NestedDeadlines, Started
<1> QED
  BY <1>1, Invariance, PTL

\* The status of a timeout names the one who set it, through any chain of
\* fail-fast calls (fail_fast_error_handler, out_of_request_time_error_handler).
THEOREM BlameFits == Spec => []BlameFitsBudget
<1>1. Inv => BlameFitsBudget
  <2> SUFFICES ASSUME Inv, NEW i \in 1..Len(reqs), reqs[i].st = "answered"
               PROVE  /\ reqs[i].code = INSUFFICIENT_TIMEOUT => timeout_was_reduced(reqs[i].hdr)
                      /\ reqs[i].code = SERVER_TIMEOUT => ~timeout_was_reduced(reqs[i].hdr)
                      /\ reqs[i].code = 504
                            => \E c \in Children(i) : ~timeout_was_reduced(reqs[c].hdr)
    BY DEF BlameFitsBudget
  <2>1. OwnBlame(reqs[i]) /\ Vain(reqs, i)
    BY DEF Inv, Tree, Good3
  <2> QED
    BY <2>1 DEF OwnBlame, Vain, Children
<1> QED
  BY <1>1, Invariance, PTL

\* Only a caller that unwraps debug pages gets one (DebugMode, the debug
\* response of the client library).
THEOREM PagesUnwrapped == Spec => []PagesAreUnwrapped
<1>1. Inv => PagesAreUnwrapped
  <2> SUFFICES ASSUME Inv, NEW c \in 1..Len(reqs), reqs[c].from # 0, reqs[c].wrapped
               PROVE  reqs[c].unwrap
    BY DEF PagesAreUnwrapped
  <2>1. OwnDebug(reqs[c]) /\ Linked(reqs, c)
    BY DEF Inv, Tree, Good3
  <2>2. /\ reqs[c].from \in 1..Len(reqs) /\ reqs[reqs[c].from].mode.pass_debug
        /\ reqs[c].unwrap = reqs[reqs[c].from].mode.enabled
    BY <2>1 DEF OwnDebug, Linked
  <2>3. OwnDebug(reqs[reqs[c].from])
    BY <2>2 DEF Inv, Tree, Good3
  <2> QED
    BY <2>2, <2>3 DEF OwnDebug
<1> QED
  BY <1>1, Invariance, PTL

\* No chain of services turns a request without the right credentials into
\* debug mode where a service asks for them (require_debug_access).
THEOREM CredentialsNeeded == Spec => []DebugNeedsCredentials
<1>1. Inv => DebugNeedsCredentials
  <2> SUFFICES ASSUME Inv, NEW i \in 1..Len(reqs), reqs[i].mode.enabled, ~reqs[i].svc.debug,
                      reqs[i].svc.access # "granted"
               PROVE  check_debug_auth(reqs[reqs[i].root].hdr.cred)
    BY DEF DebugNeedsCredentials
  <2>1. OwnDebug(reqs[i]) /\ Linked(reqs, i)
    BY DEF Inv, Tree, Good3
  <2>2. check_debug_auth(reqs[i].hdr.cred)
    BY <2>1 DEF OwnDebug
  <2>3. ~check_debug_auth(NoCredentials)
    BY DEF check_debug_auth, NoCredentials, None, Good
  <2> QED
    BY <2>1, <2>2, <2>3 DEF Linked
<1> QED
  BY <1>1, Invariance, PTL

\* However requests are served at once and whenever their tasks outlive them, a
\* call carries the id of its root, the debug mode of its own caller and the
\* credentials of its own client: a context is copied when a task is created
\* and set and reset in the task of the request only (set_extra_client_params).
THEOREM CallsCarryTheirOwn == Spec => []CarriesItsOwn
<1>1. Inv => CarriesItsOwn
  BY DEF Inv, Tree, Linked, CarriesItsOwn
<1> QED
  BY <1>1, Invariance, PTL

=============================================================================
