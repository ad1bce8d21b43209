----------------------------- MODULE PagesProofs -----------------------------
(***************************************************************************)
(* Proofs about the pages of a tab: the operator console, for any tabs,     *)
(* accounts, keys, datasets and requests in flight, and the account page,   *)
(* for any e-mail accounts and access-key sessions.                         *)
(*                                                                         *)
(* ConsoleInv says what a view, its session and the requests that are out   *)
(* for it have to do with each other; PageInv says the same of the account  *)
(* shown, the cookie and the reads of the page.                             *)
(***************************************************************************)
EXTENDS MCPages, FiniteSetTheorems, TLAPS

-----------------------------------------------------------------------------
(* The shapes                                                               *)

PhaseOf(op) == IF op = "check" THEN "checking" ELSE IF op = "boot" THEN "booting" ELSE "login"

\* The views that ask for what an operation reads or changes.
KindsOf(op) ==
    IF op \in Mutations \cup {"list"} THEN {"tokens"}
    ELSE IF op = "report" THEN {"usage", "health"} ELSE {"browser"}

\* The rows of a table are of one dataset, which its cursor continues.
RightSample(s) ==
    /\ s = [f \in {"loading", "error", "rows", "cursor"} |-> s[f]]
    /\ \E x : s.rows \subseteq {x} /\ (s.cursor # Nobody => x = s.cursor)

IsDialog(d) ==
    \/ d = NoDialog
    \/ /\ d = [f \in {"op", "key", "tier", "limit"} |-> d[f]]
       /\ d.op \in {"create", "edit", "delete"}

TokensFields ==
    {"kind", "list", "loaded", "as", "error", "busy", "pending", "dialog", "revealed"}

IsTokens(v, who) ==
    /\ v = [f \in TokensFields |-> v[f]] /\ v.kind = "tokens"
    /\ v.pending \subseteq Mutations /\ IsDialog(v.dialog)
    /\ v.loaded => v.as = who

IsBrowser(v) ==
    /\ v = [f \in {"kind", "loaded", "selected", "sample"} |-> v[f]] /\ v.kind = "browser"
    /\ RightSample(v.sample)

IsReport(v) == v = [f \in {"kind", "loaded"} |-> v[f]] /\ v.kind \in {"usage", "health"}

\* A tab has a view exactly while its session is open.
RightView(v, p) ==
    /\ p = [phase |-> p.phase, who |-> p.who]
    /\ (p.phase = "open") <=> (v.kind # "none")
    /\ v = NoView \/ IsTokens(v, p.who) \/ IsBrowser(v) \/ IsReport(v)

IsCall(r) ==
    /\ r = [tab |-> r.tab, op |-> r.op, who |-> r.who, arg |-> r.arg, held |-> r.held,
            status |-> r.status, as |-> r.as, body |-> r.body]
    /\ r.tab \in Tabs /\ r.op \in ViewOps \cup SessionOps \cup {"signout"}
    /\ r.held \in {"view", "orphan", "aborted"}

\* A further page is asked for on a table that has one to follow; what a
\* dialog saves does not say whether the key is enabled.
RightArg(r) ==
    /\ r.op = "sample" => r.arg.base = NoSample
    /\ r.op = "page" => /\ RightSample(r.arg.base) /\ r.arg.base.cursor # Nobody
                        /\ r.status = "ok" => r.arg.base.cursor = r.arg.dataset
    /\ r.op = "edit" /\ r.status = "sent" => "enabled" \notin DOMAIN r.arg.set

\* A request a view waits for is of that view, and of the account the tab
\* shows; a check or a login is of a tab that waits for it.
RightCall(r, p, v, sh) ==
    r # Idle =>
        /\ IsCall(r) /\ RightArg(r)
        /\ r.op \in ViewOps /\ r.held = "view" => v.kind \in KindsOf(r.op) /\ r.who = p.who
        /\ r.op \in ViewOps /\ r.status = "ok" => r.as = r.who
        /\ r.op \in ViewOps /\ r.status = "refused" => sh = "gateway"
        /\ sh = "gateway" /\ r.op \in ViewOps /\ r.held # "aborted" => p.phase = "open"
        /\ r.op \in SessionOps => r.held = "view" /\ p.phase = PhaseOf(r.op)
        /\ r.op \in {"boot", "login"} => sh # "gateway"
        /\ r.op \in {"check", "signout"} => sh = "gateway"

Apart(q, r) == ~(q # Idle /\ r # Idle /\ q.tab = r.tab /\ q.op = r.op /\ q.op \in SessionOps)

\* Calls cs over tabs with sessions ps and views vs.
Consistent(cs, ps, vs, sh) ==
    /\ cs = [c \in Calls |-> cs[c]] /\ ps = [t \in Tabs |-> ps[t]] /\ vs = [t \in Tabs |-> vs[t]]
    /\ \A c \in Calls : RightCall(cs[c], ps[cs[c].tab], vs[cs[c].tab], sh)
    /\ \A c, d \in Calls : c # d => Apart(cs[c], cs[d])
    /\ \A t \in Tabs : RightView(vs[t], ps[t])

\* What a view waits for.
Waited(v) == v.pending \cup (IF v.busy = Nobody THEN {} ELSE {"toggle"})

Awaits(r, t, op) ==
    /\ r # Idle /\ r.tab = t /\ r.held = "view"
    /\ r.op = op \/ (r.op = "list" /\ r.arg.after = op)

Answered(cs, vs) ==
    \A t \in Tabs : vs[t].kind = "tokens" =>
        \A op \in Waited(vs[t]) : \E c \in Calls : Awaits(cs[c], t, op)

Sound(cs, ps, vs, sh) == Consistent(cs, ps, vs, sh) /\ Answered(cs, vs)

ConsoleInv == Sound(calls, tab, view, shell)

\* The calls ds are cs and a new one.
Starts(cs, ds, q) == \E c \in Calls : cs[c] = Idle /\ ds = [cs EXCEPT ![c] = q]

Asking(t, op, w, a) ==
    [tab |-> t, op |-> op, who |-> w, arg |-> a, held |-> "view",
     status |-> "sent", as |-> Nobody, body |-> NoList]

\* No view of t waits for a call, and none contradicts its new session.
Resting(cs, t, p, sh) ==
    \A c \in Calls : (cs[c] # Idle /\ cs[c].tab = t) =>
        /\ cs[c].op \in ViewOps => /\ cs[c].held # "view"
                                   /\ (sh = "gateway" /\ cs[c].held # "aborted") => p.phase = "open"
        /\ cs[c].op \in SessionOps => p.phase = PhaseOf(cs[c].op)

-----------------------------------------------------------------------------
(* How the parts move                                                       *)

\* The requests of views and those of sessions are different ones.
LEMMA SessionsApart ==
    \A op \in ViewOps : op \notin SessionOps \cup {"signout", "boot", "login", "check"}
BY DEF ViewOps, SessionOps, Mutations, ReadOps

\* One call is another, or is over, and what waits for it waits no longer or
\* for the other.
LEMMA CallReplaced ==
    ASSUME NEW cs, NEW ps, NEW vs, NEW sh, Sound(cs, ps, vs, sh),
           NEW c \in Calls, NEW q, RightCall(q, ps[q.tab], vs[q.tab], sh),
           \A d \in Calls : d # c => Apart(q, cs[d]),
           \A t \in Tabs : \A op \in Waited(vs[t]) :
               vs[t].kind = "tokens" /\ Awaits(cs[c], t, op) => Awaits(q, t, op)
    PROVE  Sound([cs EXCEPT ![c] = q], ps, vs, sh)
<1> DEFINE new == [cs EXCEPT ![c] = q]
<1>1. new = [d \in Calls |-> new[d]] /\ new[c] = q /\ \A d \in Calls : d # c => new[d] = cs[d]
  BY DEF Sound, Consistent
<1>2. \A d \in Calls : RightCall(new[d], ps[new[d].tab], vs[new[d].tab], sh)
  BY <1>1 DEF Sound, Consistent
<1>3. \A d, e \in Calls : d # e => Apart(new[d], new[e])
  BY <1>1 DEF Sound, Consistent, Apart
<1>4. Answered(new, vs)
  <2> SUFFICES ASSUME NEW t \in Tabs, vs[t].kind = "tokens", NEW op \in Waited(vs[t])
               PROVE  \E d \in Calls : Awaits(new[d], t, op)
    BY DEF Answered
  <2>1. PICK d \in Calls : Awaits(cs[d], t, op)
    BY DEF Sound, Answered
  <2>2. Awaits(new[d], t, op)
    BY <1>1, <2>1
  <2> QED BY <2>2
<1> HIDE DEF new
<1>5. Sound(new, ps, vs, sh)
  BY <1>1, <1>2, <1>3, <1>4 DEF Sound, Consistent
<1> QED BY <1>5 DEF new

\* A view changes, but is still of its kind.
LEMMA ViewReplaced ==
    ASSUME NEW cs, NEW ps, NEW vs, NEW sh, Sound(cs, ps, vs, sh),
           NEW t \in Tabs, NEW v, v.kind = vs[t].kind, RightView(v, ps[t]),
           v.kind = "tokens" => \A op \in Waited(v) :
               op \in Waited(vs[t]) \/ \E c \in Calls : Awaits(cs[c], t, op)
    PROVE  Sound(cs, ps, [vs EXCEPT ![t] = v], sh)
<1> DEFINE new == [vs EXCEPT ![t] = v]
<1>1. new = [u \in Tabs |-> new[u]] /\ new[t] = v /\ \A u \in Tabs : u # t => new[u] = vs[u]
  BY DEF Sound, Consistent
<1>2. \A u \in Tabs : RightView(new[u], ps[u]) /\ new[u].kind = vs[u].kind
  BY <1>1 DEF Sound, Consistent
<1>3. ASSUME NEW d \in Calls PROVE RightCall(cs[d], ps[cs[d].tab], new[cs[d].tab], sh)
  <2>1. RightCall(cs[d], ps[cs[d].tab], vs[cs[d].tab], sh)
    BY DEF Sound, Consistent
  <2>2. cs[d] # Idle => cs[d].tab \in Tabs
    BY <2>1 DEF RightCall, IsCall
  <2> QED BY <1>2, <2>1, <2>2 DEF RightCall
<1>4. Answered(cs, new)
  BY <1>1 DEF Sound, Answered
<1> HIDE DEF new
<1>5. Sound(cs, ps, new, sh)
  BY <1>1, <1>2, <1>3, <1>4 DEF Sound, Consistent
<1> QED BY <1>5 DEF new

\* A tab has another session and a view that waits for nothing.
LEMMA TabReplaced ==
    ASSUME NEW cs, NEW ps, NEW vs, NEW sh, Consistent(cs, ps, vs, sh),
           NEW t \in Tabs, NEW p, NEW v, RightView(v, p), Resting(cs, t, p, sh)
    PROVE  Consistent(cs, [ps EXCEPT ![t] = p], [vs EXCEPT ![t] = v], sh)
<1> DEFINE nv == [vs EXCEPT ![t] = v]
           np == [ps EXCEPT ![t] = p]
<1>1. /\ nv = [u \in Tabs |-> nv[u]] /\ nv[t] = v /\ \A u \in Tabs : u # t => nv[u] = vs[u]
      /\ np = [u \in Tabs |-> np[u]] /\ np[t] = p /\ \A u \in Tabs : u # t => np[u] = ps[u]
  BY DEF Consistent
<1>2. \A u \in Tabs : RightView(nv[u], np[u])
  BY <1>1 DEF Consistent
<1>3. ASSUME NEW d \in Calls PROVE RightCall(cs[d], np[cs[d].tab], nv[cs[d].tab], sh)
  <2>1. RightCall(cs[d], ps[cs[d].tab], vs[cs[d].tab], sh)
    BY DEF Consistent
  <2>2. cs[d] # Idle => cs[d].tab \in Tabs
    BY <2>1 DEF RightCall, IsCall
  <2>3. CASE cs[d] # Idle /\ cs[d].tab = t
    <3>1. RightCall(cs[d], p, v, sh)
      BY <2>1, <2>3 DEF RightCall, Resting
    <3> QED BY <1>1, <2>3, <3>1
  <2> QED BY <1>1, <2>1, <2>2, <2>3 DEF RightCall
<1> HIDE DEF nv, np
<1>4. Consistent(cs, np, nv, sh)
  BY <1>1, <1>2, <1>3 DEF Consistent
<1> QED BY <1>4 DEF np, nv

\* The calls of the tab that are let go of are still of no use.
LEMMA ReleasedKeeps ==
    ASSUME NEW cs, NEW ps, NEW vs, NEW sh, Consistent(cs, ps, vs, sh),
           NEW t \in Tabs, NEW ops, ops \subseteq ViewOps \cup SessionOps,
           NEW how \in {"orphan", "aborted"}, how = "orphan" => ops = ViewOps
    PROVE  /\ Consistent(Released(cs, t, ops, how), ps, vs, sh)
           /\ \A d \in Calls :
                 /\ cs[d] # Idle /\ cs[d].tab # t => Released(cs, t, ops, how)[d] = cs[d]
                 /\ Released(cs, t, ops, how)[d] # Idle /\ Released(cs, t, ops, how)[d].tab = t =>
                        /\ Released(cs, t, ops, how)[d].op \in ops =>
                              /\ Released(cs, t, ops, how)[d].op \in ViewOps
                              /\ Released(cs, t, ops, how)[d].held \in {how, "aborted"}
<1> DEFINE new == Released(cs, t, ops, how)
<1>1. new = [d \in Calls |-> new[d]]
  BY DEF Released
<1>2. ASSUME NEW d \in Calls
      PROVE  /\ RightCall(new[d], ps[new[d].tab], vs[new[d].tab], sh)
             /\ cs[d] # Idle /\ cs[d].tab # t => new[d] = cs[d]
             /\ new[d] = cs[d] \/ new[d] = Idle \/ (new[d].op \in ViewOps /\ cs[d].op \in ViewOps)
             /\ new[d] # Idle /\ new[d].tab = t /\ new[d].op \in ops =>
                    new[d].op \in ViewOps /\ new[d].held \in {how, "aborted"}
  <2>1. RightCall(cs[d], ps[cs[d].tab], vs[cs[d].tab], sh)
    BY DEF Consistent
  <2>2. CASE cs[d] = Idle \/ cs[d].tab # t \/ cs[d].op \notin ops \/ cs[d].held = "aborted"
    <3>1. new[d] = cs[d]
      BY <2>2 DEF Released
    <3> QED BY <2>1, <2>2, <3>1 DEF RightCall, SessionOps
  <2>3. CASE ~(cs[d] = Idle \/ cs[d].tab # t \/ cs[d].op \notin ops \/ cs[d].held = "aborted")
    <3> DEFINE r == cs[d]
    <3>1. IsCall(r) /\ RightArg(r)
      BY <2>1, <2>3 DEF RightCall
    <3>2. CASE how = "aborted" /\ r.op \notin Mutations
      BY <2>3, <3>2 DEF Released, RightCall
    <3>3. CASE ~(how = "aborted" /\ r.op \notin Mutations) /\ r.op \in Mutations
      <4>1. new[d] = [r EXCEPT !.held = how, !.body = NoList]
        BY <2>3, <3>3 DEF Released
      <4> HIDE DEF r
      <4>2. new[d] = [tab |-> r.tab, op |-> r.op, who |-> r.who, arg |-> r.arg, held |-> how,
                      status |-> r.status, as |-> r.as, body |-> NoList]
        BY <3>1, <4>1 DEF IsCall
      <4> HIDE DEF new
      <4>3. r # Idle /\ r.tab = t /\ r.op \in ViewOps /\ r.op \notin SessionOps /\ r.op # "signout"
        BY <2>3, <3>3 DEF r, ViewOps, Mutations, SessionOps
      <4>4. RightCall(r, ps[t], vs[t], sh)
        BY <2>1, <4>3 DEF r
      <4> DEFINE q == new[d]
      <4>5. /\ q.tab = t /\ q.op = r.op /\ q.who = r.who /\ q.arg = r.arg /\ q.held = how
            /\ q.status = r.status /\ q.as = r.as
        BY <4>2, <4>3
      <4>6. IsCall(q)
        BY <3>1, <4>2, <4>3 DEF IsCall
      <4> HIDE DEF q
      <4>7. q # Idle
        BY <3>3, <4>5 DEF Idle, Mutations
      <4>8. RightArg(q)
        BY <3>1, <3>3, <4>5 DEF RightArg, Mutations
      <4>9. RightCall(q, ps[t], vs[t], sh)
        BY <2>3, <4>3, <4>4, <4>5, <4>6, <4>7, <4>8, SessionsApart DEF RightCall, r
      <4> QED BY <2>3, <4>3, <4>5, <4>7, <4>9 DEF q, r
    <3>4. CASE ~(how = "aborted" /\ r.op \notin Mutations) /\ r.op \notin Mutations
      <4>1. new[d] = [r EXCEPT !.held = how, !.op = "report", !.arg = Unheard, !.body = NoList]
        BY <2>3, <3>4 DEF Released
      <4> HIDE DEF r
      <4>2. new[d] = [tab |-> r.tab, op |-> "report", who |-> r.who, arg |-> Unheard, held |-> how,
                      status |-> r.status, as |-> r.as, body |-> NoList]
        BY <3>1, <4>1 DEF IsCall
      <4> HIDE DEF new
      <4>3. r # Idle /\ r.tab = t /\ r.op \in ViewOps
        BY <2>3, <3>4 DEF r
      <4>4. RightCall(r, ps[t], vs[t], sh)
        BY <2>1, <4>3 DEF r
      <4> DEFINE q == new[d]
      <4>5. /\ q.tab = t /\ q.op = "report" /\ q.who = r.who /\ q.held = how
            /\ q.status = r.status /\ q.as = r.as
        BY <4>2, <4>3
      <4>6. IsCall(q) /\ q.op \in ViewOps
        BY <3>1, <4>2, <4>3 DEF IsCall, ViewOps, ReadOps
      <4> HIDE DEF q
      <4>7. q # Idle /\ RightArg(q)
        BY <4>5 DEF Idle, RightArg
      <4>9. RightCall(q, ps[t], vs[t], sh)
        BY <2>3, <4>3, <4>4, <4>5, <4>6, <4>7, SessionsApart DEF RightCall, r
      <4> QED BY <2>3, <4>3, <4>5, <4>6, <4>7, <4>9 DEF q, r
    <3> QED BY <3>2, <3>3, <3>4
  <2> QED BY <2>2, <2>3
<1>3. \A d, e \in Calls : d # e => Apart(new[d], new[e])
  <2> SUFFICES ASSUME NEW d \in Calls, NEW e \in Calls, d # e PROVE Apart(new[d], new[e])
    OBVIOUS
  <2>1. Apart(cs[d], cs[e])
    BY DEF Consistent
  <2>2. \A x \in ViewOps : x \notin SessionOps
    BY DEF ViewOps, SessionOps, Mutations, ReadOps
  <2> HIDE DEF new
  <2> QED BY <1>2, <2>1, <2>2 DEF Apart
<1> HIDE DEF new
<1>4. Consistent(new, ps, vs, sh)
  BY <1>1, <1>2, <1>3 DEF Consistent
<1> QED BY <1>2, <1>4 DEF new

\* A tab begins another session, and whatever its old view waited for is let
\* go of.
LEMMA Renewed ==
    ASSUME NEW cs, NEW ds, NEW ps, NEW vs, NEW sh, Sound(cs, ps, vs, sh), Consistent(ds, ps, vs, sh),
           NEW t \in Tabs, NEW p, NEW v, RightView(v, p), Resting(ds, t, p, sh),
           v.kind = "tokens" => Waited(v) = {},
           \A d \in Calls : cs[d] # Idle /\ cs[d].tab # t => ds[d] = cs[d]
    PROVE  Sound(ds, [ps EXCEPT ![t] = p], [vs EXCEPT ![t] = v], sh)
<1> DEFINE nv == [vs EXCEPT ![t] = v]
           np == [ps EXCEPT ![t] = p]
<1>1. Consistent(ds, np, nv, sh)
  BY TabReplaced
<1>2. Answered(ds, nv)
  <2> SUFFICES ASSUME NEW u \in Tabs, nv[u].kind = "tokens", NEW op \in Waited(nv[u])
               PROVE  \E d \in Calls : Awaits(ds[d], u, op)
    BY DEF Answered
  <2>1. nv[t] = v /\ \A w \in Tabs : w # t => nv[w] = vs[w]
    BY DEF Sound, Consistent
  <2> HIDE DEF nv
  <2>2. u # t /\ vs[u].kind = "tokens" /\ op \in Waited(vs[u])
    BY <2>1
  <2>3. PICK d \in Calls : Awaits(cs[d], u, op)
    BY <2>2 DEF Sound, Answered
  <2>4. ds[d] = cs[d]
    BY <2>2, <2>3 DEF Awaits
  <2> QED BY <2>3, <2>4
<1> QED BY <1>1, <1>2 DEF Sound

\* A tab begins another session: its calls are let go of.
LEMMA Cleared ==
    ASSUME NEW cs, NEW ps, NEW vs, NEW sh, Sound(cs, ps, vs, sh),
           NEW t \in Tabs, NEW ops, ViewOps \subseteq ops, ops \subseteq ViewOps \cup SessionOps,
           NEW how \in {"orphan", "aborted"}, how = "orphan" => ops = ViewOps,
           NEW p, NEW v, RightView(v, p), v.kind = "tokens" => Waited(v) = {},
           sh = "gateway" /\ how = "orphan" => p.phase = "open",
           \A d \in Calls : cs[d] # Idle /\ cs[d].tab = t /\ cs[d].op \in SessionOps
                                /\ cs[d].op \notin ops => p.phase = PhaseOf(cs[d].op)
    PROVE  /\ Sound(Released(cs, t, ops, how), [ps EXCEPT ![t] = p], [vs EXCEPT ![t] = v], sh)
           /\ \A q : q.tab = t /\ q.op \in ops \cap SessionOps =>
                  \A d \in Calls : Apart(q, Released(cs, t, ops, how)[d])
<1>0. Consistent(cs, ps, vs, sh)
  BY DEF Sound
<1> DEFINE ds == Released(cs, t, ops, how)
<1>1. Consistent(ds, ps, vs, sh)
  BY <1>0, ReleasedKeeps
<1>2. \A d \in Calls :
         /\ cs[d] # Idle /\ cs[d].tab # t => ds[d] = cs[d]
         /\ ds[d] # Idle /\ ds[d].tab = t /\ ds[d].op \in ops =>
                ds[d].op \in ViewOps /\ ds[d].held \in {how, "aborted"}
  BY <1>0, ReleasedKeeps
<1>3. \A d \in Calls : ds[d] # Idle /\ ds[d].op \in SessionOps => ds[d] = cs[d] /\ cs[d] # Idle
  BY DEF Released, ViewOps, SessionOps, Mutations
<1> HIDE DEF ds
<1>4. Resting(ds, t, p, sh)
  <2> SUFFICES ASSUME NEW d \in Calls, ds[d] # Idle, ds[d].tab = t
               PROVE  /\ ds[d].op \in ViewOps =>
                            /\ ds[d].held # "view"
                            /\ (sh = "gateway" /\ ds[d].held # "aborted") => p.phase = "open"
                      /\ ds[d].op \in SessionOps => p.phase = PhaseOf(ds[d].op)
    BY DEF Resting
  <2>1. ds[d].op \in ViewOps => ds[d].held \in {how, "aborted"}
    BY <1>2
  <2>2. ds[d].op \in SessionOps => ds[d].op \notin ops
    BY <1>2, SessionsApart
  <2> QED BY <1>3, <2>1, <2>2
<1>5. Sound(ds, [ps EXCEPT ![t] = p], [vs EXCEPT ![t] = v], sh)
  BY <1>1, <1>2, <1>4, Renewed
<1>6. ASSUME NEW q, q.tab = t, q.op \in ops \cap SessionOps, NEW d \in Calls
      PROVE  Apart(q, ds[d])
  BY <1>2, <1>6, SessionsApart DEF Apart
<1> QED BY <1>5, <1>6 DEF ds

\* Nothing is known of the tab's session: it opens.
LEMMA Opened ==
    ASSUME NEW cs, NEW ps, NEW vs, NEW sh, Sound(cs, ps, vs, sh),
           NEW t \in Tabs, ps[t].phase # "open", NEW p, NEW v, p.phase = "open",
           RightView(v, p), v.kind = "tokens" => Waited(v) = {},
           \A d \in Calls : ~(cs[d] # Idle /\ cs[d].tab = t /\ cs[d].op \in SessionOps)
    PROVE  Sound(cs, [ps EXCEPT ![t] = p], [vs EXCEPT ![t] = v], sh)
<1>0. Consistent(cs, ps, vs, sh)
  BY DEF Sound
<1>1. vs[t].kind = "none"
  BY <1>0 DEF Consistent, RightView
<1>2. ASSUME NEW d \in Calls, cs[d] # Idle, cs[d].tab = t, cs[d].op \in ViewOps
      PROVE  cs[d].held # "view"
  <2>1. RightCall(cs[d], ps[t], vs[t], sh)
    BY <1>0, <1>2 DEF Consistent
  <2>2. "none" \notin KindsOf(cs[d].op)
    BY DEF KindsOf
  <2> QED BY <1>1, <1>2, <2>1, <2>2 DEF RightCall
<1>3. Resting(cs, t, p, sh)
  BY <1>2 DEF Resting
<1> QED BY <1>0, <1>3, Renewed

\* A request is made.
LEMMA Begun ==
    ASSUME NEW cs, NEW ds, NEW ps, NEW vs, NEW sh, Sound(cs, ps, vs, sh),
           NEW q, RightCall(q, ps[q.tab], vs[q.tab], sh),
           q.op \in SessionOps => \A d \in Calls : Apart(q, cs[d]),
           Starts(cs, ds, q)
    PROVE  Sound(ds, ps, vs, sh) /\ \E c \in Calls : ds[c] = q
<1>1. PICK c \in Calls : cs[c] = Idle /\ ds = [cs EXCEPT ![c] = q]
  BY DEF Starts
<1>2. \A t, op : ~Awaits(cs[c], t, op)
  BY <1>1 DEF Awaits
<1>3. \A d \in Calls : Apart(q, cs[d])
  BY DEF Apart
<1>4. Sound([cs EXCEPT ![c] = q], ps, vs, sh)
  BY <1>2, <1>3, CallReplaced
<1>5. ds[c] = q
  BY <1>1 DEF Sound, Consistent
<1> QED BY <1>1, <1>4, <1>5

\* A call ends.
LEMMA Ended ==
    ASSUME NEW cs, NEW ps, NEW vs, NEW sh, Sound(cs, ps, vs, sh), NEW c \in Calls,
           \A t \in Tabs : \A op \in Waited(vs[t]) :
               vs[t].kind = "tokens" => ~Awaits(cs[c], t, op)
    PROVE  Sound([cs EXCEPT ![c] = Idle], ps, vs, sh)
<1>1. RightCall(Idle, ps[Idle.tab], vs[Idle.tab], sh) /\ \A d \in Calls : Apart(Idle, cs[d])
  BY DEF RightCall, Apart
<1> QED BY <1>1, CallReplaced

\* What a view asks for is right.
LEMMA Requested ==
    ASSUME NEW t \in Tabs, NEW op \in ViewOps, NEW w, NEW a, NEW p, NEW v, NEW sh,
           RightView(v, p), v.kind \in KindsOf(op), w = p.who,
           op = "sample" => a.base = NoSample,
           op = "page" => RightSample(a.base) /\ a.base.cursor # Nobody,
           op = "edit" => "enabled" \notin DOMAIN a.set
    PROVE  RightCall(Asking(t, op, w, a), p, v, sh)
<1> DEFINE q == Asking(t, op, w, a)
<1>1. IsCall(q)
  BY DEF IsCall, Asking
<1>2. /\ q.tab = t /\ q.op = op /\ q.who = w /\ q.arg = a /\ q.held = "view" /\ q.status = "sent"
  BY DEF Asking
<1>3. p.phase = "open"
  BY DEF RightView, KindsOf
<1> HIDE DEF q
<1>4. RightArg(q)
  BY <1>2 DEF RightArg
<1>5. RightCall(q, p, v, sh)
  BY <1>1, <1>2, <1>3, <1>4, SessionsApart DEF RightCall
<1> QED BY <1>5 DEF q

\* A view newly mounted shows nothing yet, and what it reads is of its kind.
LEMMA NewViewRight ==
    ASSUME NEW s \in Sections, NEW p, p = [phase |-> "open", who |-> p.who]
    PROVE  /\ RightView(NewView(s), p) /\ NewView(s).kind = s
           /\ s = "tokens" => Waited(NewView(s)) = {}
           /\ FirstRead(s) \in ViewOps /\ s \in KindsOf(FirstRead(s))
           /\ FirstRead(s) \notin {"sample", "page", "edit"}
<1>1. CASE s = "tokens"
  <2>1. IsTokens(NewView(s), p.who)
    BY <1>1 DEF NewView, IsTokens, TokensFields, IsDialog, Mutations, Nobody
  <2>2. Waited(NewView(s)) = {}
    BY <1>1 DEF NewView, Waited
  <2>3. NewView(s).kind = "tokens"
    BY <1>1 DEF NewView
  <2>4. FirstRead(s) = "list" /\ "list" \in ViewOps /\ KindsOf("list") = {"tokens"}
    BY <1>1 DEF FirstRead, ViewOps, KindsOf
  <2>5. RightView(NewView(s), p)
    BY <2>1, <2>3 DEF RightView
  <2> QED BY <1>1, <2>2, <2>3, <2>4, <2>5
<1>2. CASE s = "browser"
  <2>1. RightSample(NoSample)
    BY DEF RightSample, NoSample
  <2>2. IsBrowser(NewView(s))
    BY <1>2, <2>1 DEF NewView, IsBrowser
  <2> QED BY <1>2, <2>2 DEF RightView, NewView, FirstRead, ViewOps, ReadOps, KindsOf, Mutations
<1>3. CASE s \in {"usage", "health"}
  <2>1. IsReport(NewView(s))
    BY <1>3 DEF NewView, IsReport
  <2> QED BY <1>3, <2>1 DEF RightView, NewView, FirstRead, ViewOps, ReadOps, KindsOf, Mutations
<1> QED BY <1>1, <1>2, <1>3 DEF Sections

\* No view is right for a session that is not open.
LEMMA NoViewRight ==
    ASSUME NEW p, p = [phase |-> p.phase, who |-> p.who], p.phase # "open"
    PROVE  RightView(NoView, p) /\ NoView.kind # "tokens"
BY DEF RightView, NoView

\* A request is answered, lost or refused, for what it asks and for whom.
LEMMA Progressed ==
    ASSUME NEW cs, NEW ds, NEW ps, NEW vs, NEW sh, Sound(cs, ps, vs, sh),
           NEW c \in Calls, cs[c] # Idle, ds = [d \in Calls |-> ds[d]],
           \A d \in Calls : d # c => ds[d] = cs[d],
           NEW a, NEW w, NEW s, NEW b,
           ds[c] = [tab |-> cs[c].tab, op |-> cs[c].op, who |-> cs[c].who, arg |-> a,
                    held |-> cs[c].held, status |-> s, as |-> w, body |-> b],
           a = cs[c].arg \/ cs[c].op \in Mutations,
           cs[c].op \in ViewOps => /\ s # "sent" /\ (s = "ok" => w = cs[c].who)
                                   /\ s = "refused" => sh = "gateway",
           cs[c].op = "page" /\ s = "ok" => a.base.cursor \in {Nobody, a.dataset}
    PROVE  Sound(ds, ps, vs, sh)
<1> DEFINE r == cs[c]
           q == ds[c]
<1>1. RightCall(r, ps[r.tab], vs[r.tab], sh) /\ IsCall(r) /\ RightArg(r)
  BY DEF Sound, Consistent, RightCall
<1>2. /\ q.tab = r.tab /\ q.op = r.op /\ q.who = r.who /\ q.arg = a /\ q.held = r.held
      /\ q.status = s /\ q.as = w
  OBVIOUS
<1>3. IsCall(q)
  BY <1>1, <1>2 DEF IsCall
<1> HIDE DEF q
<1>4. q # Idle
  BY <1>1, <1>2 DEF Idle, IsCall, ViewOps, SessionOps, Mutations, ReadOps
<1>5. RightArg(q)
  BY <1>1, <1>2 DEF RightArg, Mutations, ViewOps
<1>6. RightCall(q, ps[q.tab], vs[q.tab], sh)
  BY <1>1, <1>2, <1>3, <1>4, <1>5 DEF RightCall
<1>7. \A d \in Calls : d # c => Apart(q, cs[d])
  BY <1>2 DEF Sound, Consistent, Apart
<1>8. \A t \in Tabs : \A op \in Waited(vs[t]) :
         vs[t].kind = "tokens" /\ Awaits(r, t, op) => Awaits(q, t, op)
  BY <1>2, <1>4 DEF Awaits, Mutations
<1> HIDE DEF r
<1>9. Sound([cs EXCEPT ![c] = q], ps, vs, sh)
  BY <1>6, <1>7, <1>8, CallReplaced DEF r
<1>10. ds = [cs EXCEPT ![c] = q]
  BY DEF Sound, Consistent, q
<1> QED BY <1>9, <1>10

\* The view a call asks for begins to read.
LEMMA Mounted ==
    ASSUME NEW cs, NEW ds, NEW ps, NEW vs, NEW sh, Sound(cs, ps, vs, sh),
           NEW t \in Tabs, NEW s \in Sections, NEW w,
           ps[t] = [phase |-> "open", who |-> w], vs[t] = NewView(s),
           Starts(cs, ds, Asking(t, FirstRead(s), w, [after |-> "mount"]))
    PROVE  Sound(ds, ps, vs, sh)
<1> DEFINE q == Asking(t, FirstRead(s), w, [after |-> "mount"])
<1>1. ps[t].phase = "open" /\ ps[t].who = w /\ ps[t] = [phase |-> "open", who |-> ps[t].who]
  OBVIOUS
<1>2. RightView(vs[t], ps[t])
  BY DEF Sound, Consistent
<1>3. /\ FirstRead(s) \in ViewOps /\ FirstRead(s) \notin {"sample", "page", "edit"}
      /\ vs[t].kind \in KindsOf(FirstRead(s))
  BY <1>1, NewViewRight
<1>4. RightCall(q, ps[t], vs[t], sh)
  BY <1>1, <1>2, <1>3, Requested
<1>5. q.tab = t /\ q.op \notin SessionOps
  BY <1>3, SessionsApart DEF Asking
<1> HIDE DEF q
<1>6. Starts(cs, ds, q)
  BY DEF q
<1> QED BY <1>4, <1>5, <1>6, Begun

-----------------------------------------------------------------------------
(* Navigation and sessions                                                  *)

\* What it is to start a request, without the state.
LEMMA StartsAsking ==
    ASSUME NEW cs, NEW t, NEW op, NEW a, NEW w,
           \/ StartIn(cs, [Request(t, op, a) EXCEPT !.who = w])
           \/ StartIn(cs, Request(t, op, a)) /\ w = tab[t].who
    PROVE  Starts(cs, calls', Asking(t, op, w, a))
<1>1. [Request(t, op, a) EXCEPT !.who = w] = Asking(t, op, w, a)
  BY DEF Request, Asking
<1>2. w = tab[t].who => Request(t, op, a) = Asking(t, op, w, a)
  BY DEF Request, Asking
<1>3. StartIn(cs, Asking(t, op, w, a))
  BY <1>1, <1>2
<1> QED BY <1>3 DEF StartIn, Starts

\* Another section is opened: the old view's requests are orphaned, and the
\* new view waits for its first read only.
LEMMA NavigateKeeps ==
    ASSUME ConsoleInv, NEW t \in Tabs, NEW s \in Sections, Navigate(t, s)
    PROVE  ConsoleInv'
<1> DEFINE cs == Released(calls, t, ViewOps, "orphan")
           nv == [view EXCEPT ![t] = NewView(s)]
<1>1. Sound(calls, tab, view, shell) /\ tab = [u \in Tabs |-> tab[u]] /\ view = [u \in Tabs |-> view[u]]
  BY DEF ConsoleInv, Sound, Consistent
<1>2. tab[t] = [phase |-> "open", who |-> tab[t].who] /\ tab[t].phase = "open"
  BY <1>1 DEF Sound, Consistent, RightView, Navigate, Selectable
<1>3. RightView(NewView(s), tab[t]) /\ NewView(s).kind = s /\ (s = "tokens" => Waited(NewView(s)) = {})
  BY <1>2, NewViewRight
<1>4. \A d \in Calls : ~(calls[d] # Idle /\ calls[d].tab = t /\ calls[d].op \in SessionOps)
  BY <1>1, <1>2 DEF Sound, Consistent, RightCall, PhaseOf
<1>5. Sound(cs, [tab EXCEPT ![t] = tab[t]], nv, shell)
  BY <1>1, <1>2, <1>3, <1>4, Cleared
<1>6. [tab EXCEPT ![t] = tab[t]] = tab /\ nv[t] = NewView(s)
  BY <1>1
<1>p. PICK w : w = tab[t].who
  OBVIOUS
<1>7. Starts(cs, calls', Asking(t, FirstRead(s), w, [after |-> "mount"]))
  BY <1>p, StartsAsking DEF Navigate, Mount
<1>8. view' = nv /\ tab' = tab /\ shell' = shell
  BY DEF Navigate, Mount
<1> HIDE DEF cs, nv
<1>9. Sound(calls', tab, nv, shell)
  <2>1. Sound(cs, tab, nv, shell)
    BY <1>5, <1>6
  <2>2. tab[t] = [phase |-> "open", who |-> w]
    BY <1>2, <1>p
  <2> QED BY <1>6, <1>7, <2>1, <2>2, Mounted, SMT
<1> QED BY <1>8, <1>9 DEF ConsoleInv

\* A request about the tab's session is right while the tab waits for it.
LEMMA SessionAsked ==
    ASSUME NEW t \in Tabs, NEW op \in SessionOps \cup {"signout"}, NEW w, NEW a, NEW p, NEW v, NEW sh,
           op \in SessionOps => p.phase = PhaseOf(op),
           op \in {"boot", "login"} => sh # "gateway", op \in {"check", "signout"} => sh = "gateway"
    PROVE  RightCall(Asking(t, op, w, a), p, v, sh)
<1> DEFINE q == Asking(t, op, w, a)
<1>1. IsCall(q)
  BY DEF IsCall, Asking
<1>2. q.tab = t /\ q.op = op /\ q.held = "view"
  BY DEF Asking
<1> HIDE DEF q
<1>3. op \notin ViewOps
  BY SessionsApart
<1>4. RightArg(q)
  BY <1>2 DEF RightArg, SessionOps
<1>5. RightCall(q, p, v, sh)
  BY <1>1, <1>2, <1>3, <1>4 DEF RightCall
<1> QED BY <1>5 DEF q

\* A view waits for its changes only.
LEMMA WaitedIsAChange ==
    ASSUME NEW cs, NEW ps, NEW vs, NEW sh, Sound(cs, ps, vs, sh),
           NEW t \in Tabs, vs[t].kind = "tokens", NEW op \in Waited(vs[t])
    PROVE  op \in Mutations
<1>1. IsTokens(vs[t], ps[t].who)
  BY DEF Sound, Consistent, RightView, IsBrowser, IsReport, NoView
<1> QED BY <1>1 DEF IsTokens, Waited, Mutations

\* Nothing waits for a call that is of no change and reads no list.
LEMMA UnawaitedEnds ==
    ASSUME NEW cs, NEW ps, NEW vs, NEW sh, Sound(cs, ps, vs, sh), NEW c \in Calls,
           cs[c].held # "view" \/ cs[c].op \notin Mutations \cup {"list"}
    PROVE  Sound([cs EXCEPT ![c] = Idle], ps, vs, sh)
<1>1. \A t \in Tabs : \A op \in Waited(vs[t]) :
         vs[t].kind = "tokens" => ~Awaits(cs[c], t, op)
  BY WaitedIsAChange DEF Awaits
<1> QED BY <1>1, Ended

\* A tab waits for one answer about its session at a time.
LEMMA OneSessionCall ==
    ASSUME NEW cs, NEW ps, NEW vs, NEW sh, Sound(cs, ps, vs, sh), NEW c \in Calls,
           cs[c] # Idle, cs[c].op \in SessionOps
    PROVE  /\ ps[cs[c].tab].phase = PhaseOf(cs[c].op) /\ ps[cs[c].tab].phase # "open"
           /\ cs[c].tab \in Tabs
           /\ \A d \in Calls : d # c =>
                  ~(cs[d] # Idle /\ cs[d].tab = cs[c].tab /\ cs[d].op \in SessionOps)
<1>1. \A d \in Calls : cs[d] # Idle /\ cs[d].op \in SessionOps =>
         /\ ps[cs[d].tab].phase = PhaseOf(cs[d].op) /\ cs[d].tab \in Tabs
  BY DEF Sound, Consistent, RightCall, IsCall
<1>2. ASSUME NEW d \in Calls, d # c, cs[d] # Idle, cs[d].tab = cs[c].tab, cs[d].op \in SessionOps
      PROVE  FALSE
  <2>1. PhaseOf(cs[d].op) = PhaseOf(cs[c].op)
    BY <1>1, <1>2
  <2>2. cs[d].op = cs[c].op
    BY <1>2, <2>1 DEF PhaseOf, SessionOps
  <2> QED BY <1>2, <2>2 DEF Sound, Consistent, Apart
<1>3. PhaseOf(cs[c].op) # "open"
  BY DEF PhaseOf
<1> QED BY <1>1, <1>2, <1>3

\* The session of a tab that waits for nothing about it ends.
LEMMA CloseKeeps ==
    ASSUME NEW cs, Sound(cs, tab, view, shell), NEW t \in Tabs,
           NEW phase \in {"restricted", "changed"}, Close(cs, t, phase),
           \A d \in Calls : ~(cs[d] # Idle /\ cs[d].tab = t /\ cs[d].op \in SessionOps)
    PROVE  Sound(calls', tab', view', shell)
<1> DEFINE p == [phase |-> phase, who |-> Nobody]
<1>1. RightView(NoView, p) /\ NoView.kind # "tokens"
  BY NoViewRight
<1> HIDE DEF p
<1>2. Sound(Released(cs, t, ViewOps, "aborted"), [tab EXCEPT ![t] = p], [view EXCEPT ![t] = NoView], shell)
  BY <1>1, Cleared
<1> QED BY <1>2 DEF Close, p

\* A page that is loaded or shown again drops its session and asks who it is;
\* an earlier check counts no more.
LEMMA RecheckKeeps ==
    ASSUME ConsoleInv, NEW t \in Tabs, Recheck(t)
    PROVE  ConsoleInv'
<1> DEFINE p == [phase |-> "checking", who |-> Nobody]
           cs == Released(calls, t, ViewOps \cup {"check"}, "aborted")
           np == [tab EXCEPT ![t] = p]
           nv == [view EXCEPT ![t] = NoView]
           q == Asking(t, "check", Nobody, [after |-> "load"])
<1>0. Sound(calls, tab, view, shell) /\ shell = "gateway" /\ shell' = shell
  BY DEF ConsoleInv, Recheck
<1>1. RightView(NoView, p) /\ NoView.kind # "tokens" /\ p.phase = "checking"
  BY NoViewRight
<1>2. tab' = np /\ view' = nv /\ Starts(cs, calls', q)
  BY StartsAsking DEF Recheck
<1>3. q.tab = t /\ q.op = "check"
  BY DEF Asking
<1>4. np[t] = p
  BY <1>0 DEF Sound, Consistent
<1> HIDE DEF p
<1>5. \A d \in Calls : calls[d] # Idle /\ calls[d].tab = t /\ calls[d].op \in SessionOps
                          => calls[d].op = "check"
  BY <1>0 DEF Sound, Consistent, RightCall, SessionOps
<1>6. /\ Sound(cs, np, nv, shell)
      /\ \A d \in Calls : Apart(q, cs[d])
  <2>1. /\ ViewOps \subseteq ViewOps \cup {"check"} /\ ViewOps \cup {"check"} \subseteq ViewOps \cup SessionOps
        /\ "check" \in (ViewOps \cup {"check"}) \cap SessionOps
    BY DEF SessionOps
  <2> HIDE DEF q
  <2> QED BY <1>0, <1>1, <1>3, <1>5, <2>1, Cleared
<1>7. RightCall(q, np[t], nv[t], shell)
  BY <1>0, <1>1, <1>4, SessionAsked DEF PhaseOf, SessionOps
<1> HIDE DEF q, cs, np, nv
<1>8. Sound(calls', np, nv, shell)
  BY <1>2, <1>3, <1>6, <1>7, Begun
<1> QED BY <1>0, <1>2, <1>8 DEF ConsoleInv

\* The functions of the state, and the call c.
LEMMA Parts ==
    ASSUME ConsoleInv
    PROVE  /\ Sound(calls, tab, view, shell)
           /\ tab = [u \in Tabs |-> tab[u]] /\ view = [u \in Tabs |-> view[u]]
           /\ calls = [c \in Calls |-> calls[c]]
           /\ \A c \in Calls : RightCall(calls[c], tab[calls[c].tab], view[calls[c].tab], shell)
           /\ \A t \in Tabs : RightView(view[t], tab[t])
BY DEF ConsoleInv, Sound, Consistent

\* Every route is that of a section with a view.
LEMMA NormalSectionShown ==
    ASSUME NEW raw \in RawSections PROVE NormalSection(raw) \in Sections
BY DEF RawSections, NormalSection, Sections

\* A session that was confirmed opens the tab.
LEMMA OpenKeeps ==
    ASSUME ConsoleInv, NEW c \in Calls, calls[c] # Idle, calls[c].op \in SessionOps,
           NEW t, t = calls[c].tab, NEW w, NEW s \in Sections, shell' = shell,
           tab' = [tab EXCEPT ![t] = [phase |-> "open", who |-> w]],
           Mount(Free(c), t, w, s)
    PROVE  ConsoleInv'
<1> DEFINE p == [phase |-> "open", who |-> w]
           np == [tab EXCEPT ![t] = p]
           nv == [view EXCEPT ![t] = NewView(s)]
           cs == [calls EXCEPT ![c] = Idle]
<1>1. Sound(calls, tab, view, shell)
  BY Parts
<1>2. Sound(cs, tab, view, shell)
  BY <1>1, UnawaitedEnds DEF SessionOps, Mutations
<1>3. /\ t \in Tabs /\ tab[t].phase # "open"
      /\ \A d \in Calls : d # c => ~(calls[d] # Idle /\ calls[d].tab = t /\ calls[d].op \in SessionOps)
  BY <1>1, OneSessionCall
<1>4. \A d \in Calls : ~(cs[d] # Idle /\ cs[d].tab = t /\ cs[d].op \in SessionOps)
  BY <1>3, Parts
<1>5. /\ RightView(NewView(s), p) /\ NewView(s).kind = s /\ (s = "tokens" => Waited(NewView(s)) = {})
      /\ p.phase = "open"
  BY NewViewRight
<1>6. np[t] = p /\ nv[t] = NewView(s)
  BY <1>3, Parts
<1>7. Starts(cs, calls', Asking(t, FirstRead(s), w, [after |-> "mount"]))
  BY StartsAsking DEF Mount, Free
<1>8. view' = nv
  BY DEF Mount
<1> HIDE DEF cs
<1>9. Sound(cs, np, nv, shell)
  <2> HIDE DEF p
  <2> QED BY <1>2, <1>3, <1>4, <1>5, Opened
<1> HIDE DEF np, nv
<1>10. Sound(calls', np, nv, shell)
  BY <1>3, <1>6, <1>7, <1>9, Mounted
<1> QED BY <1>8, <1>10 DEF ConsoleInv, np, p

\* The answer to a check opens the tab for the account it was answered for,
\* or restricts it.
LEMMA DeliverCheckKeeps ==
    ASSUME ConsoleInv, NEW c \in Calls, DeliverCheck(c)
    PROVE  ConsoleInv'
<1> DEFINE r == calls[c]
<1>1. r # Idle /\ r.op = "check" /\ shell' = shell
  BY DEF DeliverCheck
<1>2. r.op \in SessionOps
  BY <1>1 DEF SessionOps
<1>3. CASE r.status = "ok"
  <2>1. PICK raw \in RawSections : /\ tab' = [tab EXCEPT ![r.tab] = [phase |-> "open", who |-> r.as]]
                                   /\ Mount(Free(c), r.tab, r.as, NormalSection(raw))
    BY <1>3 DEF DeliverCheck
  <2> QED BY <1>1, <1>2, <2>1, NormalSectionShown, OpenKeeps
<1>4. CASE r.status # "ok"
  <2>1. PICK t : t = r.tab
    OBVIOUS
  <2>2. PICK cs : cs = [calls EXCEPT ![c] = Idle]
    OBVIOUS
  <2>3. Sound(cs, tab, view, shell)
    BY <1>1, <2>2, Parts, UnawaitedEnds DEF Mutations
  <2>4. /\ t \in Tabs
        /\ \A d \in Calls : ~(cs[d] # Idle /\ cs[d].tab = t /\ cs[d].op \in SessionOps)
    BY <1>1, <1>2, <2>1, <2>2, Parts, OneSessionCall
  <2>5. Close(cs, t, "restricted")
    BY <1>4, <2>1, <2>2 DEF DeliverCheck, Free
  <2>6. Sound(calls', tab', view', shell)
    BY <2>3, <2>4, <2>5, CloseKeeps
  <2> QED BY <1>1, <2>6 DEF ConsoleInv
<1> QED BY <1>3, <1>4

\* The answer to a saved key, or to a login, opens the tab for that key, or
\* leaves it at the login.
LEMMA DeliverBootstrapKeeps ==
    ASSUME ConsoleInv, NEW c \in Calls, DeliverBootstrap(c)
    PROVE  ConsoleInv'
<1> DEFINE r == calls[c]
<1>1. r # Idle /\ r.op \in {"boot", "login"} /\ shell' = shell
  BY DEF DeliverBootstrap
<1>2. r.op \in SessionOps
  BY <1>1 DEF SessionOps
<1>3. CASE r.status = "ok"
  <2>1. PICK raw \in RawSections : /\ tab' = [tab EXCEPT ![r.tab] = [phase |-> "open", who |-> r.who]]
                                   /\ Mount(Free(c), r.tab, r.who, NormalSection(raw))
    BY <1>3 DEF DeliverBootstrap
  <2> QED BY <1>1, <1>2, <2>1, NormalSectionShown, OpenKeeps
<1>4. CASE r.status # "ok"
  <2>1. PICK t : t = r.tab
    OBVIOUS
  <2>2. PICK cs : cs = [calls EXCEPT ![c] = Idle]
    OBVIOUS
  <2>3. Sound(cs, tab, view, shell)
    BY <1>1, <2>2, Parts, UnawaitedEnds DEF Mutations
  <2>4. /\ t \in Tabs /\ tab[t].phase # "open"
        /\ \A d \in Calls : ~(cs[d] # Idle /\ cs[d].tab = t /\ cs[d].op \in SessionOps)
    BY <1>1, <1>2, <2>1, <2>2, Parts, OneSessionCall
  <2>5. tab[t] = [phase |-> tab[t].phase, who |-> tab[t].who] /\ view[t] = NoView
        /\ view = [view EXCEPT ![t] = view[t]]
    BY <2>4, Parts DEF RightView, IsTokens, TokensFields, IsBrowser, IsReport
  <2>6. PICK p : p = [tab[t] EXCEPT !.phase = "login"]
    OBVIOUS
  <2>7. tab' = [tab EXCEPT ![t] = p] /\ calls' = cs /\ view' = [view EXCEPT ![t] = NoView]
    BY <1>4, <2>1, <2>2, <2>5, <2>6 DEF DeliverBootstrap, Free
  <2>8. p = [phase |-> p.phase, who |-> p.who] /\ p.phase # "open"
    BY <2>5, <2>6
  <2>9. RightView(NoView, p) /\ NoView.kind # "tokens"
    BY <2>8, NoViewRight
  <2>10. shell # "gateway"
    BY <1>1, Parts DEF RightCall
  <2>11. \A d \in Calls : cs[d] # Idle /\ cs[d].tab = t /\ cs[d].op \in ViewOps => cs[d].held # "view"
    <3>1. ASSUME NEW d \in Calls, cs[d] # Idle, cs[d].tab = t, cs[d].op \in ViewOps
          PROVE  cs[d].held # "view"
      <4>1. RightCall(cs[d], tab[t], view[t], shell)
        BY <2>3, <3>1 DEF Sound, Consistent
      <4>2. "none" \notin KindsOf(cs[d].op) /\ NoView.kind = "none"
        BY DEF KindsOf, NoView
      <4> QED BY <2>5, <3>1, <4>1, <4>2 DEF RightCall
    <3> QED BY <3>1
  <2>12. Resting(cs, t, p, shell)
    BY <2>4, <2>10, <2>11 DEF Resting
  <2>13. Sound(cs, [tab EXCEPT ![t] = p], [view EXCEPT ![t] = NoView], shell)
    <3>1. Consistent(cs, tab, view, shell)
      BY <2>3 DEF Sound
    <3> QED BY <2>3, <2>4, <2>9, <2>12, <3>1, Renewed
  <2> QED BY <1>1, <2>7, <2>13 DEF ConsoleInv
<1> QED BY <1>3, <1>4

\* No view waits for the sign-out of its tab.
LEMMA AskSignOutKeeps ==
    ASSUME ConsoleInv, NEW t \in Tabs, AskSignOut(t)
    PROVE  ConsoleInv'
<1>1. PICK w : w = tab[t].who
  OBVIOUS
<1>2. PICK q : q = Asking(t, "signout", w, [after |-> "click"])
  OBVIOUS
<1>3. Starts(calls, calls', q)
  BY <1>1, <1>2, StartsAsking DEF AskSignOut, Start
<1>4. RightCall(q, tab[t], view[t], shell)
  BY <1>2, SessionAsked DEF AskSignOut, SessionOps
<1>5. q.tab = t /\ q.op \notin SessionOps
  BY <1>2 DEF Asking, SessionOps
<1>6. Sound(calls', tab, view, shell)
  BY <1>3, <1>4, <1>5, Parts, Begun
<1> QED BY <1>6 DEF AskSignOut, ConsoleInv

\* A tab that signed out keeps no view and no request that one waits for.
LEMMA DeliverSignOutKeeps ==
    ASSUME ConsoleInv, NEW c \in Calls, DeliverSignOut(c)
    PROVE  ConsoleInv'
<1> DEFINE r == calls[c]
<1>1. r # Idle /\ r.op = "signout" /\ shell' = shell
  BY DEF DeliverSignOut
<1>2. shell = "gateway" /\ r.tab \in Tabs
  BY <1>1, Parts DEF RightCall, IsCall
<1>3. PICK cs : cs = [calls EXCEPT ![c] = Idle]
  OBVIOUS
<1>4. Sound(cs, tab, view, shell)
  BY <1>1, <1>3, Parts, UnawaitedEnds DEF Mutations
<1>5. CASE r.status = "ok"
  <2>1. PICK t, p : t = r.tab /\ p = [phase |-> "left", who |-> Nobody]
    OBVIOUS
  <2>2. RightView(NoView, p) /\ NoView.kind # "tokens"
    BY <2>1, NoViewRight
  <2>3. \A d \in Calls : cs[d] # Idle /\ cs[d].op \in SessionOps => cs[d].op = "check"
    BY <1>2, <1>4 DEF Sound, Consistent, RightCall, SessionOps
  <2>4. PICK ops : ops = ViewOps \cup {"check"}
    OBVIOUS
  <2>5. ViewOps \subseteq ops /\ ops \subseteq ViewOps \cup SessionOps /\ "check" \in ops
    BY <2>4 DEF SessionOps
  <2>6. Sound(Released(cs, t, ops, "aborted"), [tab EXCEPT ![t] = p], [view EXCEPT ![t] = NoView], shell)
    BY <1>2, <1>4, <2>1, <2>2, <2>3, <2>5, Cleared
  <2>7. /\ tab' = [tab EXCEPT ![t] = p] /\ view' = [view EXCEPT ![t] = NoView]
        /\ calls' = Released(cs, t, ops, "aborted")
    BY <1>3, <1>5, <2>1, <2>4 DEF DeliverSignOut, Free
  <2> QED BY <1>1, <2>6, <2>7 DEF ConsoleInv
<1>6. CASE r.status # "ok"
  BY <1>1, <1>3, <1>4, <1>6 DEF DeliverSignOut, Free, ConsoleInv
<1> QED BY <1>5, <1>6

\* A logout closes the view and orphans its requests.
LEMMA LogoutKeeps ==
    ASSUME ConsoleInv, NEW t \in Tabs, Logout(t)
    PROVE  ConsoleInv'
<1>1. PICK p : p = [phase |-> "login", who |-> Nobody]
  OBVIOUS
<1>2. RightView(NoView, p) /\ NoView.kind # "tokens" /\ p.phase = "login"
  BY <1>1, NoViewRight
<1>3. \A d \in Calls : ~(calls[d] # Idle /\ calls[d].tab = t /\ calls[d].op \in SessionOps)
  BY Parts DEF RightCall, PhaseOf, Logout
<1>4. shell # "gateway" /\ ViewOps \subseteq ViewOps \cup SessionOps
  BY DEF Logout
<1>5. Sound(Released(calls, t, ViewOps, "orphan"), [tab EXCEPT ![t] = p], [view EXCEPT ![t] = NoView], shell)
  BY <1>2, <1>3, <1>4, Parts, Cleared
<1> QED BY <1>1, <1>5 DEF Logout, ConsoleInv

\* A page that is loaded keeps nothing of the view before it, and tries the
\* saved key if there is one.
LEMMA LoadKeeps ==
    ASSUME ConsoleInv, NEW t \in Tabs, Load(t)
    PROVE  ConsoleInv'
<1>1. PICK ops : ops = ViewOps \cup SessionOps
  OBVIOUS
<1>2. PICK cs : cs = Released(calls, t, ops, "aborted")
  OBVIOUS
<1>3. ViewOps \subseteq ops /\ ops \subseteq ViewOps \cup SessionOps /\ "boot" \in ops \cap SessionOps
  BY <1>1 DEF SessionOps
<1>4. ASSUME NEW p, RightView(NoView, p)
      PROVE  /\ Sound(cs, [tab EXCEPT ![t] = p], [view EXCEPT ![t] = NoView], shell)
             /\ \A q : q.tab = t /\ q.op \in ops \cap SessionOps => \A d \in Calls : Apart(q, cs[d])
  <2>1. NoView.kind # "tokens" /\ \A d \in Calls : calls[d].op \in SessionOps => calls[d].op \in ops
    BY <1>1 DEF NoView
  <2> QED BY <1>2, <1>3, <1>4, <2>1, Parts, Cleared
<1>5. CASE saved \in Keys
  <2>1. PICK p, q : /\ p = [phase |-> "booting", who |-> Nobody]
                   /\ q = Asking(t, "boot", saved, [key |-> saved])
    OBVIOUS
  <2>2. RightView(NoView, p) /\ p.phase = "booting"
    BY <2>1, NoViewRight
  <2>3. /\ tab' = [tab EXCEPT ![t] = p] /\ view' = [view EXCEPT ![t] = NoView] /\ shell' = shell
        /\ Starts(cs, calls', q) /\ shell # "gateway"
    BY <1>1, <1>2, <1>5, <2>1, StartsAsking DEF Load
  <2>4. q.tab = t /\ q.op = "boot"
    BY <2>1 DEF Asking
  <2>5. [tab EXCEPT ![t] = p][t] = p
    BY Parts
  <2>6. RightCall(q, [tab EXCEPT ![t] = p][t], [view EXCEPT ![t] = NoView][t], shell)
    BY <2>1, <2>2, <2>3, <2>5, SessionAsked DEF PhaseOf, SessionOps
  <2>7. Sound(calls', [tab EXCEPT ![t] = p], [view EXCEPT ![t] = NoView], shell)
    BY <1>3, <1>4, <2>2, <2>3, <2>4, <2>6, Begun
  <2> QED BY <2>3, <2>7 DEF ConsoleInv
<1>6. CASE saved \notin Keys
  <2>1. PICK p : p = [phase |-> "login", who |-> Nobody]
    OBVIOUS
  <2>2. RightView(NoView, p)
    BY <2>1, NoViewRight
  <2> QED BY <1>1, <1>2, <1>4, <1>6, <2>1, <2>2 DEF Load, ConsoleInv
<1> QED BY <1>5, <1>6

\* A login is asked for by a tab that waits for one.
LEMMA LoginKeeps ==
    ASSUME ConsoleInv, NEW t \in Tabs, NEW k \in Keys, Login(t, k)
    PROVE  ConsoleInv'
<1>1. PICK q : q = Asking(t, "login", k, [key |-> k])
  OBVIOUS
<1>2. Starts(calls, calls', q) /\ shell # "gateway" /\ tab[t].phase = "login"
  BY <1>1, StartsAsking DEF Login, Start
<1>3. RightCall(q, tab[t], view[t], shell)
  BY <1>1, <1>2, SessionAsked DEF PhaseOf, SessionOps
<1>4. q.tab = t /\ q.op = "login"
  BY <1>1 DEF Asking
<1>5. \A d \in Calls : Apart(q, calls[d])
  BY <1>4, Parts DEF Login, InFlight, Apart, RightCall, SessionOps
<1>6. Sound(calls', tab, view, shell)
  BY <1>2, <1>3, <1>4, <1>5, Parts, Begun
<1> QED BY <1>6 DEF Login, ConsoleInv

-----------------------------------------------------------------------------
(* The server                                                               *)

\* Call c is now the call q.
Becomes(cs, ds, c, q) ==
    /\ ds = [d \in Calls |-> ds[d]] /\ \A d \in Calls : d # c => ds[d] = cs[d]
    /\ ds[c] = q

\* A call that keeps what it asks for and for whom.
Answer(r, a, s, w, b) ==
    [tab |-> r.tab, op |-> r.op, who |-> r.who, arg |-> a, held |-> r.held,
     status |-> s, as |-> w, body |-> b]

\* An answer to a request, served as the account it names or refused, keeps
\* what the views rely on.
LEMMA AnswerKeeps ==
    ASSUME ConsoleInv, NEW c \in Calls, calls[c] # Idle,
           NEW a, NEW s, NEW w, NEW b, Becomes(calls, calls', c, Answer(calls[c], a, s, w, b)),
           a = calls[c].arg \/ calls[c].op \in Mutations,
           calls[c].op \in ViewOps => /\ s # "sent" /\ (s = "ok" => w = calls[c].who)
                                      /\ s = "refused" => shell = "gateway",
           calls[c].op = "page" /\ s = "ok" => a.base.cursor \in {Nobody, a.dataset},
           UNCHANGED <<tab, view, shell>>
    PROVE  ConsoleInv'
<1>1. PICK r, ds : r = calls[c] /\ ds = calls'
  OBVIOUS
<1>2. /\ ds = [d \in Calls |-> ds[d]] /\ \A d \in Calls : d # c => ds[d] = calls[d]
      /\ ds[c] = [tab |-> r.tab, op |-> r.op, who |-> r.who, arg |-> a, held |-> r.held,
                  status |-> s, as |-> w, body |-> b]
  BY <1>1 DEF Becomes, Answer
<1>3. Sound(ds, tab, view, shell)
  BY <1>1, <1>2, Parts, Progressed
<1> QED BY <1>1, <1>3 DEF ConsoleInv

\* The ways a call's fields are set.
Given(cs, ds, c, a, s, w, b) ==
    ds = [cs EXCEPT ![c].status = s, ![c].as = w, ![c].body = b, ![c].arg = a]

Marked(cs, ds, c, s, w) ==
    ds = [cs EXCEPT ![c].status = s, ![c].as = w] \/ ds = [cs EXCEPT ![c].status = s]

\* Setting fields of a call is replacing it.
LEMMA FieldsSet ==
    ASSUME NEW cs, NEW ds, cs = [d \in Calls |-> cs[d]], NEW c \in Calls, NEW r, r = cs[c], IsCall(r),
           NEW s, NEW w, NEW b, NEW a
    PROVE  /\ Given(cs, ds, c, a, s, w, b) => Becomes(cs, ds, c, Answer(r, a, s, w, b))
           /\ ds = [cs EXCEPT ![c].status = s, ![c].arg = a]
                  => Becomes(cs, ds, c, Answer(r, a, s, r.as, r.body))
<1>1. ASSUME Given(cs, ds, c, a, s, w, b) PROVE Becomes(cs, ds, c, Answer(r, a, s, w, b))
  BY <1>1 DEF Given, Becomes, Answer, IsCall
<1>2. ASSUME ds = [cs EXCEPT ![c].status = s, ![c].arg = a]
      PROVE  Becomes(cs, ds, c, Answer(r, a, s, r.as, r.body))
  BY <1>2 DEF Becomes, Answer, IsCall
<1> QED BY <1>1, <1>2

\* So is setting its status, with or without whom it was served as.
LEMMA MarkSet ==
    ASSUME NEW cs, NEW ds, cs = [d \in Calls |-> cs[d]], NEW c \in Calls, NEW r, r = cs[c], IsCall(r),
           NEW s, NEW w, Marked(cs, ds, c, s, w)
    PROVE  \E x : Becomes(cs, ds, c, Answer(r, r.arg, s, x, r.body))
<1>1. ASSUME ds = [cs EXCEPT ![c].status = s, ![c].as = w]
      PROVE  Becomes(cs, ds, c, Answer(r, r.arg, s, w, r.body))
  BY <1>1 DEF Becomes, Answer, IsCall
<1>2. ASSUME ds = [cs EXCEPT ![c].status = s]
      PROVE  Becomes(cs, ds, c, Answer(r, r.arg, s, r.as, r.body))
  BY <1>2 DEF Becomes, Answer, IsCall
<1> QED BY <1>1, <1>2, Zenon DEF Marked

\* What is left of the argument once a call was answered.
Kept(r) == IF r.op \in Mutations THEN Unheard ELSE r.arg

\* An admitted request is answered; a page only if its cursor is one of its
\* dataset.
LEMMA ExecuteAnswers ==
    ASSUME NEW c \in Calls, NEW r, r = calls[c], Execute(c, r)
    PROVE  \E s \in {"ok", "failed"} : \E b :
              /\ Given(calls, calls', c, Kept(r), s, ServedAs(r), b)
              /\ r.op = "page" /\ s = "ok" => CursorMatches(r.arg)
BY DEF Execute, Kept, Mutations, ReadOps, Given

\* A view's request is served, or refused.
LEMMA ServeKeeps ==
    ASSUME ConsoleInv, NEW c \in Calls, Serve(c)
    PROVE  ConsoleInv'
<1>1. PICK r : r = calls[c]
  OBVIOUS
<1>2. r # Idle /\ r.op \in ViewOps /\ UNCHANGED <<tab, view, shell>>
  BY <1>1 DEF Serve
<1>3. IsCall(r) /\ calls = [d \in Calls |-> calls[d]]
  BY <1>1, <1>2, Parts DEF RightCall
<1>4. PICK verdict \in Verdicts(r) :
         IF verdict = "ok" THEN Execute(c, r)
         ELSE calls' = [calls EXCEPT ![c].status = IF shell = "gateway" THEN "refused" ELSE "failed",
                                     ![c].arg = IF r.op \in Mutations THEN Unheard ELSE @]
  BY <1>1 DEF Serve
<1>5. CASE verdict = "ok"
  <2>1. ServedAs(r) = r.who
    BY <1>4, <1>5 DEF Verdicts, ServedAs, GatewayVerdicts, AccountVerdict
  <2>2. Execute(c, r)
    BY <1>4, <1>5
  <2>3. PICK s, b :
           /\ s \in {"ok", "failed"}
           /\ Given(calls, calls', c, Kept(r), s, ServedAs(r), b)
           /\ r.op = "page" /\ s = "ok" => CursorMatches(r.arg)
    BY <1>1, <2>2, ExecuteAnswers
  <2>4. Becomes(calls, calls', c, Answer(r, Kept(r), s, r.who, b))
    BY <1>1, <1>3, <2>1, <2>3, FieldsSet
  <2>5. /\ Kept(r) = r.arg \/ r.op \in Mutations
        /\ r.op = "page" /\ s = "ok" => Kept(r).base.cursor \in {Nobody, Kept(r).dataset}
    BY <2>3 DEF Kept, CursorMatches, Mutations
  <2>6. s # "sent" /\ s # "refused"
    BY <2>3
  <2> QED BY <1>1, <1>2, <2>4, <2>5, <2>6, AnswerKeeps
<1>6. CASE verdict # "ok"
  <2>1. PICK s : s = IF shell = "gateway" THEN "refused" ELSE "failed"
    OBVIOUS
  <2>2. calls' = [calls EXCEPT ![c].status = s, ![c].arg = Kept(r)]
    BY <1>1, <1>3, <1>4, <1>6, <2>1 DEF Kept
  <2>3. Becomes(calls, calls', c, Answer(r, Kept(r), s, r.as, r.body))
    BY <1>1, <1>3, <2>2, FieldsSet
  <2> QED BY <1>1, <1>2, <2>1, <2>3, AnswerKeeps DEF Kept
<1> QED BY <1>5, <1>6

\* A request, or its answer, is lost: the page still waits for its failure.
LEMMA LoseKeeps ==
    ASSUME ConsoleInv, NEW c \in Calls, Lose(c)
    PROVE  ConsoleInv'
<1>1. PICK r : r = calls[c]
  OBVIOUS
<1>2. r # Idle /\ UNCHANGED <<tab, view, shell>>
  BY <1>1 DEF Lose
<1>3. IsCall(r) /\ calls = [d \in Calls |-> calls[d]]
  BY <1>1, <1>2, Parts DEF RightCall
<1>4. Becomes(calls, calls', c, Answer(r, Kept(r), "failed", Nobody, NoList))
  BY <1>1, <1>3 DEF Lose, Kept, Becomes, Answer, IsCall
<1> QED BY <1>1, <1>2, <1>4, AnswerKeeps DEF Kept

\* Checks, logins and signing out are answered.
LEMMA SessionServed ==
    ASSUME ConsoleInv, NEW c \in Calls, ServeCheck(c) \/ ServeSignOut(c) \/ ServeBootstrap(c)
    PROVE  ConsoleInv'
<1>1. PICK r : r = calls[c]
  OBVIOUS
<1>2. r # Idle /\ r.op \in SessionOps \cup {"signout"} /\ UNCHANGED <<tab, view, shell>>
  BY <1>1 DEF ServeCheck, ServeSignOut, ServeBootstrap, SessionOps
<1>3. IsCall(r) /\ calls = [d \in Calls |-> calls[d]]
  BY <1>1, <1>2, Parts DEF RightCall
<1>4. \E s, w : Marked(calls, calls', c, s, w)
  BY <1>1, Zenon DEF ServeCheck, ServeSignOut, ServeBootstrap, Marked
<1>5. \E s, w : Becomes(calls, calls', c, Answer(r, r.arg, s, w, r.body))
  BY <1>1, <1>3, <1>4, MarkSet
<1>6. r.op \notin ViewOps /\ r.op # "page"
  BY <1>2, SessionsApart DEF SessionOps
<1> QED BY <1>1, <1>2, <1>5, <1>6, AnswerKeeps

-----------------------------------------------------------------------------
(* The views                                                                *)

\* The view of a kind has the shape of that kind.
LEMMA KindOfView ==
    ASSUME NEW v, NEW p, RightView(v, p)
    PROVE  /\ v.kind = "tokens" => IsTokens(v, p.who)
           /\ v.kind = "browser" => IsBrowser(v)
           /\ v.kind \in {"usage", "health"} => IsReport(v)
           /\ v.kind # "none" => p.phase = "open"
BY DEF RightView, IsTokens, TokensFields, IsBrowser, IsReport, NoView

\* The list of keys is shown otherwise, and waits for no more.
LEMMA TokensReplaced ==
    ASSUME NEW cs, NEW ps, NEW vs, NEW sh, Sound(cs, ps, vs, sh),
           NEW t \in Tabs, vs[t].kind = "tokens", NEW v, IsTokens(v, ps[t].who),
           \A op \in Waited(v) : op \in Waited(vs[t]) \/ \E c \in Calls : Awaits(cs[c], t, op)
    PROVE  Sound(cs, ps, [vs EXCEPT ![t] = v], sh)
<1>1. v.kind = "tokens" /\ vs[t].kind # "none"
  BY DEF IsTokens
<1>2. RightView(vs[t], ps[t])
  BY DEF Sound, Consistent
<1>3. RightView(v, ps[t])
  BY <1>1, <1>2 DEF RightView
<1> QED BY <1>1, <1>3, ViewReplaced

\* Any other view shows something else.
LEMMA OtherReplaced ==
    ASSUME NEW cs, NEW ps, NEW vs, NEW sh, Sound(cs, ps, vs, sh),
           NEW t \in Tabs, NEW v, IsBrowser(v) \/ IsReport(v), v.kind = vs[t].kind
    PROVE  Sound(cs, ps, [vs EXCEPT ![t] = v], sh)
<1>1. v.kind # "tokens" /\ v.kind # "none"
  BY DEF IsBrowser, IsReport
<1>2. RightView(vs[t], ps[t])
  BY DEF Sound, Consistent
<1>3. RightView(v, ps[t])
  BY <1>1, <1>2 DEF RightView
<1> QED BY <1>1, <1>3, ViewReplaced

\* A change that is over is waited for no longer.
LEMMA Settled ==
    ASSUME NEW v, NEW who, IsTokens(v, who), NEW op
    PROVE  /\ IsTokens(Settle(v, op), who)
           /\ \A x \in Waited(Settle(v, op)) : x # op /\ x \in Waited(v)
<1>1. PICK w : w = Settle(v, op)
  OBVIOUS
<1>4. /\ IsTokens(w, who) /\ w.busy = (IF op = "toggle" THEN Nobody ELSE v.busy)
      /\ w.pending = v.pending \ {op}
  BY <1>1 DEF Settle, IsTokens, TokensFields
<1>5. \A x \in Waited(w) : x # op /\ x \in Waited(v)
  BY <1>4 DEF Waited
<1> QED BY <1>1, <1>4, <1>5

\* What an operation is asked for by an open view.
LEMMA AskedByView ==
    ASSUME ConsoleInv, NEW c \in Calls, calls[c] # Idle, calls[c].op \in ViewOps, calls[c].held = "view"
    PROVE  /\ calls[c].tab \in Tabs /\ view[calls[c].tab].kind \in KindsOf(calls[c].op)
           /\ calls[c].who = tab[calls[c].tab].who
           /\ calls[c].status = "ok" => calls[c].as = calls[c].who
           /\ RightArg(calls[c])
           /\ RightView(view[calls[c].tab], tab[calls[c].tab])
BY Parts DEF RightCall, IsCall

\* What the answer to a change makes of the view, and of the views; k is the
\* key it created.
Amended(v, op, k) ==
    [v EXCEPT !.error = FALSE,
              !.dialog = IF op = "toggle" THEN @ ELSE IF @.op = op THEN NoDialog ELSE @,
              !.revealed = IF op = "create" THEN k ELSE @]

Changed(vs, t, op, k) ==
    [vs EXCEPT ![t].error = FALSE,
               ![t].dialog = IF op = "toggle" THEN @ ELSE IF @.op = op THEN NoDialog ELSE @,
               ![t].revealed = IF op = "create" THEN k ELSE @]

OverTabs(vs) == vs = [t \in Tabs |-> vs[t]]

\* Setting fields of a view is replacing it.
LEMMA FieldsOfView ==
    ASSUME NEW vs, OverTabs(vs), NEW t \in Tabs, NEW who, IsTokens(vs[t], who), NEW op, NEW k
    PROVE  Changed(vs, t, op, k) = [vs EXCEPT ![t] = Amended(vs[t], op, k)]
<1>1. PICK u : u = vs[t]
  OBVIOUS
<1>2. u = [f \in TokensFields |-> u[f]]
  BY <1>1 DEF IsTokens
<1>3. PICK d, x : /\ d = IF op = "toggle" THEN u.dialog
                         ELSE IF u.dialog.op = op THEN NoDialog ELSE u.dialog
                 /\ x = IF op = "create" THEN k ELSE u.revealed
  OBVIOUS
<1>4. PICK v : v = [u EXCEPT !.error = FALSE]
  OBVIOUS
<1>5. v = [f \in TokensFields |-> v[f]] /\ v.dialog = u.dialog
  BY <1>2, <1>4 DEF TokensFields
<1>6. PICK w : w = [v EXCEPT !.dialog = d]
  OBVIOUS
<1>7. w.revealed = u.revealed
  BY <1>2, <1>4, <1>5, <1>6 DEF TokensFields
<1>8. PICK z : z = [w EXCEPT !.revealed = x]
  OBVIOUS
<1>9. Amended(u, op, k) = z
  BY <1>3, <1>4, <1>5, <1>6, <1>7, <1>8 DEF Amended
<1>10. PICK vs1 : vs1 = [vs EXCEPT ![t] = v]
  OBVIOUS
<1>11. PICK vs2 : vs2 = [vs1 EXCEPT ![t] = w]
  OBVIOUS
<1>12. vs1[t] = v /\ vs2[t] = w /\ [vs2 EXCEPT ![t] = z] = [vs EXCEPT ![t] = z]
  BY <1>10, <1>11 DEF OverTabs
<1>13. Changed(vs, t, op, k) = [vs2 EXCEPT ![t] = z]
  <2>1. /\ d = IF op = "toggle" THEN vs[t].dialog
                ELSE IF vs[t].dialog.op = op THEN NoDialog ELSE vs[t].dialog
        /\ x = IF op = "create" THEN k ELSE vs[t].revealed
    BY <1>1, <1>3
  <2>2. Changed(vs, t, op, k)
            = [vs EXCEPT ![t].error = FALSE, ![t].dialog = d, ![t].revealed = x]
    BY <2>1, Zenon DEF Changed
  <2>3. [vs EXCEPT ![t] = [vs[t] EXCEPT !.error = FALSE]] = vs1
    BY <1>1, <1>4, <1>10, Zenon
  <2>4. [vs1 EXCEPT ![t] = [vs1[t] EXCEPT !.dialog = d]] = vs2
    BY <1>6, <1>11, <1>12, Zenon
  <2>5. [vs2 EXCEPT ![t] = [vs2[t] EXCEPT !.revealed = x]] = [vs2 EXCEPT ![t] = z]
    BY <1>8, <1>12, Zenon
  <2> QED BY <2>2, <2>3, <2>4, <2>5, Zenon
<1> QED BY <1>1, <1>9, <1>12, <1>13

\* It waits for what it waited for.
LEMMA AmendedIsTokens ==
    ASSUME NEW u, NEW who, IsTokens(u, who), NEW op, NEW k
    PROVE  /\ IsTokens(Amended(u, op, k), who)
           /\ Waited(Amended(u, op, k)) = Waited(u)
<1>1. PICK d, x : /\ d = IF op = "toggle" THEN u.dialog
                         ELSE IF u.dialog.op = op THEN NoDialog ELSE u.dialog
                 /\ x = IF op = "create" THEN k ELSE u.revealed
  OBVIOUS
<1>2. PICK v : v = Amended(u, op, k)
  OBVIOUS
<1>3. v = [u EXCEPT !.error = FALSE, !.dialog = d, !.revealed = x]
  BY <1>1, <1>2 DEF Amended, IsTokens, TokensFields
<1>4. IsDialog(d)
  BY <1>1 DEF IsTokens, IsDialog
<1>5. IsTokens(v, who) /\ v.busy = u.busy /\ v.pending = u.pending
  BY <1>3, <1>4 DEF IsTokens, TokensFields
<1> QED BY <1>2, <1>5 DEF Waited

\* After a change the flag of its button waits for the read of the list, or
\* is given back.
LEMMA AfterChangeKeeps ==
    ASSUME ConsoleInv, NEW c \in Calls, NEW r, r = calls[c], r # Idle, r.op \in Mutations,
           r.held = "view", AfterChange(c, r), UNCHANGED <<tab, shell>>
    PROVE  ConsoleInv'
<1>1. PICK t, who : t = r.tab /\ who = tab[t].who
  OBVIOUS
<1>2. t \in Tabs /\ view[t].kind = "tokens" /\ RightView(view[t], tab[t])
  BY <1>1, AskedByView DEF KindsOf, ViewOps
<1>3. IsTokens(view[t], who) /\ Sound(calls, tab, view, shell)
  BY <1>1, <1>2, KindOfView, Parts
<1>4. CASE r.status = "ok"
  <2>1. PICK q : q = Asking(t, "list", who, [after |-> r.op])
    OBVIOUS
  <2>2. q # Idle /\ q.tab = t /\ q.op = "list" /\ q.held = "view" /\ q.arg.after = r.op
    BY <2>1 DEF Asking, Idle
  <2>3. RightCall(q, tab[t], view[t], shell)
    BY <1>1, <1>2, <2>1, Requested DEF ViewOps, KindsOf
  <2>4. \A d \in Calls : d # c => Apart(q, calls[d])
    BY <2>2 DEF Apart, SessionOps
  <2>5. \A u \in Tabs : \A op \in Waited(view[u]) :
           view[u].kind = "tokens" /\ Awaits(calls[c], u, op) => Awaits(q, u, op)
    BY <1>1, <2>2 DEF Awaits, Mutations
  <2>6. Sound([calls EXCEPT ![c] = q], tab, view, shell)
    BY <1>3, <2>2, <2>3, <2>4, <2>5, CallReplaced
  <2>7. calls' = [calls EXCEPT ![c] = q]
    BY <1>1, <1>4, <2>1 DEF AfterChange, Request, Asking
  <2>8. PICK k : k = CHOOSE x \in Managed : r.body[x] \in Entries
    OBVIOUS
  <2>9. PICK v : v = Amended(view[t], r.op, k)
    OBVIOUS
  <2>10. view' = Changed(view, t, r.op, k)
    BY <1>1, <1>4, <2>8, Zenon DEF AfterChange, Changed
  <2>11. OverTabs(view)
    BY Parts DEF OverTabs
  <2>12. view' = [view EXCEPT ![t] = v]
    BY <1>2, <1>3, <2>9, <2>10, <2>11, FieldsOfView
  <2>13. IsTokens(v, who) /\ Waited(v) = Waited(view[t])
    BY <1>3, <2>9, AmendedIsTokens
  <2>14. Sound(calls', tab, view', shell)
    BY <1>1, <1>2, <2>6, <2>7, <2>12, <2>13, TokensReplaced
  <2> QED BY <2>14 DEF ConsoleInv
<1>5. CASE r.status # "ok"
  <2>1. PICK v, vs : v = Settle(view[t], r.op) /\ vs = [view EXCEPT ![t] = v]
    OBVIOUS
  <2>2. IsTokens(v, who) /\ \A x \in Waited(v) : x # r.op /\ x \in Waited(view[t])
    BY <1>3, <2>1, Settled
  <2>3. Sound(calls, tab, vs, shell)
    BY <1>1, <1>2, <1>3, <2>1, <2>2, TokensReplaced
  <2>4. \A u \in Tabs : \A op \in Waited(vs[u]) : vs[u].kind = "tokens" => ~Awaits(calls[c], u, op)
    <3>1. vs[t] = v
      BY <1>2, <2>1, Parts
    <3> QED BY <1>1, <2>2, <3>1 DEF Awaits, Mutations
  <2>5. Sound([calls EXCEPT ![c] = Idle], tab, vs, shell)
    BY <2>3, <2>4, Ended
  <2>6. calls' = [calls EXCEPT ![c] = Idle] /\ view' = vs
    BY <1>1, <1>5, <2>1 DEF AfterChange, Free
  <2> QED BY <2>5, <2>6 DEF ConsoleInv
<1> QED BY <1>4, <1>5

\* After the list was read, or was not, the flag that waited for it is given
\* back.
LEMMA AfterListKeeps ==
    ASSUME ConsoleInv, NEW c \in Calls, NEW r, r = calls[c], r # Idle, r.op = "list",
           r.held = "view", AfterList(c, r), UNCHANGED <<tab, shell>>
    PROVE  ConsoleInv'
<1>1. PICK t, who : t = r.tab /\ who = tab[t].who
  OBVIOUS
<1>2. /\ t \in Tabs /\ view[t].kind = "tokens" /\ RightView(view[t], tab[t])
      /\ r.status = "ok" => r.as = who
  BY <1>1, AskedByView DEF KindsOf, ViewOps
<1>3. IsTokens(view[t], who) /\ Sound(calls, tab, view, shell)
  BY <1>1, <1>2, KindOfView, Parts
<1>4. PICK w : w = Settle(view[t], r.arg.after)
  OBVIOUS
<1>5. IsTokens(w, who) /\ \A x \in Waited(w) : x # r.arg.after /\ x \in Waited(view[t])
  BY <1>3, <1>4, Settled
<1>6. PICK v : v = IF r.status = "ok" THEN [w EXCEPT !.list = r.body, !.loaded = TRUE, !.as = r.as]
                   ELSE [w EXCEPT !.error = TRUE]
  OBVIOUS
<1>7. IsTokens(v, who) /\ v.pending = w.pending /\ v.busy = w.busy
  BY <1>2, <1>5, <1>6 DEF IsTokens, TokensFields
<1>8. Waited(v) = Waited(w)
  BY <1>7 DEF Waited
<1>9. PICK vs : vs = [view EXCEPT ![t] = v]
  OBVIOUS
<1>10. Sound(calls, tab, vs, shell)
  BY <1>1, <1>2, <1>3, <1>5, <1>7, <1>8, <1>9, TokensReplaced
<1>11. \A u \in Tabs : \A op \in Waited(vs[u]) : vs[u].kind = "tokens" => ~Awaits(calls[c], u, op)
  <2>1. vs[t] = v
    BY <1>2, <1>9, Parts
  <2>2. \A u \in Tabs : \A op \in Waited(vs[u]) : vs[u].kind = "tokens" => op \in Mutations
    BY <1>10, WaitedIsAChange
  <2> QED BY <1>1, <1>5, <1>8, <2>1, <2>2 DEF Awaits, Mutations
<1>12. Sound([calls EXCEPT ![c] = Idle], tab, vs, shell)
  BY <1>10, <1>11, Ended
<1>13. calls' = [calls EXCEPT ![c] = Idle] /\ view' = vs
  BY <1>1, <1>4, <1>6, <1>9 DEF AfterList, Free
<1> QED BY <1>12, <1>13 DEF ConsoleInv

\* A sample, or a further page, leaves rows of the dataset it asked for.
LEMMA AfterSampleKeeps ==
    ASSUME ConsoleInv, NEW c \in Calls, NEW r, r = calls[c], r # Idle, r.op \in {"sample", "page"},
           r.held = "view", AfterSample(c, r), UNCHANGED <<tab, shell>>
    PROVE  ConsoleInv'
<1>1. PICK t, u, base, d : t = r.tab /\ u = view[t] /\ base = r.arg.base /\ d = r.arg.dataset
  OBVIOUS
<1>2. t \in Tabs /\ u.kind = "browser" /\ RightView(u, tab[t]) /\ RightArg(r)
  BY <1>1, AskedByView DEF KindsOf, ViewOps, Mutations
<1>3. IsBrowser(u) /\ Sound(calls, tab, view, shell)
  BY <1>2, KindOfView, Parts
<1>4. RightSample(base) /\ (r.status = "ok" => base.rows \subseteq {d})
  <2>1. CASE r.op = "sample"
    BY <1>1, <1>2, <2>1 DEF RightArg, RightSample, NoSample
  <2>2. CASE r.op = "page"
    BY <1>1, <1>2, <2>2 DEF RightArg, RightSample
  <2> QED BY <2>1, <2>2
<1>5. PICK next \in {Nobody, d} :
         view' = [view EXCEPT ![t].sample =
             IF r.status = "ok"
             THEN [loading |-> FALSE, error |-> FALSE, rows |-> base.rows \cup {d}, cursor |-> next]
             ELSE [base EXCEPT !.loading = FALSE, !.error = TRUE]]
  BY <1>1, Zenon DEF AfterSample
<1>6. PICK n : n = IF r.status = "ok"
                   THEN [loading |-> FALSE, error |-> FALSE, rows |-> base.rows \cup {d}, cursor |-> next]
                   ELSE [base EXCEPT !.loading = FALSE, !.error = TRUE]
  OBVIOUS
<1>7. RightSample(n)
  <2>1. CASE r.status = "ok"
    <3>1. n = [loading |-> FALSE, error |-> FALSE, rows |-> base.rows \cup {d}, cursor |-> next]
      BY <1>6, <2>1
    <3>2. n.rows \subseteq {d} /\ n.cursor \in {Nobody, d}
      BY <1>4, <2>1, <3>1
    <3>3. n = [f \in {"loading", "error", "rows", "cursor"} |-> n[f]]
      BY <3>1
    <3> QED BY <3>2, <3>3 DEF RightSample
  <2>2. CASE r.status # "ok"
    BY <1>4, <1>6, <2>2 DEF RightSample
  <2> QED BY <2>1, <2>2
<1>8. PICK v : v = [u EXCEPT !.sample = n]
  OBVIOUS
<1>9. IsBrowser(v)
  BY <1>3, <1>7, <1>8 DEF IsBrowser
<1>10. view' = [view EXCEPT ![t] = v]
  BY <1>1, <1>5, <1>6, <1>8
<1>11. Sound(calls, tab, view', shell)
  BY <1>1, <1>2, <1>3, <1>9, <1>10, OtherReplaced DEF IsBrowser
<1>12. calls' = [calls EXCEPT ![c] = Idle]
  BY DEF AfterSample, Free
<1>13. Sound(calls', tab, view', shell)
  BY <1>11, <1>12, UnawaitedEnds DEF Mutations
<1> QED BY <1>13 DEF ConsoleInv

\* What a report or the catalogue answers changes no list and no table.
LEMMA AfterReadKeeps ==
    ASSUME ConsoleInv, NEW c \in Calls, NEW r, r = calls[c], r # Idle, r.op \in ReadOps,
           r.held = "view", AfterRead(c, r), UNCHANGED <<tab, shell>>
    PROVE  ConsoleInv'
<1>1. PICK t, u, who : t = r.tab /\ u = view[t] /\ who = tab[t].who
  OBVIOUS
<1>2. /\ t \in Tabs /\ u.kind \in {"browser", "usage", "health"} /\ RightView(u, tab[t])
      /\ r.op = "catalog" => u.kind = "browser"
  BY <1>1, AskedByView DEF KindsOf, ViewOps, Mutations, ReadOps
<1>3. (IsBrowser(u) \/ IsReport(u)) /\ Sound(calls, tab, view, shell)
  BY <1>2, KindOfView, Parts
<1>4. PICK l, v : l = (r.op = "decoration" \/ r.status = "ok") /\ v = [u EXCEPT !.loaded = l]
  OBVIOUS
<1>5. (IsBrowser(v) \/ IsReport(v)) /\ v.kind = u.kind
  BY <1>3, <1>4 DEF IsBrowser, IsReport
<1>6. view' = [view EXCEPT ![t] = v]
  BY <1>1, <1>4 DEF AfterRead
<1>7. Sound(calls, tab, view', shell)
  BY <1>1, <1>2, <1>3, <1>5, <1>6, OtherReplaced
<1>8. CASE r.op = "catalog" /\ r.status = "ok"
  <2>1. PICK q : q = Asking(t, "decoration", who, [after |-> "mount"])
    OBVIOUS
  <2>2. q # Idle /\ q.tab = t /\ q.op = "decoration"
    BY <2>1 DEF Asking, Idle
  <2>3. view'[t] = v /\ RightView(v, tab[t]) /\ v.kind = "browser"
    BY <1>2, <1>5, <1>6, <1>7, <1>8, Parts DEF Sound, Consistent
  <2>4. RightCall(q, tab[t], view'[t], shell)
    BY <1>1, <1>2, <2>1, <2>3, Requested DEF ViewOps, ReadOps, KindsOf, Mutations
  <2>5. \A d \in Calls : d # c => Apart(q, calls[d])
    BY <2>2 DEF Apart, SessionOps
  <2>6. \A x \in Tabs : \A op \in Waited(view'[x]) : view'[x].kind = "tokens" => ~Awaits(calls[c], x, op)
    BY <1>7, <1>8, WaitedIsAChange DEF Awaits, Mutations
  <2>7. Sound([calls EXCEPT ![c] = q], tab, view', shell)
    BY <1>7, <2>2, <2>4, <2>5, <2>6, CallReplaced
  <2>8. calls' = [calls EXCEPT ![c] = q]
    BY <1>1, <1>8, <2>1 DEF AfterRead, Request, Asking
  <2> QED BY <2>7, <2>8 DEF ConsoleInv
<1>9. CASE ~(r.op = "catalog" /\ r.status = "ok")
  <2>1. calls' = [calls EXCEPT ![c] = Idle]
    BY <1>9 DEF AfterRead, Free
  <2>2. Sound(calls', tab, view', shell)
    BY <1>7, <2>1, UnawaitedEnds DEF ReadOps, Mutations
  <2> QED BY <2>2 DEF ConsoleInv
<1> QED BY <1>8, <1>9

\* A refusal ends the session of the tab, and everything its view waits for.
LEMMA RefusedKeeps ==
    ASSUME ConsoleInv, NEW c \in Calls, calls[c] # Idle, calls[c].op \in ViewOps,
           calls[c].held # "aborted", calls[c].status = "refused", shell' = shell,
           Close(Free(c), calls[c].tab, "changed")
    PROVE  ConsoleInv'
<1>1. PICK t, p : t = calls[c].tab /\ p = [phase |-> "changed", who |-> Nobody]
  OBVIOUS
<1>2. t \in Tabs /\ tab[t].phase = "open"
  BY <1>1, Parts DEF RightCall, IsCall
<1>3. RightView(NoView, p) /\ NoView.kind # "tokens"
  BY <1>1, NoViewRight
<1>4. \A d \in Calls : ~(calls[d] # Idle /\ calls[d].tab = t /\ calls[d].op \in SessionOps)
  BY <1>2, Parts DEF RightCall, PhaseOf
<1>5. PICK ds, np, nv : /\ ds = Released(calls, t, ViewOps, "aborted")
                       /\ np = [tab EXCEPT ![t] = p] /\ nv = [view EXCEPT ![t] = NoView]
  OBVIOUS
<1>6. Sound(ds, np, nv, shell)
  <2>1. ViewOps \subseteq ViewOps \cup SessionOps
    OBVIOUS
  <2> QED BY <1>2, <1>3, <1>4, <1>5, <2>1, Parts, Cleared
<1>7. ds[c] # Idle => ds[c].held = "aborted"
  <2>1. PICK r : r = calls[c]
    OBVIOUS
  <2>2. ds[c] = IF r.op \in Mutations THEN [r EXCEPT !.held = "aborted", !.body = NoList] ELSE Idle
    BY <1>1, <1>5, <2>1 DEF Released
  <2>3. IsCall(r)
    BY <2>1, Parts DEF RightCall
  <2> QED BY <2>2, <2>3 DEF IsCall
<1>8. \A u \in Tabs : \A op \in Waited(nv[u]) : nv[u].kind = "tokens" => ~Awaits(ds[c], u, op)
  BY <1>7 DEF Awaits
<1>9. Sound([ds EXCEPT ![c] = Idle], np, nv, shell)
  BY <1>6, <1>8, Ended
<1>10. Released(Free(c), t, ViewOps, "aborted") = [ds EXCEPT ![c] = Idle]
  BY <1>5, Parts DEF Released, Free
<1>11. tab' = np /\ view' = nv /\ calls' = [ds EXCEPT ![c] = Idle]
  BY <1>1, <1>5, <1>10 DEF Close
<1> QED BY <1>9, <1>11 DEF ConsoleInv

\* The answer to a view's request is delivered, or ends the session.
LEMMA DeliverKeeps ==
    ASSUME ConsoleInv, NEW c \in Calls, Deliver(c)
    PROVE  ConsoleInv'
<1>1. PICK r : r = calls[c]
  OBVIOUS
<1>2. r # Idle /\ r.op \in ViewOps /\ shell' = shell
  BY <1>1 DEF Deliver
<1>3. CASE r.held # "aborted" /\ r.status = "refused"
  BY <1>1, <1>2, <1>3, RefusedKeeps DEF Deliver
<1>4. CASE ~(r.held # "aborted" /\ r.status = "refused")
  <2>1. tab' = tab
    BY <1>1, <1>4 DEF Deliver
  <2>2. CASE r.held # "view"
    <3>1. calls' = [calls EXCEPT ![c] = Idle] /\ view' = view
      BY <1>1, <1>4, <2>2 DEF Deliver, Free
    <3>2. Sound(calls', tab, view, shell)
      BY <1>1, <2>2, <3>1, Parts, UnawaitedEnds
    <3> QED BY <1>2, <2>1, <3>1, <3>2 DEF ConsoleInv
  <2>3. CASE r.held = "view"
    <3>1. \/ r.op \in Mutations /\ AfterChange(c, r)
          \/ r.op = "list" /\ AfterList(c, r)
          \/ r.op \in {"sample", "page"} /\ AfterSample(c, r)
          \/ r.op \in ReadOps /\ AfterRead(c, r)
      BY <1>1, <1>4, <2>3 DEF Deliver
    <3> QED BY <1>1, <1>2, <2>1, <2>3, <3>1,
               AfterChangeKeeps, AfterListKeeps, AfterSampleKeeps, AfterReadKeeps
  <2> QED BY <2>2, <2>3
<1> QED BY <1>3, <1>4

-----------------------------------------------------------------------------
(* What the operator does                                                   *)

\* An open view is of its kind.
LEMMA OpenView ==
    ASSUME ConsoleInv, NEW t \in Tabs, NEW s, At(t, s)
    PROVE  /\ tab[t].phase = "open" /\ view[t].kind = s /\ RightView(view[t], tab[t])
           /\ s = "tokens" => IsTokens(view[t], tab[t].who)
           /\ s = "browser" => IsBrowser(view[t])
BY Parts, KindOfView DEF At

\* A view asks for something.
LEMMA ViewAsks ==
    ASSUME ConsoleInv, NEW t \in Tabs, NEW op \in ViewOps, NEW a, Start(Request(t, op, a)),
           RightView(view[t], tab[t]), view[t].kind \in KindsOf(op),
           op = "sample" => a.base = NoSample,
           op = "page" => RightSample(a.base) /\ a.base.cursor # Nobody,
           op = "edit" => "enabled" \notin DOMAIN a.set
    PROVE  Sound(calls', tab, view, shell) /\ \E c \in Calls : Awaits(calls'[c], t, op)
<1>1. PICK w : w = tab[t].who
  OBVIOUS
<1>2. PICK q : q = Asking(t, op, w, a)
  OBVIOUS
<1>3. Starts(calls, calls', q)
  BY <1>1, <1>2, StartsAsking DEF Start
<1>4. RightCall(q, tab[t], view[t], shell)
  BY <1>1, <1>2, Requested
<1>5. q.tab = t /\ q.op = op /\ q.held = "view" /\ q.op \notin SessionOps
  BY <1>2, SessionsApart DEF Asking
<1>6. Sound(calls', tab, view, shell) /\ \E c \in Calls : calls'[c] = q
  BY <1>3, <1>4, <1>5, Parts, Begun
<1>7. q # Idle
  BY <1>5 DEF Idle, ViewOps, Mutations, ReadOps
<1> QED BY <1>5, <1>6, <1>7 DEF Awaits

\* The list is asked for again.
LEMMA ReloadKeeps ==
    ASSUME ConsoleInv, NEW t \in Tabs, Reload(t)
    PROVE  ConsoleInv'
<1>1. PICK u, v : u = view[t] /\ v = [u EXCEPT !.error = FALSE]
  OBVIOUS
<1>2. u.kind = "tokens" /\ IsTokens(u, tab[t].who) /\ RightView(u, tab[t])
  BY <1>1, OpenView DEF Reload
<1>3. Sound(calls', tab, view, shell)
  BY <1>1, <1>2, ViewAsks DEF Reload, ViewOps, KindsOf
<1>4. IsTokens(v, tab[t].who) /\ Waited(v) = Waited(u)
  BY <1>1, <1>2 DEF IsTokens, TokensFields, Waited
<1>5. view' = [view EXCEPT ![t] = v]
  BY <1>1 DEF Reload
<1>6. Sound(calls', tab, view', shell)
  BY <1>1, <1>2, <1>3, <1>4, <1>5, TokensReplaced
<1> QED BY <1>6 DEF ConsoleInv, Reload, Quiet

\* A switch that turns waits for its request.
LEMMA ToggleKeeps ==
    ASSUME ConsoleInv, NEW t \in Tabs, NEW k, Toggle(t, k)
    PROVE  ConsoleInv'
<1>1. PICK u, v : u = view[t] /\ v = [u EXCEPT !.busy = k]
  OBVIOUS
<1>2. u.kind = "tokens" /\ IsTokens(u, tab[t].who) /\ RightView(u, tab[t])
  BY <1>1, OpenView DEF Toggle
<1>3. Sound(calls', tab, view, shell) /\ \E c \in Calls : Awaits(calls'[c], t, "toggle")
  BY <1>1, <1>2, ViewAsks DEF Toggle, ViewOps, KindsOf, Mutations
<1>4. IsTokens(v, tab[t].who) /\ \A op \in Waited(v) : op \in Waited(u) \/ op = "toggle"
  BY <1>1, <1>2 DEF IsTokens, TokensFields, Waited
<1>5. view' = [view EXCEPT ![t] = v]
  BY <1>1 DEF Toggle
<1>6. Sound(calls', tab, view', shell)
  <2>1. PICK cs : cs = calls'
    OBVIOUS
  <2>2. \A op \in Waited(v) : op \in Waited(view[t]) \/ \E c \in Calls : Awaits(cs[c], t, op)
    BY <1>1, <1>3, <1>4, <2>1
  <2>3. Sound(cs, tab, [view EXCEPT ![t] = v], shell)
    BY <1>1, <1>2, <1>3, <1>4, <2>1, <2>2, TokensReplaced
  <2> QED BY <1>5, <2>1, <2>3
<1> QED BY <1>6 DEF ConsoleInv, Toggle, Quiet

\* A dialog that is submitted waits for its request.
LEMMA SubmitKeeps ==
    ASSUME ConsoleInv, NEW t \in Tabs, Submit(t)
    PROVE  ConsoleInv'
<1>1. PICK u, v, op : u = view[t] /\ op = u.dialog.op /\ v = [u EXCEPT !.pending = @ \cup {op}]
  OBVIOUS
<1>2. u.kind = "tokens" /\ IsTokens(u, tab[t].who) /\ RightView(u, tab[t])
  BY <1>1, OpenView DEF Submit
<1>3. op \in Mutations
  BY <1>1, <1>2 DEF Submit, IsTokens, IsDialog, Mutations
<1>4. Sound(calls', tab, view, shell) /\ \E c \in Calls : Awaits(calls'[c], t, op)
  <2>1. PICK a : Start(Request(t, op, a)) /\ a = [key |-> u.dialog.key, set |-> Payload(u.dialog)]
    BY <1>1 DEF Submit
  <2>3. "enabled" \notin DOMAIN a.set
    BY <2>1 DEF Payload
  <2>2. op \in ViewOps /\ u.kind \in KindsOf(op) /\ op \notin {"sample", "page"}
    BY <1>2, <1>3 DEF ViewOps, KindsOf, Mutations
  <2> QED BY <1>1, <1>2, <2>1, <2>2, <2>3, ViewAsks
<1>5. IsTokens(v, tab[t].who) /\ \A x \in Waited(v) : x \in Waited(u) \/ x = op
  BY <1>1, <1>2, <1>3 DEF IsTokens, TokensFields, Waited
<1>6. view' = [view EXCEPT ![t] = v]
  BY <1>1 DEF Submit
<1>7. Sound(calls', tab, view', shell)
  <2>1. PICK cs : cs = calls'
    OBVIOUS
  <2>2. \A x \in Waited(v) : x \in Waited(view[t]) \/ \E c \in Calls : Awaits(cs[c], t, x)
    BY <1>1, <1>4, <1>5, <2>1
  <2>3. Sound(cs, tab, [view EXCEPT ![t] = v], shell)
    BY <1>1, <1>2, <1>4, <1>5, <2>1, <2>2, TokensReplaced
  <2> QED BY <1>6, <2>1, <2>3
<1> QED BY <1>7 DEF ConsoleInv, Submit, Quiet

\* A dialog opens, changes or closes.
LEMMA DialogKeeps ==
    ASSUME ConsoleInv, NEW t \in Tabs, At(t, "tokens"), NEW d, IsDialog(d), NEW x,
           view' = [view EXCEPT ![t].dialog = d, ![t].revealed = x], UNCHANGED calls, Quiet
    PROVE  ConsoleInv'
<1>1. PICK u, v : u = view[t] /\ v = [u EXCEPT !.dialog = d, !.revealed = x]
  OBVIOUS
<1>2. u.kind = "tokens" /\ IsTokens(u, tab[t].who)
  BY <1>1, OpenView
<1>3. IsTokens(v, tab[t].who) /\ Waited(v) = Waited(u)
  BY <1>1, <1>2 DEF IsTokens, TokensFields, Waited
<1>4. view' = [view EXCEPT ![t] = v]
  BY <1>1, Parts
<1>5. Sound(calls, tab, view', shell)
  <2>1. \A op \in Waited(v) : op \in Waited(view[t])
    BY <1>1, <1>3
  <2>2. Sound(calls, tab, [view EXCEPT ![t] = v], shell)
    BY <1>1, <1>2, <1>3, <2>1, Parts, TokensReplaced
  <2> QED BY <1>4, <2>2
<1> QED BY <1>5 DEF ConsoleInv, Quiet

\* Opening, changing and closing a dialog waits for nothing.
LEMMA DialogsKeep ==
    ASSUME ConsoleInv, NEW t \in Tabs,
           OpenCreate(t) \/ (\E k, op : OpenRow(t, op, k)) \/ ChangeForm(t) \/ CloseDialog(t)
    PROVE  ConsoleInv'
<1>1. At(t, "tokens") /\ UNCHANGED calls /\ Quiet
  BY DEF OpenCreate, OpenRow, ChangeForm, CloseDialog
<1>2. PICK u : u = view[t]
  OBVIOUS
<1>3. IsTokens(u, tab[t].who)
  BY <1>1, <1>2, OpenView
<1>4. \E d : IsDialog(d) /\ (\/ view' = [view EXCEPT ![t].dialog = d]
                            \/ view' = [view EXCEPT ![t].dialog = d, ![t].revealed = Nobody])
  <2>1. CASE OpenCreate(t)
    <3>1. IsDialog(NewForm)
      BY DEF IsDialog, NewForm
    <3> QED BY <2>1, <3>1 DEF OpenCreate
  <2>2. ASSUME NEW k, NEW op, OpenRow(t, op, k)
        PROVE  \E d : IsDialog(d) /\ view' = [view EXCEPT ![t].dialog = d]
    <3>1. CASE op = "delete"
      <4>1. PICK d : d = [NewForm EXCEPT !.op = op, !.key = k]
        OBVIOUS
      <4>2. IsDialog(d)
        BY <3>1, <4>1 DEF IsDialog, NewForm
      <4>3. view' = [view EXCEPT ![t].dialog = d]
        BY <2>2, <3>1, <4>1 DEF OpenRow
      <4> QED BY <4>2, <4>3
    <3>2. CASE op = "edit"
      <4>1. PICK d : d = [op |-> op, key |-> k, tier |-> view[t].list[k].tier,
                          limit |-> view[t].list[k].limit]
        OBVIOUS
      <4>2. IsDialog(d)
        BY <3>2, <4>1 DEF IsDialog
      <4>3. view' = [view EXCEPT ![t].dialog = d]
        BY <2>2, <3>2, <4>1 DEF OpenRow
      <4> QED BY <4>2, <4>3
    <3> QED BY <2>2, <3>1, <3>2 DEF OpenRow
  <2>3. CASE ChangeForm(t)
    <3>1. PICK d : d = [u.dialog EXCEPT !.limit = ~@]
      OBVIOUS
    <3>2. IsDialog(d)
      BY <1>2, <1>3, <2>3, <3>1 DEF ChangeForm, IsTokens, IsDialog, NoDialog
    <3>3. view' = [view EXCEPT ![t].dialog = d]
      BY <1>2, <1>3, <2>3, <3>1 DEF ChangeForm, IsTokens, TokensFields
    <3> QED BY <3>2, <3>3
  <2>4. CASE CloseDialog(t)
    <3>1. IsDialog(NoDialog)
      BY DEF IsDialog
    <3> QED BY <2>4, <3>1 DEF CloseDialog
  <2> QED BY <2>1, <2>2, <2>3, <2>4
<1>5. PICK d : IsDialog(d) /\ (\/ view' = [view EXCEPT ![t].dialog = d]
                              \/ view' = [view EXCEPT ![t].dialog = d, ![t].revealed = Nobody])
  BY <1>4
<1>6. CASE view' = [view EXCEPT ![t].dialog = d]
  <2>1. PICK x : x = u.revealed
    OBVIOUS
  <2>2. [u EXCEPT !.dialog = d] = [u EXCEPT !.dialog = d, !.revealed = x]
    BY <1>3, <2>1 DEF IsTokens, TokensFields
  <2>3. view' = [view EXCEPT ![t].dialog = d, ![t].revealed = x]
    BY <1>2, <1>6, <2>2, Parts
  <2> QED BY <1>1, <1>5, <2>3, DialogKeeps
<1>7. CASE view' = [view EXCEPT ![t].dialog = d, ![t].revealed = Nobody]
  BY <1>1, <1>5, <1>7, DialogKeeps
<1> QED BY <1>5, <1>6, <1>7

\* A sample begins an empty table; a further page continues the dataset of
\* the cursor.
LEMMA SamplingKeeps ==
    ASSUME ConsoleInv, NEW t \in Tabs, RunNextPage(t) \/ \E d : RunSample(t, d)
    PROVE  ConsoleInv'
<1>1. PICK u : u = view[t]
  OBVIOUS
<1>2. u.kind = "browser" /\ IsBrowser(u) /\ RightView(u, tab[t])
  BY <1>1, OpenView DEF RunNextPage, RunSample, MoreOffered, CatalogueListed
<1>3. Sound(calls', tab, view, shell)
  <2>1. CASE RunNextPage(t)
    <3>1. PICK a : a = [dataset |-> view[t].selected, base |-> view[t].sample]
      OBVIOUS
    <3>2. RightSample(a.base) /\ a.base.cursor # Nobody /\ Start(Request(t, "page", a))
      BY <1>1, <1>2, <2>1, <3>1 DEF RunNextPage, MoreOffered, IsBrowser
    <3> QED BY <1>1, <1>2, <3>2, ViewAsks DEF ViewOps, KindsOf, Mutations
  <2>2. ASSUME NEW d, RunSample(t, d) PROVE Sound(calls', tab, view, shell)
    <3>1. PICK a : a = [dataset |-> d, base |-> NoSample]
      OBVIOUS
    <3>2. a.base = NoSample /\ Start(Request(t, "sample", a))
      BY <2>2, <3>1 DEF RunSample
    <3> QED BY <1>1, <1>2, <3>2, ViewAsks DEF ViewOps, KindsOf, Mutations
  <2> QED BY <2>1, <2>2
<1>4. \E v : IsBrowser(v) /\ view' = [view EXCEPT ![t] = v]
  <2>1. CASE RunNextPage(t)
    <3>1. PICK v : v = [u EXCEPT !.sample.loading = TRUE]
      OBVIOUS
    <3>2. IsBrowser(v)
      BY <1>2, <3>1 DEF IsBrowser, RightSample
    <3>3. view' = [view EXCEPT ![t] = v]
      BY <1>1, <2>1, <3>1 DEF RunNextPage
    <3> QED BY <3>2, <3>3
  <2>2. ASSUME NEW d, RunSample(t, d) PROVE \E v : IsBrowser(v) /\ view' = [view EXCEPT ![t] = v]
    <3>1. PICK n : n = [NoSample EXCEPT !.loading = TRUE]
      OBVIOUS
    <3>2. RightSample(n)
      BY <3>1 DEF RightSample, NoSample
    <3>3. PICK v : v = [u EXCEPT !.selected = d, !.sample = n]
      OBVIOUS
    <3>4. IsBrowser(v)
      BY <1>2, <3>2, <3>3 DEF IsBrowser
    <3>5. view' = [view EXCEPT ![t] = v]
      BY <1>1, <1>2, <2>2, <3>1, <3>3, Parts DEF RunSample, IsBrowser
    <3> QED BY <3>4, <3>5
  <2> QED BY <2>1, <2>2
<1>5. Sound(calls', tab, view', shell)
  <2>1. PICK cs, v : cs = calls' /\ IsBrowser(v) /\ view' = [view EXCEPT ![t] = v]
    BY <1>4
  <2>2. v.kind = view[t].kind
    BY <1>1, <1>2, <2>1 DEF IsBrowser
  <2>3. Sound(cs, tab, [view EXCEPT ![t] = v], shell)
    BY <1>3, <2>1, <2>2, OtherReplaced
  <2> QED BY <2>1, <2>3
<1> QED BY <1>5 DEF ConsoleInv, RunNextPage, RunSample, Quiet

-----------------------------------------------------------------------------
(* The console                                                              *)

\* A console that was not opened is sound.
LEMMA ConsoleBegins == Init => ConsoleInv
<1> SUFFICES ASSUME Init PROVE ConsoleInv
  OBVIOUS
<1>1. /\ calls = [c \in Calls |-> calls[c]] /\ tab = [t \in Tabs |-> tab[t]]
      /\ view = [t \in Tabs |-> view[t]]
  BY DEF Init
<1>2. /\ \A c \in Calls : calls[c] = Idle
      /\ \A t \in Tabs : tab[t] = [phase |-> "left", who |-> Nobody] /\ view[t] = NoView
  BY DEF Init
<1>3. RightView(NoView, [phase |-> "left", who |-> Nobody]) /\ NoView.kind # "tokens"
  BY NoViewRight
<1>4. Answered(calls, view)
  BY <1>2, <1>3 DEF Answered
<1>5. \A c \in Calls : RightCall(calls[c], tab[calls[c].tab], view[calls[c].tab], shell)
  BY <1>2 DEF RightCall
<1>6. \A c, d \in Calls : Apart(calls[c], calls[d])
  BY <1>2 DEF Apart
<1>7. \A t \in Tabs : RightView(view[t], tab[t])
  BY <1>2, <1>3
<1> QED BY <1>1, <1>4, <1>5, <1>6, <1>7 DEF ConsoleInv, Sound, Consistent

\* Every step of the console keeps it sound.
LEMMA ConsoleKept == ASSUME ConsoleInv, [Next]_vars PROVE ConsoleInv'
<1>1. ASSUME NEW c \in Calls, Answering(c) PROVE ConsoleInv'
  BY <1>1, ServeKeeps, SessionServed, LoseKeeps DEF Answering
<1>2. ASSUME NEW c \in Calls, Delivering(c) PROVE ConsoleInv'
  BY <1>2, DeliverKeeps, DeliverCheckKeeps, DeliverSignOutKeeps, DeliverBootstrapKeeps DEF Delivering
<1>3. ASSUME NEW t \in Tabs, Operate(t) PROVE ConsoleInv'
  <2>1. CASE Reload(t)
    BY <2>1, ReloadKeeps
  <2>2. CASE OpenCreate(t) \/ ChangeForm(t) \/ CloseDialog(t)
    BY <2>2, DialogsKeep
  <2>3. CASE Submit(t)
    BY <2>3, SubmitKeeps
  <2>4. ASSUME NEW k \in Managed, Toggle(t, k) PROVE ConsoleInv'
    BY <2>4, ToggleKeeps
  <2>5. ASSUME NEW k \in Managed, OpenRow(t, "edit", k) \/ OpenRow(t, "delete", k) PROVE ConsoleInv'
    BY <2>5, DialogsKeep
  <2>6. CASE RunNextPage(t) \/ \E d \in Datasets : RunSample(t, d)
    BY <2>6, SamplingKeeps
  <2> QED BY <1>3, <2>1, <2>2, <2>3, <2>4, <2>5, <2>6 DEF Operate
<1>4. ASSUME NEW t \in Tabs, (\E s \in Sections : Navigate(t, s)) \/ Recheck(t) \/ AskSignOut(t)
                             \/ Load(t) \/ Logout(t) \/ \E k \in Keys : Login(t, k)
      PROVE  ConsoleInv'
  BY <1>4, NavigateKeeps, RecheckKeeps, AskSignOutKeeps, LoadKeeps, LogoutKeeps, LoginKeeps
<1>5. CASE \/ \E k \in Managed : ChangedElsewhere(k)
           \/ \E a \in Accounts : SignIn(a)
           \/ SignOutElsewhere \/ UNCHANGED vars
  <2>1. UNCHANGED <<calls, tab, view, shell>>
    BY <1>5 DEF ChangedElsewhere, SignIn, SignOutElsewhere, vars
  <2> QED BY <2>1 DEF ConsoleInv
<1> QED BY <1>1, <1>2, <1>3, <1>4, <1>5 DEF Next

\* Whatever account the browser is signed in to meanwhile, what the console
\* does and shows is done and shown as the account of its tab; and a table's
\* rows are those of one dataset.
LEMMA ConsoleShowsTruth == ConsoleInv => ConsoleIsTruthful
<1> SUFFICES ASSUME ConsoleInv PROVE ConsoleIsTruthful
  OBVIOUS
<1>1. ActsAsShown
  <2>1. ASSUME NEW t \in Tabs, At(t, "tokens"), view[t].loaded PROVE view[t].as = tab[t].who
    BY <2>1, OpenView DEF IsTokens
  <2>2. \A c \in Calls : (calls[c] # Idle /\ calls[c].op \in ViewOps /\ calls[c].status = "ok")
                         => calls[c].as = calls[c].who
    BY Parts DEF RightCall
  <2> QED BY <2>1, <2>2 DEF ActsAsShown
<1>2. ASSUME NEW t \in Tabs, At(t, "browser") PROVE Cardinality(view[t].sample.rows) <= 1
  <2>1. IsBrowser(view[t])
    BY <1>2, OpenView
  <2>2. PICK x : view[t].sample.rows \subseteq {x}
    BY <2>1 DEF IsBrowser, RightSample
  <2>3. IsFiniteSet({x}) /\ Cardinality({x}) = 1
    BY FS_Singleton
  <2> QED BY <2>2, <2>3, FS_Subset
<1> QED BY <1>1, <1>2 DEF ConsoleIsTruthful, SamplesAreNotMixed

\* What is waited for is on its way.
LEMMA ButtonsAnswered == ConsoleInv => ButtonsComeBack
<1> SUFFICES ASSUME ConsoleInv, NEW t \in Tabs, At(t, "tokens"), NEW op \in Waited(view[t])
             PROVE  \E c \in Calls :
                       /\ calls[c] # Idle /\ calls[c].tab = t /\ calls[c].held = "view"
                       /\ \/ calls[c].op = op
                          \/ calls[c].op = "list" /\ calls[c].arg.after = op
  BY Zenon DEF ButtonsComeBack, Waited
<1> QED BY DEF ConsoleInv, Sound, Answered, Awaits, At

\* The console's invariant, while it is the part that is run, or not.
LEMMA ConsoleHolds == EitherSpec => []ConsoleInv
<1>1. EitherInit => ConsoleInv
  BY ConsoleBegins DEF EitherInit
<1>2. ConsoleInv /\ [EitherNext]_<<part, vars, account>> => ConsoleInv'
  <2> SUFFICES ASSUME ConsoleInv, [EitherNext]_<<part, vars, account>> PROVE ConsoleInv'
    OBVIOUS
  <2>1. [Next]_vars
    BY DEF EitherNext
  <2> QED BY <2>1, ConsoleKept
<1> QED BY <1>1, <1>2, PTL DEF EitherSpec

\* Whatever account the browser has meanwhile been signed in to, a request is
\* carried out, and a list shown, only as the account its tab shows; and however
\* samples and further pages interleave, a table holds rows of one dataset
\* (AccountAdminRoot.tsx, api.ts, DataView.tsx).
THEOREM ConsoleTruthful == EitherSpec => []ConsoleIsTruthful
BY ConsoleHolds, ConsoleShowsTruth, PTL

\* No lost answer, timeout or failed read leaves a button saying that it saves,
\* creates or deletes, or a switch turning, for good: each waits for a request
\* in flight or for the read of the list after it (TokensView.tsx).
THEOREM ButtonsReturn == EitherSpec => []ButtonsComeBack
BY ConsoleHolds, ButtonsAnswered, PTL

-----------------------------------------------------------------------------
(* The account page                                                         *)

ViewFields == {"loading", "data", "usage", "keys", "keysLoading", "secret", "keyLoading"}

\* What is shown of an e-mail account is shown under that account, which is
\* the browser's unless the browser has left it since.
Own(id, who) == who \in Accounts => who = id

RightShown(v, now, gone) ==
    /\ v = [f \in ViewFields |-> v[f]]
    /\ Own(v.data.id, v.usage) /\ Own(v.data.id, v.secret)
    /\ \A k \in v.keys : Own(v.data.id, k)
    /\ v.data.id # Nobody => gone \/ v.data.id = now

\* A request that is out for the account id: what it brings back is of that
\* account, and it is signed out only after the browser left the account.
IsAsked(r, kinds, id, gone) ==
    /\ r = [f \in {"kind", "answer"} |-> r[f]] /\ r.kind \in kinds /\ id # Nobody
    /\ r.answer.kind = "served" => Own(id, r.answer.id)
    /\ r.answer.kind = "signed_out" => gone

\* The identity is read while none is shown.
IsIdentity(m, id, now, gone) ==
    /\ m = [f \in {"kind", "answer"} |-> m[f]] /\ m.kind = "identity" /\ id = Nobody
    /\ m.answer.kind = "account" => m.answer.id # Nobody /\ (gone \/ m.answer.id = now)

RightMe(m, id, now, gone) ==
    \/ m = Page!Idle \/ IsIdentity(m, id, now, gone) \/ IsAsked(m, {"usage"}, id, gone)

RightKeysRead(r, id, gone) == r = Page!Idle \/ IsAsked(r, {"keys"}, id, gone)

RightKey(k, id, gone) ==
    k = Page!Idle \/ k = [kind |-> "old"] \/ IsAsked(k, {"create", "disable"}, id, gone)

RightPage ==
    /\ RightShown(shown, jar, left)
    /\ RightMe(me, shown.data.id, jar, left)
    /\ RightKeysRead(keysRead, shown.data.id, left)
    /\ RightKey(key, shown.data.id, left)
    /\ signOut # Page!Idle => signOut.for # Nobody

\* A refresh that is owed waits for an operation.
RefreshOwed ==
    visible /\ stale /\ Page!Held =>
        deferred /\ (login # Page!Idle \/ signOut # Page!Idle \/ key # Page!Idle)

PageInv == RightPage /\ RefreshOwed

\* Nobody is no account.
LEMMA NobodyIsNoAccount == Nobody \notin Accounts /\ Nobody \notin Tenants /\ Accounts \cap Tenants = {}
BY InstanceAssumption DEF Page!PageAssumption

\* The page shows no account, and may read which one it is.
Empties(v, m, r) ==
    /\ v = Page!Blank \/ v = [Page!Blank EXCEPT !.loading = TRUE]
    /\ m = Page!Idle \/ m = Page!Ask("identity")
    /\ r = Page!Idle

\* Such a page is right, whoever the cookie proves.
LEMMA EmptyPage ==
    ASSUME NEW v, NEW m, NEW r, Empties(v, m, r), NEW now, NEW gone
    PROVE  /\ RightShown(v, now, gone) /\ v.data.id = Nobody
           /\ RightMe(m, v.data.id, now, gone) /\ RightKeysRead(r, v.data.id, gone)
           /\ m # Page!Idle => m.answer.kind # "account"
BY NobodyIsNoAccount
DEF Empties, Page!Blank, Page!NoAccount, Page!Idle, Page!Ask, Page!NotServed, RightShown, ViewFields,
    Own, RightMe, IsIdentity, RightKeysRead

\* A page that is emptied keeps no key operation but an old one.
LEMMA EmptiedKeeps ==
    ASSUME Empties(shown', me', keysRead'), key' \in {Page!Idle, [kind |-> "old"]},
           signOut' # Page!Idle => signOut'.for # Nobody, Page!Recorded
    PROVE  PageInv'
<1>1. /\ RightShown(shown', jar', left') /\ shown'.data.id = Nobody
      /\ RightMe(me', shown'.data.id, jar', left') /\ RightKeysRead(keysRead', shown'.data.id, left')
      /\ me' # Page!Idle => me'.answer.kind # "account"
  BY EmptyPage
<1>2. RightKey(key', shown'.data.id, left')
  BY DEF RightKey
<1>3. ~stale'
  BY <1>1 DEF Page!Recorded, Page!Held
<1> QED BY <1>1, <1>2, <1>3 DEF PageInv, RightPage, RefreshOwed

\* What is old is old.
LEMMA OldIsOld ==
    ASSUME NEW op PROVE Page!Old(op) \in {Page!Idle, [kind |-> "old"]} /\ (Page!Old(op) = Page!Idle <=> op = Page!Idle)
BY DEF Page!Old, Page!Idle

\* A page that is opened shows nothing and reads the identity.
LEMMA PageBegins == Page!Init => PageInv
<1> SUFFICES ASSUME Page!Init PROVE PageInv
  OBVIOUS
<1>1. Empties(shown, me, keysRead)
  BY DEF Page!Init, Empties
<1>2. /\ RightShown(shown, jar, left) /\ shown.data.id = Nobody
      /\ RightMe(me, shown.data.id, jar, left) /\ RightKeysRead(keysRead, shown.data.id, left)
  BY <1>1, EmptyPage
<1> QED BY <1>2 DEF Page!Init, PageInv, RightPage, RefreshOwed, RightKey

\* The page was read again, or cleared.
LEMMA RereadEmpties ==
    /\ Page!Reread => Empties(shown', me', keysRead')
    /\ Page!ClearView => Empties(shown', me', keysRead')
    /\ Page!Refresh => Empties(shown', me', keysRead')
    /\ Page!Renew => Empties(shown', me', keysRead') /\ key' = Page!Old(key)
BY DEF Page!Reread, Page!ClearView, Page!Refresh, Page!Renew, Empties

\* While nothing is emptied and the account shown stays, what the browser does
\* is recorded.
LEMMA LeftRecorded ==
    ASSUME PageInv, Page!Recorded, shown.data.id # Nobody, shown'.data.id = shown.data.id
    PROVE  left' <=> (left \/ jar' # jar)
BY DEF Page!Recorded, Page!Held

\* What the page holds of the account shown stays right when the browser
\* leaves it.
LEMMA Standing ==
    ASSUME PageInv, Page!Recorded, NEW id, id = shown.data.id, shown'.data.id = id
    PROVE  /\ RightShown(shown, jar', left')
           /\ \A r, kinds : IsAsked(r, kinds, id, left) => IsAsked(r, kinds, id, left')
           /\ RightKeysRead(keysRead, id, left') /\ RightKey(key, id, left')
           /\ me' = me => RightMe(me, id, jar', left')
<1>1. id # Nobody => (left' <=> (left \/ jar' # jar))
  BY LeftRecorded
<1>2. \A r, kinds : IsAsked(r, kinds, id, left) => IsAsked(r, kinds, id, left')
  BY <1>1 DEF IsAsked
<1>3. RightShown(shown, jar', left')
  BY <1>1 DEF PageInv, RightPage, RightShown
<1>4. RightKeysRead(keysRead, id, left') /\ RightKey(key, id, left')
  BY <1>2 DEF PageInv, RightPage, RightKeysRead, RightKey
<1>5. ASSUME me' = me, IsIdentity(me, id, jar, left) PROVE IsIdentity(me, id, jar', left')
  <2>1. CASE me.answer.kind = "account"
    <3>1. me # Page!Idle
      BY <1>5 DEF IsIdentity, Page!Idle
    <3>2. Page!Held /\ Page!Held'
      BY <1>5, <2>1, <3>1 DEF Page!Held
    <3>3. left' <=> (left \/ jar' # jar)
      BY <3>2 DEF Page!Recorded
    <3> QED BY <1>5, <3>3 DEF IsIdentity
  <2> QED BY <1>5, <2>1 DEF IsIdentity
<1> QED BY <1>2, <1>3, <1>4, <1>5 DEF PageInv, RightPage, RightMe

Busy == login # Page!Idle \/ signOut # Page!Idle \/ key # Page!Idle

\* A refresh that is owed stays so while an operation goes on.
LEMMA OwedStays ==
    ASSUME PageInv, Page!Recorded, visible' = visible, deferred' = deferred,
           (visible /\ deferred /\ Busy) => Busy'
    PROVE  RefreshOwed'
BY DEF PageInv, RefreshOwed, Busy, Page!Recorded

\* A step that keeps the account shown keeps the page right if what it sets
\* is right.
LEMMA PageSteps ==
    ASSUME PageInv, Page!Recorded, NEW id, id = shown.data.id, shown'.data.id = id,
           shown' = shown \/ RightShown(shown', jar', left'),
           me' = me \/ RightMe(me', id, jar', left'),
           keysRead' = keysRead \/ RightKeysRead(keysRead', id, left'),
           key' = key \/ RightKey(key', id, left'),
           signOut' # Page!Idle => signOut'.for # Nobody,
           RefreshOwed'
    PROVE  PageInv'
<1>1. /\ RightShown(shown, jar', left')
      /\ RightKeysRead(keysRead, id, left') /\ RightKey(key, id, left')
      /\ me' = me => RightMe(me, id, jar', left')
  BY Standing
<1>2. RightShown(shown', jar', left') /\ RightMe(me', id, jar', left')
  BY <1>1
<1>3. RightKeysRead(keysRead', id, left') /\ RightKey(key', id, left')
  BY <1>1
<1> QED BY <1>2, <1>3 DEF PageInv, RightPage

\* The identity was read: its account is shown, and what it has is asked for.
LEMMA ReadIdentityKeeps ==
    ASSUME PageInv, Page!Recorded, Page!ReadIdentityEnds
    PROVE  PageInv'
<1>1. /\ UNCHANGED <<jar, visible, deferred, login, signOut, key>> /\ me.kind = "identity"
      /\ signOut # Page!Idle => signOut.for # Nobody
  BY DEF Page!ReadIdentityEnds, Page!operations, PageInv, RightPage
<1>2. me # Page!Idle /\ IsIdentity(me, shown.data.id, jar, left) /\ shown.data.id = Nobody
  BY <1>1 DEF PageInv, RightPage, RightMe, Page!Idle, IsAsked, IsIdentity
<1>3. key \in {Page!Idle, [kind |-> "old"]}
  BY <1>2 DEF PageInv, RightPage, RightKey, IsAsked
<1>4. CASE Page!ClearView
  BY <1>1, <1>3, <1>4, RereadEmpties, EmptiedKeeps
<1>5. ASSUME NEW a, a = me.answer, a.kind = "account",
             Page!ShowAccount([id |-> a.id, connected |-> a.connected])
      PROVE  PageInv'
  <2>1. a.id # Nobody /\ (left \/ a.id = jar)
    BY <1>2, <1>5 DEF IsIdentity
  <2>2. PICK who : who = a.id
    OBVIOUS
  <2>3. /\ shown' = [shown EXCEPT !.data = [id |-> who, connected |-> a.connected],
                         !.loading = FALSE, !.keys = {},
                         !.keysLoading = Page!HasData([id |-> who, connected |-> a.connected])]
        /\ me' \in {Page!Ask("usage"), Page!Idle} /\ keysRead' \in {Page!Ask("keys"), Page!Idle}
    BY <1>5, <2>2 DEF Page!ShowAccount
  <2>4. shown = [f \in ViewFields |-> shown[f]] /\ shown.usage \notin Accounts /\ shown.secret \notin Accounts
    BY <1>2, NobodyIsNoAccount DEF PageInv, RightPage, RightShown, Own
  <2>5. shown'.data.id = who
    BY <2>3, <2>4 DEF ViewFields
  <2>6. Page!Held /\ Page!Held'
    BY <1>2, <1>5, <2>1, <2>2, <2>5 DEF Page!Held
  <2>7. left' <=> left
    BY <1>1, <2>6 DEF Page!Recorded
  <2>8. RightShown(shown', jar', left')
    BY <1>1, <2>1, <2>2, <2>3, <2>4, <2>5, <2>7 DEF RightShown, Own, ViewFields
  <2>9. RightMe(me', who, jar', left') /\ RightKeysRead(keysRead', who, left')
    BY <2>1, <2>2, <2>3 DEF RightMe, RightKeysRead, IsAsked, Page!Ask, Page!NotServed
  <2>10. RightKey(key', who, left')
    BY <1>1, <1>3 DEF RightKey
  <2>11. RefreshOwed'
    BY <1>1, OwedStays DEF Busy
  <2> QED BY <1>1, <2>5, <2>8, <2>9, <2>10, <2>11 DEF PageInv, RightPage
<1> QED BY <1>4, <1>5 DEF Page!ReadIdentityEnds, Page!Answers, Page!Says

\* The usage and the keys are read of the account shown.
LEMMA ReadUsageKeeps ==
    ASSUME PageInv, Page!Recorded, Page!ReadUsageEnds
    PROVE  PageInv'
<1>1. /\ UNCHANGED <<jar, visible, login, signOut>> /\ me.kind = "usage"
      /\ signOut # Page!Idle => signOut.for # Nobody
  BY DEF Page!ReadUsageEnds, PageInv, RightPage
<1>2. IsAsked(me, {"usage"}, shown.data.id, left)
  BY <1>1 DEF PageInv, RightPage, RightMe, Page!Idle, IsIdentity
<1>3. CASE (Page!ClearView /\ key' = Page!Old(key)) \/ Page!Renew
  BY <1>1, <1>3, RereadEmpties, EmptiedKeeps, OldIsOld
<1>4. ASSUME NEW a \in Page!Answers(me), a.kind \in {"served", "unavailable"},
             shown' = [shown EXCEPT !.usage = IF a.kind = "served" THEN a.id ELSE Nobody],
             me' = Page!Idle, UNCHANGED <<error, deferred, keysRead, key>>
      PROVE  PageInv'
  <2>1. PICK id, u : id = shown.data.id /\ u = IF a.kind = "served" THEN a.id ELSE Nobody
    OBVIOUS
  <2>2. Own(id, u)
    BY <1>2, <1>4, <2>1, NobodyIsNoAccount DEF Page!Answers, Page!Says, IsAsked, Own
  <2>3. RightShown(shown, jar', left') \/ shown'.data.id # id
    BY <2>1, Standing
  <2>4. shown' = [shown EXCEPT !.usage = u] /\ shown = [f \in ViewFields |-> shown[f]]
    BY <1>4, <2>1 DEF PageInv, RightPage, RightShown
  <2>5. shown'.data.id = id
    BY <2>1, <2>4 DEF ViewFields
  <2>6. RightShown(shown', jar', left')
    BY <2>1, <2>2, <2>3, <2>4, <2>5 DEF RightShown, ViewFields
  <2>7. RefreshOwed'
    BY <1>1, <1>4, OwedStays DEF Busy
  <2>8. RightMe(me', id, jar', left')
    BY <1>4 DEF RightMe
  <2> QED BY <1>1, <1>4, <2>1, <2>5, <2>6, <2>7, <2>8, PageSteps
<1> QED BY <1>3, <1>4 DEF Page!ReadUsageEnds

\* So are the keys.
LEMMA ReadKeysKeeps ==
    ASSUME PageInv, Page!Recorded, Page!ReadKeysEnds
    PROVE  PageInv'
<1>1. /\ UNCHANGED <<jar, visible, login, signOut>> /\ keysRead.kind = "keys"
      /\ signOut # Page!Idle => signOut.for # Nobody
  BY DEF Page!ReadKeysEnds, PageInv, RightPage
<1>2. IsAsked(keysRead, {"keys"}, shown.data.id, left)
  BY <1>1 DEF PageInv, RightPage, RightKeysRead, Page!Idle
<1>3. CASE (Page!ClearView /\ key' = Page!Old(key)) \/ Page!Renew
  BY <1>1, <1>3, RereadEmpties, EmptiedKeeps, OldIsOld
<1>4. ASSUME NEW a \in Page!Answers(keysRead), a.kind \in {"served", "unavailable"},
             shown' = [shown EXCEPT !.keysLoading = FALSE,
                                    !.keys = IF a.kind = "served" THEN {a.id} ELSE @],
             keysRead' = Page!Idle, UNCHANGED <<error, deferred, me, key>>
      PROVE  PageInv'
  <2>1. PICK id, ks : id = shown.data.id /\ ks = IF a.kind = "served" THEN {a.id} ELSE shown.keys
    OBVIOUS
  <2>2. \A k \in ks : Own(id, k)
    BY <1>2, <1>4, <2>1 DEF Page!Answers, Page!Says, IsAsked, Own, PageInv, RightPage, RightShown
  <2>3. RightShown(shown, jar', left') \/ shown'.data.id # id
    BY <2>1, Standing
  <2>4. shown = [f \in ViewFields |-> shown[f]]
    BY DEF PageInv, RightPage, RightShown
  <2>5. shown' = [shown EXCEPT !.keysLoading = FALSE, !.keys = ks]
    BY <1>4, <2>1, <2>4 DEF ViewFields
  <2>6. shown'.data.id = id
    BY <2>1, <2>4, <2>5 DEF ViewFields
  <2>7. RightShown(shown', jar', left')
    BY <2>1, <2>2, <2>3, <2>4, <2>5, <2>6 DEF RightShown, ViewFields
  <2>8. RefreshOwed'
    BY <1>1, <1>4, OwedStays DEF Busy
  <2>9. RightKeysRead(keysRead', id, left')
    BY <1>4 DEF RightKeysRead
  <2> QED BY <1>1, <1>4, <2>1, <2>6, <2>7, <2>8, <2>9, PageSteps
<1> QED BY <1>3, <1>4 DEF Page!ReadKeysEnds

\* The service answers for whoever the cookie proves: a request of an e-mail
\* account that expects another is told so.
LEMMA AnswersFit ==
    ASSUME PageInv, Page!Recorded, NEW r, NEW kinds, NEW id, id = shown.data.id,
           shown' = shown, jar' = jar,
           IsAsked(r, kinds, id, left), NEW a \in Page!PortalAnswers(id)
    PROVE  IsAsked([r EXCEPT !.answer = a], kinds, id, left')
<1>1. left' <=> left
  BY LeftRecorded DEF IsAsked
<1>2. a.kind = "served" => Own(id, a.id)
  BY NobodyIsNoAccount DEF Page!PortalAnswers, Page!Says, Own, Page!Idle
<1>3. a.kind = "signed_out" => left
  BY DEF Page!PortalAnswers, Page!Says, IsAsked, PageInv, RightPage, RightShown
<1> QED BY <1>1, <1>2, <1>3 DEF IsAsked

\* Whatever the service answers, and whoever signs in elsewhere, what is out
\* stays of the account shown.
LEMMA ServiceKeeps ==
    ASSUME PageInv, Page!Recorded, Page!Service
    PROVE  PageInv'
<1>1. /\ UNCHANGED <<visible, shown, error, deferred, login, signOut>>
      /\ signOut # Page!Idle => signOut.for # Nobody
      /\ (key # Page!Idle) => (key' # Page!Idle)
  BY DEF Page!Service, Page!ServeIdentity, Page!ServeUsage, Page!ServeKeys, Page!ServeKeyOperation,
         Page!OtherTab, Page!page, Page!operations, Page!reads, PageInv, RightPage, Page!Idle,
         RightKey, IsAsked
<1>2. RefreshOwed'
  BY <1>1, OwedStays DEF Busy
<1>3. PICK id : id = shown.data.id
  OBVIOUS
<1>4. CASE Page!ServeIdentity
  <2>1. UNCHANGED <<jar, keysRead, key>> /\ me.kind = "identity" /\ me.answer = Page!NotServed
    BY <1>4 DEF Page!ServeIdentity, Page!operations
  <2>2. IsIdentity(me, id, jar, left)
    BY <1>3, <2>1 DEF PageInv, RightPage, RightMe, Page!Idle, IsAsked
  <2>3. PICK connected, a :
           /\ me' = [me EXCEPT !.answer = a]
           /\ a = IF jar = Nobody THEN Page!Says("signed_out")
                  ELSE [kind |-> "account", id |-> jar, connected |-> connected]
    BY <1>4, Zenon DEF Page!ServeIdentity
  <2>4. IsIdentity(me', id, jar', left')
    <3>1. a.kind = "account" => a.id = jar /\ jar # Nobody
      BY <2>3 DEF Page!Says
    <3> QED BY <2>1, <2>2, <2>3, <3>1 DEF IsIdentity
  <2> QED BY <1>1, <1>2, <1>3, <2>1, <2>4, PageSteps DEF RightMe
<1>5. CASE Page!ServeUsage
  <2>1. UNCHANGED <<jar, keysRead, key>> /\ me.kind = "usage"
    BY <1>5 DEF Page!ServeUsage, Page!operations
  <2>2. IsAsked(me, {"usage"}, id, left)
    BY <1>3, <2>1 DEF PageInv, RightPage, RightMe, Page!Idle, IsIdentity
  <2>3. PICK a \in Page!PortalAnswers(id) : me' = [me EXCEPT !.answer = a]
    BY <1>3, <1>5 DEF Page!ServeUsage
  <2>4. IsAsked(me', {"usage"}, id, left')
    BY <1>1, <1>3, <2>1, <2>2, <2>3, AnswersFit
  <2> QED BY <1>1, <1>2, <1>3, <2>1, <2>4, PageSteps DEF RightMe
<1>6. CASE Page!ServeKeys
  <2>1. UNCHANGED <<jar, me, key>> /\ keysRead.kind = "keys"
    BY <1>6 DEF Page!ServeKeys, Page!operations
  <2>2. IsAsked(keysRead, {"keys"}, id, left)
    BY <1>3, <2>1 DEF PageInv, RightPage, RightKeysRead, Page!Idle
  <2>3. PICK a \in Page!PortalAnswers(id) : keysRead' = [keysRead EXCEPT !.answer = a]
    BY <1>3, <1>6 DEF Page!ServeKeys
  <2>4. IsAsked(keysRead', {"keys"}, id, left')
    BY <1>1, <1>3, <2>1, <2>2, <2>3, AnswersFit
  <2> QED BY <1>1, <1>2, <1>3, <2>1, <2>4, PageSteps DEF RightKeysRead
<1>7. CASE Page!ServeKeyOperation
  <2>1. UNCHANGED <<jar, me, keysRead>> /\ key.kind \in {"create", "disable"}
    BY <1>7 DEF Page!ServeKeyOperation, Page!reads
  <2>2. IsAsked(key, {"create", "disable"}, id, left)
    BY <1>3, <2>1 DEF PageInv, RightPage, RightKey, Page!Idle
  <2>3. PICK a \in Page!PortalAnswers(id) : key' = [key EXCEPT !.answer = a]
    BY <1>3, <1>7 DEF Page!ServeKeyOperation
  <2>4. IsAsked(key', {"create", "disable"}, id, left')
    BY <1>1, <1>3, <2>1, <2>2, <2>3, AnswersFit
  <2> QED BY <1>1, <1>2, <1>3, <2>1, <2>4, PageSteps DEF RightKey
<1>8. CASE \E x \in Page!Identities \cup {Nobody} : Page!OtherTab(x)
  <2>1. UNCHANGED <<me, keysRead, key>>
    BY <1>8 DEF Page!OtherTab, Page!reads, Page!operations
  <2> QED BY <1>1, <1>2, <1>3, <2>1, PageSteps
<1> QED BY <1>4, <1>5, <1>6, <1>7, <1>8 DEF Page!Service

\* Sign-in, and what follows a change of the connection: the page is read
\* again, or stays as it is.
LEMMA SignInKeeps ==
    ASSUME PageInv, Page!Recorded,
           Page!LoginEnds \/ Page!BeginConnection \/ \E kind, id : Page!BeginSignIn(kind, id)
    PROVE  PageInv'
<1>1. UNCHANGED <<visible, signOut>> /\ (signOut # Page!Idle => signOut.for # Nobody)
  BY DEF Page!LoginEnds, Page!SignedIn, Page!SignInFails, Page!ConnectionEnds, Page!BeginConnection,
         Page!BeginSignIn, PageInv, RightPage
<1>2. PICK id : id = shown.data.id
  OBVIOUS
<1>3. CASE Page!Renew
  BY <1>1, <1>3, RereadEmpties, EmptiedKeeps, OldIsOld
<1>4. ASSUME UNCHANGED <<me, keysRead, key, deferred>>, ~Page!Due({signOut, key}),
             shown' = shown \/ shown' = [shown EXCEPT !.loading = FALSE]
      PROVE  PageInv'
  <2>1. shown'.data.id = id
    BY <1>2, <1>4 DEF PageInv, RightPage, RightShown, ViewFields
  <2>2. RightShown(shown, jar', left')
    BY <1>2, <2>1, Standing
  <2>3. RightShown(shown', jar', left')
    BY <1>4, <2>2 DEF RightShown, ViewFields
  <2>4. visible /\ deferred => signOut # Page!Idle \/ key # Page!Idle
    BY <1>4 DEF Page!Due
  <2>5. RefreshOwed'
    BY <1>1, <1>4, <2>4, OwedStays DEF Busy
  <2> QED BY <1>1, <1>2, <1>4, <2>1, <2>3, <2>5, PageSteps
<1>5. CASE Page!BeginConnection
  <2>1. /\ UNCHANGED <<shown, me, keysRead, key, deferred>> /\ login' # Page!Idle
    BY <1>5 DEF Page!BeginConnection, Page!page, Page!reads, Page!Idle
  <2>2. RefreshOwed'
    BY <1>1, <2>1, OwedStays DEF Busy
  <2> QED BY <1>1, <1>2, <2>1, <2>2, PageSteps
<1>6. ASSUME NEW kind, NEW who, Page!BeginSignIn(kind, who) PROVE PageInv'
  <2>1. /\ shown' = [shown EXCEPT !.loading = TRUE] /\ me' = Page!Idle /\ keysRead' = Page!Idle
        /\ key' = Page!Old(key) /\ deferred' = deferred /\ login' # Page!Idle
    BY <1>6 DEF Page!BeginSignIn, Page!Idle
  <2>2. shown'.data.id = id
    BY <1>2, <2>1 DEF PageInv, RightPage, RightShown, ViewFields
  <2>3. RightShown(shown, jar', left')
    BY <1>2, <2>2, Standing
  <2>4. RightShown(shown', jar', left')
    BY <2>1, <2>3 DEF RightShown, ViewFields
  <2>5. RightMe(me', id, jar', left') /\ RightKeysRead(keysRead', id, left') /\ RightKey(key', id, left')
    BY <2>1, OldIsOld DEF RightMe, RightKeysRead, RightKey
  <2>6. RefreshOwed'
    BY <1>1, <2>1, OwedStays DEF Busy
  <2> QED BY <1>1, <1>2, <2>2, <2>4, <2>5, <2>6, PageSteps
<1>7. CASE Page!SignedIn
  BY <1>3, <1>7 DEF Page!SignedIn
<1>8. CASE Page!SignInFails
  BY <1>3, <1>4, <1>8 DEF Page!SignInFails, Page!reads
<1>9. CASE Page!ConnectionEnds
  BY <1>3, <1>4, <1>9 DEF Page!ConnectionEnds, Page!Settle, Page!reads
<1> QED BY <1>5, <1>6, <1>7, <1>8, <1>9 DEF Page!LoginEnds

\* Sign-out and deletion name the account shown; a refused one leaves the page.
LEMMA ExitKeeps ==
    ASSUME PageInv, Page!Recorded, Page!ExitEnds \/ Page!BeginSignOut \/ Page!BeginDeletion
    PROVE  PageInv'
<1>1. PICK id : id = shown.data.id
  OBVIOUS
<1>2. visible' = visible
  BY DEF Page!ExitEnds, Page!SignOutEnds, Page!DeletionEnds, Page!BeginSignOut, Page!BeginDeletion
<1>3. CASE Page!BeginSignOut \/ Page!BeginDeletion
  <2>1. id # Nobody /\ signOut' # Page!Idle /\ signOut'.for = id
    BY <1>1, <1>3 DEF Page!BeginSignOut, Page!BeginDeletion, Page!Authenticated, Page!ViewState,
                      Page!DeletionOffered, Page!Panel, Page!Idle
  <2>2. UNCHANGED <<shown, deferred>>
    BY <1>3 DEF Page!BeginSignOut, Page!BeginDeletion, Page!page
  <2>3. \/ UNCHANGED <<me, keysRead, key>>
        \/ me' = Page!Idle /\ keysRead' = Page!Idle /\ key' = Page!Old(key)
    BY <1>3 DEF Page!BeginSignOut, Page!BeginDeletion, Page!reads
  <2>4. RefreshOwed'
    BY <1>2, <2>1, <2>2, OwedStays DEF Busy
  <2>5. CASE UNCHANGED <<me, keysRead, key>>
    BY <1>1, <2>1, <2>2, <2>4, <2>5, PageSteps
  <2>6. CASE me' = Page!Idle /\ keysRead' = Page!Idle /\ key' = Page!Old(key)
    <3>1. RightMe(me', id, jar', left') /\ RightKeysRead(keysRead', id, left') /\ RightKey(key', id, left')
      BY <2>6, OldIsOld DEF RightMe, RightKeysRead, RightKey
    <3> QED BY <1>1, <2>1, <2>2, <2>4, <3>1, PageSteps
  <2> QED BY <2>3, <2>5, <2>6
<1>4. CASE Page!ExitEnds
  <2>1. signOut' = Page!Idle /\ login' = login
    BY <1>4 DEF Page!ExitEnds, Page!SignOutEnds, Page!DeletionEnds
  <2>2. CASE (Page!ClearView /\ key' = Page!Old(key)) \/ Page!Renew
    BY <2>1, <2>2, RereadEmpties, EmptiedKeeps, OldIsOld
  <2>3. CASE UNCHANGED <<shown, me, keysRead, key, deferred>> /\ ~Page!Due({login, key})
    <3>1. visible /\ deferred => login # Page!Idle \/ key # Page!Idle
      BY <2>3 DEF Page!Due
    <3>2. RefreshOwed'
      BY <1>2, <2>1, <2>3, <3>1, OwedStays DEF Busy
    <3> QED BY <1>1, <2>1, <2>3, <3>2, PageSteps
  <2> QED BY <1>4, <2>2, <2>3
          DEF Page!ExitEnds, Page!SignOutEnds, Page!DeletionEnds, Page!Settle, Page!reads
<1> QED BY <1>3, <1>4

\* What a key operation shows is of the account it was asked for.
LEMMA KeysKeep ==
    ASSUME PageInv, Page!Recorded, Page!KeyEnds \/ \E kind \in {"create", "disable"} : Page!BeginKeyOperation(kind)
    PROVE  PageInv'
<1>1. /\ UNCHANGED <<jar, visible, login, signOut>> /\ (signOut # Page!Idle => signOut.for # Nobody)
  BY DEF Page!KeyEnds, Page!KeyOperationEnds, Page!OldKeyOperationEnds, Page!BeginKeyOperation,
         PageInv, RightPage
<1>2. PICK id : id = shown.data.id
  OBVIOUS
<1>3. shown = [f \in ViewFields |-> shown[f]] /\ RightShown(shown, jar, left)
  BY DEF PageInv, RightPage, RightShown
<1>4. ASSUME NEW kind \in {"create", "disable"}, Page!BeginKeyOperation(kind) PROVE PageInv'
  <2>1. PICK s : s = IF kind = "create" THEN Nobody ELSE shown.secret
    OBVIOUS
  <2>2. shown' = [shown EXCEPT !.keyLoading = TRUE, !.secret = s]
    BY <1>3, <1>4, <2>1 DEF Page!BeginKeyOperation, ViewFields
  <2>3. id # Nobody /\ key' = Page!Ask(kind) /\ UNCHANGED <<deferred, me, keysRead>>
    BY <1>2, <1>4 DEF Page!BeginKeyOperation, Page!Panel, Page!reads
  <2>4. shown'.data.id = id
    BY <1>2, <1>3, <2>2 DEF ViewFields
  <2>5. RightShown(shown, jar', left') /\ Own(id, s)
    BY <1>2, <2>1, <2>4, Standing, NobodyIsNoAccount DEF Own, RightShown
  <2>6. RightShown(shown', jar', left')
    BY <1>2, <1>3, <2>2, <2>4, <2>5 DEF RightShown, ViewFields
  <2>7. RightKey(key', id, left') /\ key' # Page!Idle
    BY <2>3 DEF RightKey, IsAsked, Page!Ask, Page!NotServed, Page!Idle
  <2>8. RefreshOwed'
    BY <1>1, <2>3, <2>7, OwedStays DEF Busy
  <2> QED BY <1>1, <1>2, <2>3, <2>4, <2>6, <2>7, <2>8, PageSteps
<1>5. CASE key' = Page!Idle /\ (Page!Refresh \/ Page!ClearView)
  BY <1>1, <1>5, RereadEmpties, EmptiedKeeps
<1>6. CASE /\ key' = Page!Idle /\ ~Page!Due({login, signOut})
           /\ UNCHANGED <<shown, deferred, me, keysRead>>
  <2>1. visible /\ deferred => login # Page!Idle \/ signOut # Page!Idle
    BY <1>6 DEF Page!Due
  <2>2. RefreshOwed'
    BY <1>1, <1>6, <2>1, OwedStays DEF Busy
  <2>3. RightKey(key', id, left')
    BY <1>6 DEF RightKey
  <2> QED BY <1>1, <1>2, <1>6, <2>2, <2>3, PageSteps
<1>7. CASE Page!OldKeyOperationEnds
  BY <1>5, <1>6, <1>7 DEF Page!OldKeyOperationEnds, Page!reads
<1>8. ASSUME key.kind \in {"create", "disable"}, NEW a \in Page!Answers(key),
             a.kind \in {"served", "unavailable"},
             key' = Page!Idle, ~Page!Due({login, signOut}), Page!KeyOperationShown(a),
             UNCHANGED <<deferred, me, keysRead>>
      PROVE  PageInv'
  <2>1. IsAsked(key, {"create", "disable"}, id, left)
    BY <1>2, <1>8 DEF PageInv, RightPage, RightKey, Page!Idle
  <2>2. a.kind = "served" => Own(id, a.id)
    BY <1>8, <2>1 DEF IsAsked, Page!Answers, Page!Says
  <2>3. PICK ks, s :
           /\ ks = IF key.kind = "create" /\ a.kind = "served" THEN shown.keys \cup {a.id} ELSE shown.keys
           /\ s = IF key.kind = "create" /\ a.kind = "served" THEN a.id ELSE shown.secret
    OBVIOUS
  <2>4. shown' = [shown EXCEPT !.keyLoading = FALSE, !.keys = ks, !.secret = s]
    BY <1>3, <1>8, <2>3 DEF Page!KeyOperationShown, ViewFields
  <2>5. shown'.data.id = id
    BY <1>2, <1>3, <2>4 DEF ViewFields
  <2>6. RightShown(shown, jar', left')
    BY <1>2, <2>5, Standing
  <2>7. Own(id, s) /\ \A k \in ks : Own(id, k)
    BY <1>2, <2>2, <2>3, <2>6 DEF RightShown
  <2>8. RightShown(shown', jar', left')
    BY <1>2, <1>3, <2>4, <2>5, <2>6, <2>7 DEF RightShown, ViewFields
  <2>9. visible /\ deferred => login # Page!Idle \/ signOut # Page!Idle
    BY <1>8 DEF Page!Due
  <2>10. RefreshOwed'
    BY <1>1, <1>8, <2>9, OwedStays DEF Busy
  <2>11. RightKey(key', id, left')
    BY <1>8 DEF RightKey
  <2> QED BY <1>1, <1>2, <1>8, <2>5, <2>8, <2>10, <2>11, PageSteps
<1>9. CASE Page!KeyOperationEnds
  BY <1>5, <1>8, <1>9 DEF Page!KeyOperationEnds, Page!reads
<1> QED BY <1>4, <1>7, <1>9 DEF Page!KeyEnds

\* A page that comes back owes a refresh while an operation is in flight.
LEMMA AttentionKeeps ==
    ASSUME PageInv, Page!Recorded,
           Page!OpenSection \/ Page!Hide \/ Page!ComeBack \/ Page!Retry
    PROVE  PageInv'
<1>1. UNCHANGED <<jar, login, signOut>> /\ (signOut # Page!Idle => signOut.for # Nobody)
  BY DEF Page!OpenSection, Page!Hide, Page!ComeBack, Page!Retry, Page!operations, PageInv, RightPage
<1>2. PICK id : id = shown.data.id
  OBVIOUS
<1>3. CASE Page!OpenSection
  <2>1. /\ shown' = [shown EXCEPT !.secret = Nobody] /\ shown = [f \in ViewFields |-> shown[f]]
        /\ UNCHANGED <<visible, deferred, me, keysRead, key>>
    BY <1>3 DEF Page!OpenSection, Page!reads, Page!operations, PageInv, RightPage, RightShown
  <2>2. shown'.data.id = id
    BY <1>2, <2>1 DEF ViewFields
  <2>3. RightShown(shown, jar', left')
    BY <1>2, <2>2, Standing
  <2>4. RightShown(shown', jar', left')
    BY <1>2, <2>1, <2>3, NobodyIsNoAccount DEF RightShown, ViewFields, Own
  <2>5. RefreshOwed'
    BY <1>1, <2>1, OwedStays DEF Busy
  <2> QED BY <1>1, <1>2, <2>1, <2>2, <2>4, <2>5, PageSteps
<1>4. CASE Page!Hide
  <2>1. UNCHANGED <<shown, me, keysRead, key>> /\ visible' = FALSE
    BY <1>4 DEF Page!Hide, Page!page, Page!reads, Page!operations
  <2>2. RefreshOwed'
    BY <2>1 DEF RefreshOwed
  <2> QED BY <1>1, <1>2, <2>1, <2>2, PageSteps
<1>5. CASE Page!Renew \/ (Page!Reread /\ key' = Page!Old(key))
  BY <1>1, <1>5, RereadEmpties, EmptiedKeeps, OldIsOld
<1>6. CASE Page!ComeBack /\ ~Page!Renew
  <2>1. UNCHANGED <<shown, me, keysRead, key>> /\ deferred' = TRUE /\ Busy
    BY <1>6 DEF Page!ComeBack, Page!reads, Busy
  <2>2. RefreshOwed'
    BY <1>1, <2>1 DEF RefreshOwed, Busy
  <2> QED BY <1>1, <1>2, <2>1, <2>2, PageSteps
<1> QED BY <1>3, <1>4, <1>5, <1>6 DEF Page!Retry

\* Every step of the page keeps it right.
LEMMA PageKept == ASSUME PageInv, [Page!Next]_account PROVE PageInv'
<1>1. CASE Page!Next
  <2>1. Page!Recorded
    BY <1>1 DEF Page!Next
  <2>2. CASE Page!Service
    BY <2>1, <2>2, ServiceKeeps
  <2>3. CASE Page!MeEnds
    BY <2>1, <2>3, ReadIdentityKeeps, ReadUsageKeeps DEF Page!MeEnds
  <2>4. CASE Page!ReadKeysEnds
    BY <2>1, <2>4, ReadKeysKeeps
  <2>5. CASE Page!LoginEnds
    BY <2>1, <2>5, SignInKeeps
  <2>6. CASE Page!ExitEnds
    BY <2>1, <2>6, ExitKeeps
  <2>7. CASE Page!KeyEnds
    BY <2>1, <2>7, KeysKeep
  <2>8. CASE Page!User
    BY <2>1, <2>8, SignInKeeps, ExitKeeps, KeysKeep, AttentionKeeps DEF Page!User
  <2> QED BY <1>1, <2>2, <2>3, <2>4, <2>5, <2>6, <2>7, <2>8 DEF Page!Next, Page!Step
<1>2. CASE UNCHANGED account
  BY <1>2 DEF account, PageInv, RightPage, RefreshOwed, Page!Held
<1> QED BY <1>1, <1>2

\* The page's invariant, while it is the part that is run, or not.
LEMMA PageHolds == EitherSpec => []PageInv
<1>1. EitherInit => PageInv
  BY PageBegins DEF EitherInit
<1>2. PageInv /\ [EitherNext]_<<part, vars, account>> => PageInv'
  <2> SUFFICES ASSUME PageInv, [EitherNext]_<<part, vars, account>> PROVE PageInv'
    OBVIOUS
  <2>1. [Page!Next]_account
    BY DEF EitherNext
  <2> QED BY <2>1, PageKept
<1> QED BY <1>1, <1>2, PTL DEF EitherSpec

\* A right page is one account's.
LEMMA PageIsOneAccounts == PageInv => PageFollowsAccount
<1> SUFFICES ASSUME PageInv PROVE PageFollowsAccount
  OBVIOUS
<1>1. Page!OneAccountShown
  BY DEF PageInv, RightPage, RightShown, Own, Page!OneAccountShown, Page!Owners
<1>2. Page!RefreshIsNotLost
  BY DEF PageInv, RefreshOwed, Page!Held, Page!RefreshIsNotLost
<1> QED BY <1>1, <1>2 DEF PageFollowsAccount, Page!PageFollowsAccount

\* What the service gave to an e-mail account (its usage, its keys, the secret
\* of a new key) is shown under that account only, whoever signs in from other
\* tabs while requests are out; and a page that came back into view shows an
\* account read before that only while an operation is in flight, after which
\* it is read again (App.jsx).
THEOREM PageFollowed == EitherSpec => []PageFollowsAccount
BY PageHolds, PageIsOneAccounts, PTL

-----------------------------------------------------------------------------
(* What is changed on purpose                                               *)

\* An account is dropped for a signed-out view, or at the end of a sign-out or
\* a deletion, only if the browser no longer has its session.
SignOutConfirmed ==
    (/\ shown.data.id # Nobody /\ shown'.data.id = Nobody
     /\ \/ Page!ViewState(shown', error') = "signed_out"
        \/ signOut # Page!Idle /\ signOut' = Page!Idle /\ signOut.for = shown.data.id /\ ~deferred)
    => left \/ jar' # jar

\* A page that reads the account again does not say that it is signed out.
LEMMA RenewIsNoSignOut ==
    ASSUME Page!Renew \/ Page!Refresh \/ Page!Reread
    PROVE  Page!ViewState(shown', error') # "signed_out"
BY DEF Page!Renew, Page!Refresh, Page!Reread, Page!ViewState, Page!Blank, Page!NoAccount

\* Every step that drops the account knows that the browser has left it.
LEMMA SignOutsConfirmed == ASSUME PageInv, Page!Next PROVE SignOutConfirmed
<1> SUFFICES ASSUME shown.data.id # Nobody, shown'.data.id = Nobody, jar' = jar, ~left,
                    \/ Page!ViewState(shown', error') = "signed_out"
                    \/ /\ signOut # Page!Idle /\ signOut' = Page!Idle
                       /\ signOut.for = shown.data.id /\ ~deferred
             PROVE  FALSE
  BY DEF SignOutConfirmed
<1>1. jar = shown.data.id /\ shown = [f \in ViewFields |-> shown[f]] /\ RightPage
  BY DEF PageInv, RightPage, RightShown
<1>2. CASE Page!ExitEnds
  <2>1. signOut # Page!Idle /\ signOut.for # Nobody
    BY <1>1, <1>2 DEF Page!ExitEnds, Page!SignOutEnds, Page!DeletionEnds, Page!Idle, RightPage
  <2> QED BY <1>1, <1>2, <2>1, RenewIsNoSignOut
          DEF Page!ExitEnds, Page!SignOutEnds, Page!DeletionEnds, Page!Settle, Page!Due,
              Page!Foreign, Page!Confirmed, Page!Accepted
<1>3. ASSUME NEW r, NEW kinds, IsAsked(r, kinds, shown.data.id, left), NEW a \in Page!Answers(r),
             a.kind = "signed_out"
      PROVE  FALSE
  BY <1>3 DEF IsAsked, Page!Answers, Page!Says
<1>4. ASSUME signOut' = Page!Idle => signOut = Page!Idle, Page!Renew \/ Page!Refresh \/ Page!Reread
      PROVE  FALSE
  BY <1>4, RenewIsNoSignOut
<1>5. CASE Page!Service \/ Page!LoginEnds
  BY <1>1, <1>4, <1>5
  DEF Page!Service, Page!ServeIdentity, Page!ServeUsage, Page!ServeKeys, Page!ServeKeyOperation,
      Page!OtherTab, Page!page, Page!LoginEnds, Page!SignedIn, Page!SignInFails, Page!ConnectionEnds,
      Page!Settle, ViewFields
<1>6. CASE Page!MeEnds
  <2>1. RightMe(me, shown.data.id, jar, left)
    BY <1>1 DEF RightPage
  <2>2. CASE Page!ReadIdentityEnds
    BY <2>1, <2>2 DEF Page!ReadIdentityEnds, RightMe, Page!Idle, IsIdentity, IsAsked
  <2>3. CASE Page!ReadUsageEnds
    <3>1. IsAsked(me, {"usage"}, shown.data.id, left)
      BY <2>1, <2>3 DEF Page!ReadUsageEnds, RightMe, Page!Idle, IsIdentity
    <3> QED BY <1>1, <1>3, <1>4, <2>3, <3>1 DEF Page!ReadUsageEnds, ViewFields
  <2> QED BY <1>6, <2>2, <2>3 DEF Page!MeEnds
<1>7. CASE Page!ReadKeysEnds
  <2>1. IsAsked(keysRead, {"keys"}, shown.data.id, left)
    BY <1>1, <1>7 DEF Page!ReadKeysEnds, RightPage, RightKeysRead, Page!Idle
  <2> QED BY <1>1, <1>3, <1>4, <1>7, <2>1 DEF Page!ReadKeysEnds, ViewFields
<1>8. CASE Page!KeyEnds
  <2>1. key.kind \in {"create", "disable"} => IsAsked(key, {"create", "disable"}, shown.data.id, left)
    BY <1>1 DEF RightPage, RightKey, Page!Idle
  <2> QED BY <1>1, <1>3, <1>4, <1>8, <2>1
          DEF Page!KeyEnds, Page!KeyOperationEnds, Page!OldKeyOperationEnds, Page!KeyOperationShown, ViewFields
<1>9. CASE Page!User
  <2>1. signOut' = Page!Idle => signOut = Page!Idle
    BY <1>9 DEF Page!User, Page!BeginSignIn, Page!BeginConnection, Page!BeginSignOut, Page!BeginDeletion,
                Page!BeginKeyOperation, Page!OpenSection, Page!Retry, Page!Hide, Page!ComeBack,
                Page!operations, Page!Idle
  <2>2. \/ Page!Renew \/ Page!Refresh \/ Page!Reread
        \/ shown' = [shown EXCEPT !.loading = shown'.loading, !.keyLoading = shown'.keyLoading,
                                  !.secret = shown'.secret]
    BY <1>1, <1>9
    DEF Page!User, Page!BeginSignIn, Page!BeginConnection, Page!BeginSignOut, Page!BeginDeletion,
        Page!BeginKeyOperation, Page!OpenSection, Page!Retry, Page!Hide, Page!ComeBack, Page!page,
        ViewFields
  <2>3. ~(shown' = [shown EXCEPT !.loading = shown'.loading, !.keyLoading = shown'.keyLoading,
                                  !.secret = shown'.secret])
    BY <1>1 DEF ViewFields
  <2> QED BY <1>4, <2>1, <2>2, <2>3
<1> QED BY <1>2, <1>5, <1>6, <1>7, <1>8, <1>9 DEF Page!Next, Page!Step

FileInv == store = [k \in Keys |-> store[k]]

\* What is not issued, or deleted, is no entry.
LEMMA NoEntries == Unissued \notin Entries /\ Deleted \notin Entries
<1>1. ASSUME NEW e \in Entries PROVE "enabled" \in DOMAIN e
  BY <1>1 DEF Entries
<1>2. "enabled" \notin DOMAIN Unissued /\ "enabled" \notin DOMAIN Deleted
  BY DEF Unissued, Deleted
<1> QED BY <1>1, <1>2

\* A key is resumed only by a switch.
ResumedBySwitch ==
    \A k \in Keys :
        (store[k] \in Entries /\ ~store[k].enabled /\ store'[k] \in Entries /\ store'[k].enabled)
        => \E c \in Calls : /\ calls[c] # Idle /\ calls[c].op = "toggle" /\ calls[c].status = "sent"
                            /\ calls[c].arg.key = k
                            /\ calls[c].arg.set.enabled

\* An update that resumes an entry says so.
LEMMA UpdateResumes ==
    ASSUME NEW e \in Entries, NEW u, ~e.enabled, Updated(e, u).enabled
    PROVE  "enabled" \in DOMAIN u /\ u.enabled
<1>1. e = [f \in {"enabled", "tier", "limit"} |-> e[f]]
  BY DEF Entries
<1>2. PICK new : new = [f \in DOMAIN e |-> IF f \in DOMAIN u THEN u[f] ELSE e[f]]
  OBVIOUS
<1>3. Updated(e, u).enabled = new.enabled
  BY <1>1, <1>2 DEF Updated
<1> QED BY <1>1, <1>2, <1>3

\* What a request makes of the token file.
FileChange(r, new) ==
    \/ /\ r.op \in {"toggle", "edit"} /\ store[r.arg.key] \in Entries
       /\ new = [store EXCEPT ![r.arg.key] = Updated(store[r.arg.key], r.arg.set)]
    \/ r.op = "delete" /\ new = [store EXCEPT ![r.arg.key] = Deleted]
    \/ \E k \in Managed :
          /\ store[k] = Unissued
          /\ new = [store EXCEPT ![k] = [enabled |-> TRUE, tier |-> r.arg.set.tier, limit |-> FALSE]]

\* A served request changes the token file only so.
LEMMA ServedChanges ==
    ASSUME NEW c \in Calls, NEW r, r = calls[c], Serve(c)
    PROVE  /\ r # Idle /\ r.status = "sent"
           /\ store' = store \/ FileChange(r, store')
<1>1. r # Idle /\ r.status = "sent" /\ (store' = store \/ Execute(c, r))
  BY DEF Serve
<1>2. ASSUME Execute(c, r) PROVE store' = store \/ FileChange(r, store')
  BY <1>2 DEF Execute, FileChange
<1> QED BY <1>1, <1>2

\* Every step of the console resumes a key by a switch only.
LEMMA SwitchedOn == ASSUME ConsoleInv, FileInv, [Next]_vars PROVE ResumedBySwitch /\ FileInv'
<1>1. CASE store' = store
  BY <1>1 DEF ResumedBySwitch, FileInv
<1>2. ASSUME NEW c \in Calls, Serve(c) PROVE ResumedBySwitch /\ FileInv'
  <2>1. PICK r, k0, u : r = calls[c] /\ k0 = r.arg.key /\ u = r.arg.set
    OBVIOUS
  <2>2. r # Idle /\ r.status = "sent" /\ (store' = store \/ FileChange(r, store'))
    BY <1>2, <2>1, ServedChanges
  <2>3. r.op = "edit" => "enabled" \notin DOMAIN u
    BY <2>1, <2>2, Parts DEF RightCall, RightArg
  <2>4. FileInv'
    BY <2>2 DEF FileInv, FileChange
  <2>5. ASSUME NEW k \in Keys, store[k] \in Entries, ~store[k].enabled,
               store'[k] \in Entries, store'[k].enabled
        PROVE  r.op = "toggle" /\ k0 = k /\ u.enabled
    <3>1. FileChange(r, store')
      BY <2>2, <2>5
    <3>2. ~(r.op = "delete" /\ store' = [store EXCEPT ![k0] = Deleted])
      BY <2>5, NoEntries DEF FileInv
    <3>3. ASSUME NEW j \in Managed, NEW e, store[j] = Unissued, store' = [store EXCEPT ![j] = e]
          PROVE  FALSE
      BY <2>5, <3>3, NoEntries DEF FileInv
    <3>4. /\ r.op \in {"toggle", "edit"}
          /\ store' = [store EXCEPT ![k0] = Updated(store[k0], u)]
      BY <2>1, <3>1, <3>2, <3>3 DEF FileChange
    <3>5. k0 = k /\ store'[k] = Updated(store[k], u)
      BY <2>5, <3>4 DEF FileInv
    <3>6. "enabled" \in DOMAIN u /\ u.enabled
      BY <2>5, <3>5, UpdateResumes
    <3> QED BY <2>3, <3>4, <3>5, <3>6
  <2> QED BY <2>1, <2>2, <2>4, <2>5 DEF ResumedBySwitch
<1>3. ASSUME NEW k0 \in Managed, ChangedElsewhere(k0) PROVE ResumedBySwitch /\ FileInv'
  <2>1. PICK e : e = store[k0]
    OBVIOUS
  <2>2. e \in Entries /\ store' = [store EXCEPT ![k0] = IF e.enabled THEN [e EXCEPT !.enabled = FALSE] ELSE Deleted]
    BY <1>3, <2>1 DEF ChangedElsewhere
  <2>3. [e EXCEPT !.enabled = FALSE].enabled = FALSE
    BY <2>2 DEF Entries
  <2>4. FileInv'
    BY <2>2 DEF FileInv
  <2>5. ASSUME NEW k \in Keys, store[k] \in Entries, ~store[k].enabled,
               store'[k] \in Entries, store'[k].enabled
        PROVE  FALSE
    BY <2>1, <2>2, <2>3, <2>5, NoEntries DEF FileInv
  <2> QED BY <2>4, <2>5 DEF ResumedBySwitch
<1>4. ASSUME NEW c \in Calls, Answering(c) \/ Delivering(c), ~Serve(c) PROVE store' = store
  BY <1>4 DEF Answering, Delivering, ServeCheck, ServeSignOut, ServeBootstrap, Lose, Deliver,
              DeliverCheck, DeliverSignOut, DeliverBootstrap
<1>5. ASSUME NEW t \in Tabs, Operate(t) PROVE store' = store
  BY <1>5 DEF Operate, Quiet, Reload, OpenCreate, ChangeForm, CloseDialog, Submit, Toggle, OpenRow,
              RunNextPage, RunSample
<1>6. ASSUME NEW t \in Tabs, (\E s \in Sections : Navigate(t, s)) \/ Recheck(t) \/ AskSignOut(t)
                             \/ Load(t) \/ Logout(t) \/ \E k \in Keys : Login(t, k)
      PROVE  store' = store
  BY <1>6 DEF Navigate, Recheck, AskSignOut, Load, Logout, Login
<1>7. CASE (\E a \in Accounts : SignIn(a)) \/ SignOutElsewhere \/ UNCHANGED vars
  BY <1>1, <1>7 DEF SignIn, SignOutElsewhere, vars
<1> QED BY <1>1, <1>2, <1>3, <1>4, <1>5, <1>6, <1>7 DEF Next

\* The token file is a function of its keys.
LEMMA FileHolds == EitherSpec => []FileInv
<1>1. EitherInit => FileInv
  BY DEF EitherInit, Init, FileInv
<1>2. ConsoleInv /\ FileInv /\ [EitherNext]_<<part, vars, account>> => FileInv'
  <2> SUFFICES ASSUME ConsoleInv, FileInv, [EitherNext]_<<part, vars, account>> PROVE FileInv'
    OBVIOUS
  <2>1. [Next]_vars
    BY DEF EitherNext
  <2> QED BY <2>1, SwitchedOn
<1> QED BY <1>1, <1>2, ConsoleHolds, PTL DEF EitherSpec

\* A paused key is resumed only by the switch of an operator whose list showed
\* it paused, never by saving a dialog that was opened before (TokensView.tsx);
\* and the account page takes neither an unreachable service nor a failed
\* sign-out for a sign-out: an account is dropped only when the browser no
\* longer has its session (App.jsx, accountSession.js).
THEOREM ChangesMeant == EitherSpec => ChangesAreMeant
<1>1. /\ ConsoleInv /\ FileInv /\ [EitherNext]_<<part, vars, account>> => [ResumedBySwitch]_vars
  <2> SUFFICES ASSUME ConsoleInv, FileInv, [EitherNext]_<<part, vars, account>>
               PROVE  [ResumedBySwitch]_vars
    OBVIOUS
  <2>1. [Next]_vars
    BY DEF EitherNext
  <2> QED BY <2>1, SwitchedOn
<1>2. PageInv /\ [EitherNext]_<<part, vars, account>> => [SignOutConfirmed]_(Page!vars)
  <2> SUFFICES ASSUME PageInv, [EitherNext]_<<part, vars, account>> PROVE [SignOutConfirmed]_(Page!vars)
    OBVIOUS
  <2>1. [Page!Next]_account
    BY DEF EitherNext
  <2>2. UNCHANGED account => UNCHANGED Page!vars
    BY DEF account, Page!vars, Page!page, Page!reads, Page!operations
  <2> QED BY <2>1, <2>2, SignOutsConfirmed
<1>3. EitherSpec => [][ResumedBySwitch]_vars /\ [][SignOutConfirmed]_(Page!vars)
  BY <1>1, <1>2, ConsoleHolds, FileHolds, PageHolds, PTL DEF EitherSpec
<1> QED BY <1>3
        DEF ChangesAreMeant, ResumedOnPurpose, ResumedBySwitch, Page!SignOutIsConfirmed, SignOutConfirmed
=============================================================================
