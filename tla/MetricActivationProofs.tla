----------------------- MODULE MetricActivationProofs -----------------------
(***************************************************************************)
(* Proofs about MetricActivation for any metrics, activations and times:   *)
(* the places that say what is active agree, and activations end when they *)
(* should across expiry, the death of the system server and restarts.      *)
(***************************************************************************)
EXTENDS MetricActivation, TLAPS

USE SMTT(30), Zenon

Acts == [Activations -> [state : States, start : Int]]
Actives == [Metrics -> BOOLEAN]

\* A metric is marked active exactly when it has an active activation.
Agree(act, active) == \A m \in Metrics : active[m] <=> SomeActive(act, m)

\* The state x of activation a is not active, or covers time t.
InTime(x, a, t) == x.state = "kActive" => t <= x.start + Ttl[a]

-----------------------------------------------------------------------------
(* What the operators do to one activation.                                *)

\* expire: an activation is left alone, or was past its time and ends.
LEMMA ExpireFacts ==
    ASSUME NEW act \in Acts, NEW m \in Metrics, NEW t \in Int
    PROVE  /\ expire(act, m, t) \in Acts
           /\ \A a \in Activations :
                \/ expire(act, m, t)[a] = act[a]
                \/ /\ act[a].state = "kActive" /\ t > act[a].start + Ttl[a]
                   /\ expire(act, m, t)[a].state = "kNotActive"
           /\ \A a \in Of(m) : InTime(expire(act, m, t)[a], a, t)
<1>1. /\ expire(act, m, t) \in Acts
      /\ \A a \in Activations :
           \/ expire(act, m, t)[a] = act[a]
           \/ /\ act[a].state = "kActive" /\ t > act[a].start + Ttl[a]
              /\ expire(act, m, t)[a].state = "kNotActive"
  BY Zenon, ActivationAssumption DEF Acts, expire, States
<1>2. ASSUME NEW a \in Of(m) PROVE InTime(expire(act, m, t)[a], a, t)
  <2>1. a \in Activations /\ MetricOf[a] = m /\ Ttl[a] \in Int
    BY ActivationAssumption DEF Of
  <2>2. act[a].start \in Int
    BY Zenon, <2>1 DEF Acts
  <2>3. CASE act[a].state = "kActive" /\ t > act[a].start + Ttl[a]
    BY Zenon, <2>1, <2>3 DEF expire, Acts, InTime
  <2>4. CASE ~(act[a].state = "kActive" /\ t > act[a].start + Ttl[a])
    <3>1. expire(act, m, t)[a] = act[a]
      BY Zenon, <2>1, <2>4 DEF expire
    <3> QED BY <2>1, <2>2, <2>4, <3>1 DEF InTime
  <2> QED BY Zenon, <2>3, <2>4
<1> QED BY Zenon, <1>1, <1>2

\* flushIfExpire: the same, and the metrics looked at are marked right and have no
\* activation left that is past its time, if before that every metric with an active
\* activation was marked.
FlushOK(act, active, S, t) ==
    LET f == flushIfExpire(act, active, S, t) IN
    /\ f.act \in Acts /\ f.active \in Actives
    /\ Agree(f.act, f.active)
    /\ \A a \in Activations :
         \/ f.act[a] = act[a]
         \/ /\ act[a].state = "kActive" /\ t > act[a].start + Ttl[a]
            /\ f.act[a].state = "kNotActive"
    /\ \A a \in Activations : MetricOf[a] \in S => InTime(f.act[a], a, t)

\* flushIfExpire keeps its promise.
LEMMA FlushFacts ==
    ASSUME NEW act \in Acts, NEW active \in Actives, NEW S \in SUBSET Metrics, NEW t \in Int,
           \A m \in Metrics : SomeActive(act, m) => active[m],
           \A m \in Metrics \ S : active[m] => SomeActive(act, m)
    PROVE  FlushOK(act, active, S, t)
<1> DEFINE due == {m \in S : active[m]}
           new == [a \in Activations |-> IF MetricOf[a] \in due THEN expire(act, MetricOf[a], t)[a]
                                         ELSE act[a]]
           mark == [m \in Metrics |-> IF m \in due THEN SomeActive(new, m) ELSE active[m]]
           f == flushIfExpire(act, active, S, t)
<1>1. f.act = new /\ f.active = mark
  BY Zenon DEF flushIfExpire
<1>2. \A a \in Activations : MetricOf[a] \in Metrics
  BY Zenon, ActivationAssumption
<1>3. /\ new \in Acts
      /\ \A a \in Activations :
           \/ new[a] = act[a]
           \/ /\ act[a].state = "kActive" /\ t > act[a].start + Ttl[a]
              /\ new[a].state = "kNotActive"
  <2> SUFFICES ASSUME NEW a \in Activations
               PROVE  /\ new[a] \in [state : States, start : Int]
                      /\ \/ new[a] = act[a]
                         \/ /\ act[a].state = "kActive" /\ t > act[a].start + Ttl[a]
                            /\ new[a].state = "kNotActive"
    BY Zenon DEF Acts
  <2> DEFINE e == expire(act, MetricOf[a], t)
  <2>1. /\ e \in Acts
        /\ \/ e[a] = act[a]
           \/ /\ act[a].state = "kActive" /\ t > act[a].start + Ttl[a]
              /\ e[a].state = "kNotActive"
    BY <1>2, ExpireFacts
  <2>2. new[a] = IF MetricOf[a] \in due THEN e[a] ELSE act[a]
    BY Zenon
  <2> HIDE DEF e, new
  <2> QED BY Zenon, <2>1, <2>2 DEF Acts
<1>4. \A a \in Activations : MetricOf[a] \notin due => new[a] = act[a]
  BY Zenon
<1>5. ASSUME NEW a \in Activations, MetricOf[a] \in S PROVE InTime(new[a], a, t)
  <2>1. CASE MetricOf[a] \in due
    <3>1. new[a] = expire(act, MetricOf[a], t)[a] /\ a \in Of(MetricOf[a])
      BY Zenon, <2>1 DEF Of
    <3> HIDE DEF new
    <3> QED BY <3>1, <1>2, ExpireFacts
  <2>2. CASE MetricOf[a] \notin due
    <3>1. new[a] = act[a]
      BY Zenon, <2>2
    <3>2. ~SomeActive(act, MetricOf[a])
      BY Zenon, <2>2, <1>2, <1>5
    <3>3. act[a].state # "kActive"
      BY Zenon, <3>2 DEF SomeActive, Of
    <3> HIDE DEF new
    <3> QED BY Zenon, <3>1, <3>3 DEF InTime
  <2> QED BY Zenon, <2>1, <2>2
<1>6. mark \in Actives
  BY Zenon DEF Actives, SomeActive
<1> HIDE DEF new
<1>7. ASSUME NEW m \in Metrics PROVE mark[m] <=> SomeActive(new, m)
  <2>1. CASE m \in due
    BY Zenon, <2>1
  <2>2. CASE m \notin due
    <3>1. SomeActive(new, m) <=> SomeActive(act, m)
      BY <2>2, <1>4 DEF SomeActive, Of
    <3>2. active[m] <=> SomeActive(act, m)
      BY Zenon, <2>2
    <3> QED BY Zenon, <2>2, <3>1, <3>2
  <2> QED BY Zenon, <2>1, <2>2
<1> QED BY Zenon, <1>1, <1>3, <1>5, <1>6, <1>7 DEF Agree, FlushOK

\* cancelEventActivation: the activations in D end, the others are left alone.
CancelOK(act, D) ==
    LET c == cancelEventActivation(act, D) IN
    /\ c \in Acts
    /\ \A a \in Activations \ D : c[a] = act[a]
    /\ \A a \in D : c[a].state = "kNotActive"

\* cancelEventActivation keeps its promise.
LEMMA CancelFacts ==
    ASSUME NEW act \in Acts, NEW D \in SUBSET Activations
    PROVE  CancelOK(act, D)
BY Zenon DEF CancelOK, cancelEventActivation, Acts, States

\* activate: immediate activations start at t, others at most begin to wait.
ActivateOK(act, active, S, t) ==
    LET r == activate(act, active, S, t) IN
    /\ r.act \in Acts /\ r.active \in Actives
    /\ Agree(r.act, r.active)
    /\ \A m \in Metrics : active[m] => r.active[m]
    /\ \A m \in Metrics : r.active[m] => active[m] \/ \E a \in S : MetricOf[a] = m
    /\ \A a \in S \ OnBoot : r.act[a] = [state |-> "kActive", start |-> t]
    /\ \A a \in Activations \ (S \ OnBoot) :
         \/ r.act[a] = act[a]
         \/ /\ a \in OnBoot /\ act[a].state = "kNotActive"
            /\ r.act[a].state = "kActiveOnBoot"

\* activate keeps its promise.
LEMMA ActivateFacts ==
    ASSUME NEW act \in Acts, NEW active \in Actives, NEW S \in SUBSET Activations, NEW t \in Int,
           Agree(act, active)
    PROVE  ActivateOK(act, active, S, t)
<1> DEFINE new == [a \in Activations |->
                     CASE a \in S \ OnBoot -> [state |-> "kActive", start |-> t]
                       [] a \in S \cap OnBoot /\ act[a].state = "kNotActive" ->
                            [act[a] EXCEPT !.state = "kActiveOnBoot"]
                       [] OTHER -> act[a]]
           mark == [m \in Metrics |-> active[m] \/ (S \ OnBoot) \cap Of(m) # {}]
           r == activate(act, active, S, t)
<1>1. r.act = new /\ r.active = mark
  BY Zenon DEF activate
<1>2. \A a \in S \ OnBoot : new[a] = [state |-> "kActive", start |-> t]
  BY Zenon
<1>3. ASSUME NEW a \in Activations \ (S \ OnBoot)
      PROVE  \/ new[a] = act[a]
             \/ /\ a \in OnBoot /\ act[a].state = "kNotActive"
                /\ new[a].state = "kActiveOnBoot"
  <2>1. CASE a \in S \cap OnBoot /\ act[a].state = "kNotActive"
    BY Zenon, <2>1 DEF Acts
  <2>2. CASE ~(a \in S \cap OnBoot /\ act[a].state = "kNotActive")
    BY Zenon, <2>2
  <2> QED BY Zenon, <2>1, <2>2
<1>4. new \in Acts
  <2> SUFFICES ASSUME NEW a \in Activations PROVE new[a] \in [state : States, start : Int]
    BY Zenon DEF Acts
  <2>1. CASE a \in S \ OnBoot
    BY Zenon, <2>1, <1>2 DEF States
  <2>2. CASE a \in S \cap OnBoot /\ act[a].state = "kNotActive"
    BY Zenon, <2>2 DEF Acts, States
  <2>3. CASE a \notin S \ OnBoot /\ ~(a \in S \cap OnBoot /\ act[a].state = "kNotActive")
    BY Zenon, <2>3 DEF Acts
  <2> QED BY Zenon, <2>1, <2>2, <2>3
<1>5. mark \in Actives
  BY Zenon DEF Actives
<1> HIDE DEF new
<1>6. ASSUME NEW m \in Metrics PROVE mark[m] <=> SomeActive(new, m)
  <2>1. active[m] => SomeActive(new, m)
    BY <1>2, <1>3 DEF Agree, SomeActive, Of
  <2>2. (S \ OnBoot) \cap Of(m) # {} => SomeActive(new, m)
    BY <1>2 DEF SomeActive
  <2>3. SomeActive(new, m) => active[m] \/ (S \ OnBoot) \cap Of(m) # {}
    BY <1>3 DEF Agree, SomeActive, Of
  <2> QED BY Zenon, <2>1, <2>2, <2>3
<1>7. \A m \in Metrics : mark[m] => active[m] \/ \E a \in S : MetricOf[a] = m
  BY Zenon DEF Of
<1>8. Agree(new, mark)
  BY Zenon, <1>6 DEF Agree
<1>9. \A m \in Metrics : active[m] => mark[m]
  BY Zenon
<1> HIDE DEF mark, r
<1> QED BY Zenon, <1>1, <1>2, <1>3, <1>4, <1>5, <1>7, <1>8, <1>9 DEF ActivateOK, r

\* onLogEvent: what an event that cancels D and activates S does to one activation;
\* whatever is active after it covers the time of the event.
EventOK(act, active, t, D, S) ==
    LET r == onLogEvent(act, active, t, D, S) IN
    /\ r.act \in Acts /\ r.active \in Actives /\ r.config \in BOOLEAN
    /\ Agree(r.act, r.active)
    /\ r.config <=> (mIsAlwaysActive \/ \E m \in Metrics : r.active[m])
    /\ \A a \in S \ OnBoot : r.act[a] = [state |-> "kActive", start |-> t]
    /\ \A a \in Activations \ (S \ OnBoot) :
         \/ r.act[a] = act[a] /\ (a \in D => act[a].state = "kNotActive")
         \/ r.act[a].state = "kNotActive"
              /\ (a \in D \/ (act[a].state = "kActive" /\ t > act[a].start + Ttl[a]))
         \/ a \in OnBoot /\ r.act[a].state = "kActiveOnBoot"
              /\ \/ a \in D \/ act[a].state = "kNotActive"
                 \/ act[a].state = "kActive" /\ t > act[a].start + Ttl[a]
    /\ \A a \in Activations : InTime(r.act[a], a, t)

\* onLogEvent keeps its promise: the three steps above, in the order of the code.
LEMMA EventFacts ==
    ASSUME NEW act \in Acts, NEW active \in Actives, NEW t \in Int,
           NEW D \in SUBSET Activations, NEW S \in SUBSET Activations,
           Agree(act, active)
    PROVE  EventOK(act, active, t, D, S)
<1> DEFINE C == {MetricOf[a] : a \in D}
           f == flushIfExpire(act, active, Metrics, t)
           c == cancelEventActivation(f.act, D)
           g == flushIfExpire(c, f.active, C, t)
           n == activate(g.act, g.active, S, t)
           r == onLogEvent(act, active, t, D, S)
<1>1. /\ f.act \in Acts /\ f.active \in Actives /\ Agree(f.act, f.active)
      /\ \A a \in Activations :
           \/ f.act[a] = act[a]
           \/ /\ act[a].state = "kActive" /\ t > act[a].start + Ttl[a]
              /\ f.act[a].state = "kNotActive"
      /\ \A a \in Activations : InTime(f.act[a], a, t)
  <2>1. /\ \A m \in Metrics : SomeActive(act, m) => active[m]
        /\ \A m \in Metrics \ Metrics : active[m] => SomeActive(act, m)
        /\ Metrics \in SUBSET Metrics
    BY Zenon DEF Agree
  <2>2. FlushOK(act, active, Metrics, t)
    BY Zenon, <2>1, FlushFacts
  <2>3. \A a \in Activations : MetricOf[a] \in Metrics
    BY Zenon, ActivationAssumption
  <2> QED BY Zenon, <2>2, <2>3 DEF FlushOK
<1> HIDE DEF f
<1>2. /\ c \in Acts
      /\ \A a \in Activations \ D : c[a] = f.act[a]
      /\ \A a \in D : c[a].state = "kNotActive"
  BY <1>1, CancelFacts DEF CancelOK
<1> HIDE DEF c
<1>3. /\ g.act \in Acts /\ g.active \in Actives /\ Agree(g.act, g.active)
      /\ \A a \in Activations :
           \/ g.act[a] = c[a]
           \/ /\ c[a].state = "kActive" /\ t > c[a].start + Ttl[a]
              /\ g.act[a].state = "kNotActive"
  <2>1. C \in SUBSET Metrics
    BY Zenon, ActivationAssumption
  <2>2. \A m \in Metrics : SomeActive(c, m) => f.active[m]
    BY <1>1, <1>2 DEF Agree, SomeActive, Of
  <2>3. \A m \in Metrics \ C : f.active[m] => SomeActive(c, m)
    BY <1>1, <1>2 DEF Agree, SomeActive, Of
  <2> HIDE DEF C
  <2>4. FlushOK(c, f.active, C, t)
    BY Zenon, <1>1, <1>2, <2>1, <2>2, <2>3, FlushFacts
  <2> QED BY Zenon, <2>4 DEF FlushOK
<1> HIDE DEF g
<1>4. /\ n.act \in Acts /\ n.active \in Actives /\ Agree(n.act, n.active)
      /\ \A m \in Metrics : g.active[m] => n.active[m]
      /\ \A m \in Metrics : n.active[m] => g.active[m] \/ \E a \in S : MetricOf[a] = m
      /\ \A a \in S \ OnBoot : n.act[a] = [state |-> "kActive", start |-> t]
      /\ \A a \in Activations \ (S \ OnBoot) :
           \/ n.act[a] = g.act[a]
           \/ /\ a \in OnBoot /\ g.act[a].state = "kNotActive"
              /\ n.act[a].state = "kActiveOnBoot"
  <2>1. ActivateOK(g.act, g.active, S, t)
    BY Zenon, <1>3, ActivateFacts
  <2> QED BY Zenon, <2>1 DEF ActivateOK
<1>5. /\ r.act = n.act /\ r.active = n.active
      /\ r.config = (\/ mIsAlwaysActive
                     \/ \E m \in Metrics : g.active[m]
                     \/ \E a \in S : n.active[MetricOf[a]])
  BY Zenon DEF onLogEvent, f, c, g
<1> HIDE DEF n, r
<1>6. \A a \in S : MetricOf[a] \in Metrics
  BY Zenon, ActivationAssumption
<1>7. r.config <=> (mIsAlwaysActive \/ \E m \in Metrics : r.active[m])
  BY <1>4, <1>5, <1>6
<1>8. ASSUME NEW a \in Activations \ (S \ OnBoot)
      PROVE  \/ n.act[a] = act[a] /\ (a \in D => act[a].state = "kNotActive")
             \/ n.act[a].state = "kNotActive"
                  /\ (a \in D \/ (act[a].state = "kActive" /\ t > act[a].start + Ttl[a]))
             \/ a \in OnBoot /\ n.act[a].state = "kActiveOnBoot"
                  /\ \/ a \in D \/ act[a].state = "kNotActive"
                     \/ act[a].state = "kActive" /\ t > act[a].start + Ttl[a]
  <2>1. CASE a \in D
    <3>1. g.act[a].state = "kNotActive"
      BY Zenon, <2>1, <1>2, <1>3
    <3> QED BY Zenon, <2>1, <3>1, <1>4
  <2>2. CASE a \notin D
    <3>1. c[a] = f.act[a]
      BY Zenon, <2>2, <1>2
    <3>2. \/ g.act[a] = act[a]
          \/ /\ g.act[a].state = "kNotActive"
             /\ act[a].state = "kActive" /\ t > act[a].start + Ttl[a]
      BY <3>1, <1>1, <1>3
    <3> QED BY Zenon, <2>2, <3>2, <1>4
  <2> QED BY Zenon, <2>1, <2>2
<1>9. ASSUME NEW a \in Activations PROVE InTime(n.act[a], a, t)
  <2>1. CASE a \in S \ OnBoot
    <3>1. n.act[a].state = "kActive" /\ n.act[a].start = t
      BY <2>1, <1>4
    <3>2. Ttl[a] \in Nat
      BY Zenon, ActivationAssumption
    <3> QED BY <3>1, <3>2 DEF InTime
  <2>2. CASE a \notin S \ OnBoot
    <3>1. InTime(f.act[a], a, t)
      BY Zenon, <1>1
    <3>2. c[a].state = "kActive" => c[a] = f.act[a]
      BY Zenon, <1>2
    <3>3. g.act[a].state = "kActive" => g.act[a] = c[a]
      BY Zenon, <1>3
    <3>4. n.act[a].state = "kActive" => n.act[a] = g.act[a]
      BY Zenon, <2>2, <1>4
    <3> QED BY Zenon, <3>1, <3>2, <3>3, <3>4 DEF InTime
  <2> QED BY Zenon, <2>1, <2>2
<1> QED BY <1>4, <1>5, <1>7, <1>8, <1>9 DEF EventOK, r

\* writeActiveMetric: what is written for one activation.
WriteOK(act, t, shutdown) ==
    LET w == writeActiveMetric(act, t, shutdown) IN
    /\ w \in [Activations -> Proto]
    /\ \A a \in Activations :
         /\ act[a].state = "kActive" /\ t <= act[a].start + Ttl[a] =>
              w[a] = [state |-> "ACTIVE", remaining |-> act[a].start + Ttl[a] - t]
         /\ act[a].state = "kActiveOnBoot" =>
              w[a] = IF shutdown THEN [state |-> "ACTIVE", remaining |-> Ttl[a]]
                     ELSE [state |-> "ACTIVATE_ON_BOOT", remaining |-> 0]
         /\ ~(act[a].state = "kActive" /\ t <= act[a].start + Ttl[a])
              /\ act[a].state # "kActiveOnBoot" => w[a] = Absent

\* writeActiveMetric keeps its promise.
LEMMA WriteFacts ==
    ASSUME NEW act \in Acts, NEW t \in Int, NEW shutdown \in BOOLEAN
    PROVE  WriteOK(act, t, shutdown)
<1> DEFINE w == writeActiveMetric(act, t, shutdown)
<1>1. ASSUME NEW a \in Activations, act[a].state = "kActive" /\ t <= act[a].start + Ttl[a]
      PROVE  w[a] = [state |-> "ACTIVE", remaining |-> act[a].start + Ttl[a] - t]
  BY Zenon, <1>1 DEF writeActiveMetric
<1>2. ASSUME NEW a \in Activations, act[a].state = "kActiveOnBoot"
      PROVE  w[a] = IF shutdown THEN [state |-> "ACTIVE", remaining |-> Ttl[a]]
                    ELSE [state |-> "ACTIVATE_ON_BOOT", remaining |-> 0]
  BY Zenon, <1>2 DEF writeActiveMetric
<1>3. ASSUME NEW a \in Activations,
             ~(act[a].state = "kActive" /\ t <= act[a].start + Ttl[a]),
             act[a].state # "kActiveOnBoot"
      PROVE  w[a] = Absent
  BY Zenon, <1>3 DEF writeActiveMetric
<1>4. w = [a \in Activations |-> w[a]]
  BY Zenon DEF writeActiveMetric
<1> HIDE DEF w
<1>5. ASSUME NEW a \in Activations PROVE w[a] \in Proto
  <2>1. act[a].start \in Int /\ Ttl[a] \in Int
    BY ActivationAssumption DEF Acts
  <2>2. CASE act[a].state = "kActive" /\ t <= act[a].start + Ttl[a]
    <3>1. w[a] = [state |-> "ACTIVE", remaining |-> act[a].start + Ttl[a] - t]
      BY Zenon, <2>2, <1>1
    <3>2. act[a].start + Ttl[a] - t \in Int
      BY <2>1
    <3> QED BY <3>1, <3>2 DEF Proto
  <2>3. CASE act[a].state = "kActiveOnBoot"
    <3>1. w[a] = IF shutdown THEN [state |-> "ACTIVE", remaining |-> Ttl[a]]
                 ELSE [state |-> "ACTIVATE_ON_BOOT", remaining |-> 0]
      BY Zenon, <2>3, <1>2
    <3>2. CASE shutdown
      BY <2>1, <3>1, <3>2 DEF Proto
    <3>3. CASE ~shutdown
      BY <3>1, <3>3 DEF Proto
    <3> QED BY Zenon, <3>2, <3>3
  <2>4. CASE ~(act[a].state = "kActive" /\ t <= act[a].start + Ttl[a])
             /\ act[a].state # "kActiveOnBoot"
    BY <2>4, <1>3 DEF Proto, Absent
  <2> QED BY Zenon, <2>2, <2>3, <2>4
<1>6. w \in [Activations -> Proto]
  BY Zenon, <1>4, <1>5
<1> QED BY Zenon, <1>1, <1>2, <1>3, <1>6 DEF w, WriteOK

\* loadActiveConfig: what is read back for one activation.
LoadOK(act, active, config, proto, t) ==
    LET r == loadActiveConfig(act, active, config, proto, t) IN
    /\ r.act \in Acts /\ r.active \in Actives /\ r.config \in BOOLEAN
    /\ Agree(r.act, r.active)
    /\ r.config <=> (mIsAlwaysActive \/ \E m \in Metrics : r.active[m])
    /\ \A a \in Activations :
         /\ proto[a].state = "ACTIVE" =>
              r.act[a] = [state |-> "kActive", start |-> t + proto[a].remaining - Ttl[a]]
         /\ proto[a].state = "ACTIVATE_ON_BOOT" => r.act[a].state = "kActiveOnBoot"
         /\ proto[a].state = "absent" => r.act[a] = act[a]

\* loadActiveConfig keeps its promise, if no activation that is to wait for a boot is active.
LEMMA LoadFacts ==
    ASSUME NEW act \in Acts, NEW active \in Actives, NEW config \in BOOLEAN,
           NEW proto \in [Activations -> Proto], NEW t \in Int,
           Agree(act, active), config <=> (mIsAlwaysActive \/ \E m \in Metrics : active[m]),
           \A a \in Activations : proto[a].state = "ACTIVATE_ON_BOOT" => act[a].state # "kActive"
    PROVE  LoadOK(act, active, config, proto, t)
<1> DEFINE st == [a \in Activations |-> t + proto[a].remaining - Ttl[a]]
           n == loadActiveMetric(act, active, proto, t)
           r == loadActiveConfig(act, active, config, proto, t)
<1>1. /\ \A a \in Activations : proto[a].state = "ACTIVE" =>
           n.act[a] = [state |-> "kActive", start |-> st[a]]
      /\ \A a \in Activations : proto[a].state = "ACTIVATE_ON_BOOT" =>
           n.act[a] = [act[a] EXCEPT !.state = "kActiveOnBoot"]
      /\ \A a \in Activations : proto[a].state = "absent" => n.act[a] = act[a]
  BY Zenon DEF loadActiveMetric
<1>2. /\ n.active = [m \in Metrics |-> active[m] \/ \E a \in Of(m) : proto[a].state = "ACTIVE"]
      /\ n.act = [a \in Activations |-> n.act[a]]
  BY Zenon DEF loadActiveMetric
<1>3. /\ r.act = n.act /\ r.active = n.active
      /\ r.config = (config \/ \E m \in Metrics : n.active[m])
  BY Zenon DEF loadActiveConfig
<1>4a. \A a \in Activations : st[a] \in Int
  BY ActivationAssumption DEF Proto
<1> HIDE DEF n, r, st
<1>0. ASSUME NEW a \in Activations, proto[a].state = "ACTIVE"
      PROVE  /\ n.act[a].state = "kActive" /\ n.act[a].start = st[a]
             /\ n.act[a] \in [state : States, start : Int]
  <2>1. n.act[a] = [state |-> "kActive", start |-> st[a]]
    BY Zenon, <1>0, <1>1
  <2>2. st[a] \in Int
    BY Zenon, <1>4a
  <2> QED BY <2>1, <2>2 DEF States
<1>4. ASSUME NEW a \in Activations PROVE n.act[a] \in [state : States, start : Int]
  <2>1. act[a] \in [state : States, start : Int] /\ Ttl[a] \in Int
    BY ActivationAssumption DEF Acts
  <2>2. proto[a].state \in {"absent", "ACTIVE", "ACTIVATE_ON_BOOT"} /\ proto[a].remaining \in Int
    BY Zenon DEF Proto
  <2>3. CASE proto[a].state = "ACTIVE"
    BY Zenon, <2>3, <1>0
  <2>4. CASE proto[a].state = "ACTIVATE_ON_BOOT"
    BY Zenon, <2>1, <2>4, <1>1 DEF States
  <2>5. CASE proto[a].state = "absent"
    BY Zenon, <2>1, <2>5, <1>1
  <2> QED BY Zenon, <2>2, <2>3, <2>4, <2>5
<1>5. n.act \in Acts /\ n.active \in Actives
  BY Zenon, <1>2, <1>4 DEF Acts, Actives
<1>6. ASSUME NEW a \in Activations, proto[a].state = "ACTIVATE_ON_BOOT"
      PROVE  n.act[a].state = "kActiveOnBoot"
  BY Zenon, <1>1, <1>6 DEF Acts
<1>7. ASSUME NEW m \in Metrics PROVE n.active[m] <=> SomeActive(n.act, m)
  <2>1. n.active[m] <=> active[m] \/ \E a \in Of(m) : proto[a].state = "ACTIVE"
    BY Zenon, <1>2
  <2>2. active[m] <=> \E a \in Of(m) : act[a].state = "kActive"
    BY Zenon DEF Agree, SomeActive
  <2>3. \A a \in Activations : act[a].state = "kActive" => n.act[a].state = "kActive"
    <3> SUFFICES ASSUME NEW a \in Activations, act[a].state = "kActive"
                 PROVE  n.act[a].state = "kActive"
      BY Zenon
    <3>1. proto[a].state \in {"absent", "ACTIVE"}
      BY Zenon DEF Proto
    <3> QED BY Zenon, <3>1, <1>0, <1>1
  <2>4. \A a \in Activations :
          n.act[a].state = "kActive" => act[a].state = "kActive" \/ proto[a].state = "ACTIVE"
    BY Zenon, <1>1, <1>6 DEF Proto
  <2>5. \A a \in Activations : proto[a].state = "ACTIVE" => n.act[a].state = "kActive"
    BY Zenon, <1>0
  <2>6. \A a \in Of(m) : a \in Activations
    BY Zenon DEF Of
  <2> QED BY Zenon, <2>1, <2>2, <2>3, <2>4, <2>5, <2>6 DEF SomeActive
<1>8. \A m \in Metrics : active[m] => n.active[m]
  BY Zenon, <1>2
<1>9. r.config <=> (mIsAlwaysActive \/ \E m \in Metrics : r.active[m])
  BY Zenon, <1>3, <1>8
<1> QED BY <1>1, <1>3, <1>5, <1>6, <1>7, <1>9 DEF LoadOK, Agree, r, st

-----------------------------------------------------------------------------
(* The inductive invariant.                                                *)

\* An activation the death handler has not been overtaken on, while the handler has
\* not yet reset the configs: it is active up to its deadline.
Live(a) ==
    /\ activation[a].state = "kActive" => activation[a].start + Ttl[a] = deadline[a]
    /\ deadline[a] >= now => activation[a].state = "kActive"

\* What a proto says of an activation that should go on for `left'.
Says(entry, left) ==
    /\ entry.state = "ACTIVE" <=> left >= 0
    /\ entry.state = "ACTIVE" => entry.remaining = left

DeathOK ==
    /\ death.time <= now
    /\ ~up => death = Idle
    /\ \A a \in Activations : death.proto[a].state = "ACTIVATE_ON_BOOT" => a \in OnBoot
    /\ death.step = "reset" => \A a \in OnBoot : activation[a].state # "kActive"

\* Each activation that was not overtaken, by the step the death handler is at.
ActivationsOK ==
    up => \A a \in Activations \ raced :
            /\ death.step \in {"idle", "read"} => Live(a)
            /\ death.step = "reset" => activation[a].state # "kActive"
            /\ death.step # "idle" => Says(death.proto[a], deadline[a] - death.time)

FileOK ==
    /\ \A a \in Activations : file.proto[a].state # "ACTIVATE_ON_BOOT"
    /\ file.there => \A a \in Activations : owed[a] # Unknown => Says(file.proto[a], owed[a])

IInv == TypeOK /\ ActiveAgrees /\ DeathOK /\ ActivationsOK /\ FileOK

\* A config just read from disk.
LEMMA NewFacts ==
    /\ NewConfig.act = NewActivations /\ NewConfig.active = NewActive
    /\ NewConfig.config = mIsAlwaysActive
    /\ NewActivations \in Acts /\ NewActive \in Actives
    /\ \A a \in Activations : NewActivations[a].state = "kNotActive"
    /\ Agree(NewActivations, NewActive)
    /\ \A m \in Metrics : ~NewActive[m]
BY DEF NewConfig, NewActivations, NewActive, Acts, Actives, States, Agree, SomeActive, Of

\* An empty proto says nothing, nor does a file that is not there, nor a death handler
\* that is not at work.
LEMMA EmptyFacts ==
    /\ NoProto \in [Activations -> Proto]
    /\ \A a \in Activations : NoProto[a].state = "absent"
    /\ NoFile \in [there : BOOLEAN, proto : [Activations -> Proto]]
    /\ ~NoFile.there /\ NoFile.proto = NoProto
    /\ Idle \in [step : {"idle", "read", "reset"}, time : Nat, proto : [Activations -> Proto]]
    /\ Idle.step = "idle" /\ Idle.time = 0 /\ Idle.proto = NoProto
<1>1. /\ NoProto \in [Activations -> Proto]
      /\ \A a \in Activations : NoProto[a].state = "absent"
  BY DEF NoProto, Absent, Proto
<1> QED BY Zenon, <1>1 DEF NoFile, Idle

\* The times that stand for none and for an unknown one.
LEMMA TimeFacts == None \in Int /\ None < 0 /\ Unknown \in Int /\ Unknown < 0
BY DEF None, Unknown

\* The invariant holds when statsd first starts.
LEMMA InitInv == Init => IInv
<1> SUFFICES ASSUME Init PROVE IInv
  BY Zenon
<1>0. /\ activation = NewActivations /\ mIsActive = NewActive /\ configActive = mIsAlwaysActive
      /\ file = NoFile /\ mLastActiveMetricsWriteNs = 0
      /\ up = TRUE /\ death = Idle /\ now = 0
      /\ \A a \in Activations : deadline[a] = None
      /\ raced = {} /\ covered = TRUE
      /\ deadline \in [Activations -> Int] /\ owed \in [Activations -> Int]
  BY Zenon, TimeFacts DEF Init
<1>1. TypeOK
  <2>1. /\ activation \in Acts /\ mIsActive \in Actives /\ configActive \in BOOLEAN
        /\ \A a \in Activations : activation[a].state = "kNotActive"
    BY Zenon, <1>0, NewFacts, ActivationAssumption
  <2>2. /\ file \in [there : BOOLEAN, proto : [Activations -> Proto]]
        /\ death \in [step : {"idle", "read", "reset"}, time : Nat, proto : [Activations -> Proto]]
    BY Zenon, <1>0, EmptyFacts
  <2> QED BY Zenon, <1>0, <2>1, <2>2 DEF TypeOK, Acts, Actives
<1>2. ActiveAgrees
  BY Zenon, <1>0, NewFacts DEF ActiveAgrees, Agree
<1>3. DeathOK /\ FileOK
  BY <1>0, EmptyFacts DEF DeathOK, FileOK
<1>4. ActivationsOK
  <2>1. death.step = "idle" /\ now = 0 /\ None < 0 /\ None \in Int
    BY Zenon, <1>0, EmptyFacts, TimeFacts
  <2>2. ASSUME NEW a \in Activations PROVE Live(a)
    <3>1. activation[a].state = "kNotActive" /\ deadline[a] = None
      BY Zenon, <1>0, NewFacts
    <3> QED BY <2>1, <3>1 DEF Live
  <2> QED BY Zenon, <2>1, <2>2 DEF ActivationsOK
<1> QED BY Zenon, <1>1, <1>2, <1>3, <1>4 DEF IInv

\* OnLogEvent preserves the invariant.
LEMMA EventStep ==
    ASSUME IInv, NEW t \in EventTimes, NEW e \in Matches, NEW ttlOver \in BOOLEAN,
           OnLogEvent(t, e[1], e[2], ttlOver)
    PROVE  IInv'
<1> DEFINE D == e[1]
           S == e[2]
           act == IF ttlOver THEN NewActivations ELSE activation
           active == IF ttlOver THEN NewActive ELSE mIsActive
           r == onLogEvent(act, active, t, D, S)
<1>1. D \in SUBSET Activations /\ S \in SUBSET Activations
  BY Zenon, ActivationAssumption
<1>2. t \in Int /\ t >= 0 /\ t <= now /\ now \in Nat
  BY ActivationAssumption DEF EventTimes, IInv, TypeOK
<1>3. act \in Acts /\ active \in Actives /\ Agree(act, active)
  BY Zenon, NewFacts DEF IInv, TypeOK, Acts, Actives, ActiveAgrees, Agree
<1>4. up /\ Become(r)
  BY Zenon DEF OnLogEvent
<1> HIDE DEF D, S
<1>5. EventOK(act, active, t, D, S)
  BY Zenon, <1>1, <1>2, <1>3, EventFacts
<1>6. activation' = r.act /\ mIsActive' = r.active /\ configActive' = r.config
  BY Zenon, <1>4 DEF Become
<1>7. /\ activation' \in Acts /\ mIsActive' \in Actives /\ configActive' \in BOOLEAN
      /\ Agree(activation', mIsActive')
      /\ configActive' <=> (mIsAlwaysActive \/ \E m \in Metrics : mIsActive'[m])
      /\ \A a \in S \ OnBoot : activation'[a] = [state |-> "kActive", start |-> t]
      /\ \A a \in Activations \ (S \ OnBoot) :
           \/ activation'[a] = act[a] /\ (a \in D => act[a].state = "kNotActive")
           \/ activation'[a].state = "kNotActive"
                /\ (a \in D \/ (act[a].state = "kActive" /\ t > act[a].start + Ttl[a]))
           \/ a \in OnBoot /\ activation'[a].state = "kActiveOnBoot"
                /\ \/ a \in D \/ act[a].state = "kNotActive"
                   \/ act[a].state = "kActive" /\ t > act[a].start + Ttl[a]
  BY Zenon, <1>5, <1>6 DEF EventOK
<1> HIDE DEF r
<1>8. /\ UNCHANGED <<file, mLastActiveMetricsWriteNs, up, death, now, owed>>
      /\ covered' \in BOOLEAN
      /\ deadline' = [a \in Activations |->
           CASE a \in S \ OnBoot -> t + Ttl[a]
             [] a \notin S \ OnBoot /\ (ttlOver \/ a \in D) -> None
             [] OTHER -> deadline[a]]
      /\ raced' = CASE death.step # "idle" -> IF ttlOver THEN Activations ELSE raced \cup D \cup S
                    [] death.step = "idle" -> IF ttlOver THEN {} ELSE raced \ (D \cup (S \ OnBoot))
  BY Zenon DEF OnLogEvent, D, S
<1>9. ASSUME NEW a \in Activations
      PROVE  /\ a \in S \ OnBoot => deadline'[a] = t + Ttl[a]
             /\ a \notin S \ OnBoot /\ (ttlOver \/ a \in D) => deadline'[a] = None
             /\ a \notin S \ OnBoot /\ ~ttlOver /\ a \notin D => deadline'[a] = deadline[a]
  BY Zenon, <1>8
<1>10. deadline' \in [Activations -> Int]
  <2>1. ASSUME NEW a \in Activations PROVE deadline'[a] \in Int
    <3>1. Ttl[a] \in Int /\ deadline[a] \in Int /\ t + Ttl[a] \in Int
      BY <1>2, ActivationAssumption DEF IInv, TypeOK
    <3> QED BY Zenon, <1>9, <3>1, TimeFacts
  <2> QED BY Zenon, <2>1, <1>8
<1>11. /\ death.step = "idle" /\ ttlOver => raced' = {}
       /\ death.step = "idle" /\ ~ttlOver => raced' = raced \ (D \cup (S \ OnBoot))
       /\ death.step # "idle" /\ ttlOver => raced' = Activations
       /\ death.step # "idle" /\ ~ttlOver => raced' = raced \cup D \cup S
  BY Zenon, <1>8
<1>12. TypeOK'
  <2>1. raced' \subseteq Activations
    BY Zenon, <1>1, <1>11 DEF IInv, TypeOK
  <2>2. ASSUME NEW a \in Activations \ OnBoot PROVE activation'[a].state # "kActiveOnBoot"
    <3>1. act[a].state # "kActiveOnBoot"
      BY Zenon, NewFacts DEF IInv, TypeOK
    <3> HIDE DEF act
    <3>2. CASE a \in S \ OnBoot
      <4>1. activation'[a] = [state |-> "kActive", start |-> t]
        BY Zenon, <1>7, <3>2
      <4> QED BY <4>1
    <3>3. CASE a \notin S \ OnBoot
      <4>1. activation'[a] = act[a] \/ activation'[a].state = "kNotActive"
        BY Zenon, <1>7, <3>3
      <4> QED BY Zenon, <3>1, <4>1
    <3> QED BY Zenon, <3>2, <3>3
  <2> QED BY Zenon, <1>7, <1>8, <1>10, <2>1, <2>2 DEF IInv, TypeOK, Acts, Actives
<1>13. ActiveAgrees'
  BY Zenon, <1>7 DEF ActiveAgrees, Agree
<1>14. DeathOK'
  <2>1. ASSUME death.step = "reset", NEW a \in OnBoot PROVE activation'[a].state # "kActive"
    <3>1. act[a].state # "kActive" /\ a \in Activations
      BY Zenon, <2>1, NewFacts, ActivationAssumption DEF IInv, DeathOK
    <3> QED BY Zenon, <1>7, <3>1
  <2> QED BY Zenon, <1>8, <2>1 DEF IInv, DeathOK
<1>15. FileOK'
  BY Zenon, <1>8 DEF IInv, FileOK
<1>16. ActivationsOK'
  <2> SUFFICES ASSUME NEW a \in Activations \ raced'
               PROVE  /\ death.step \in {"idle", "read"} => Live(a)'
                      /\ death.step = "reset" => activation'[a].state # "kActive"
                      /\ death.step # "idle" => Says(death.proto[a], deadline'[a] - death.time)
    BY Zenon, <1>8 DEF ActivationsOK, Says
  <2>0. /\ now' = now /\ Ttl[a] \in Int /\ act[a].start \in Int /\ deadline[a] \in Int
        /\ death.step \in {"idle", "read", "reset"}
    BY <1>3, <1>8, ActivationAssumption DEF Acts, IInv, TypeOK
  <2>1. CASE death.step = "idle" /\ a \in S \ OnBoot
    <3>1. activation'[a] = [state |-> "kActive", start |-> t] /\ deadline'[a] = t + Ttl[a]
      BY Zenon, <2>1, <1>7, <1>9
    <3>2. activation'[a].state = "kActive" /\ activation'[a].start = t
      BY <3>1
    <3> QED BY Zenon, <2>1, <3>1, <3>2 DEF Live
  <2>2. CASE death.step = "idle" /\ a \notin S \ OnBoot /\ (ttlOver \/ a \in D)
    <3>1. deadline'[a] = None /\ activation'[a].state # "kActive"
      <4>1. deadline'[a] = None
        BY Zenon, <2>2, <1>9
      <4>2. a \notin D => act[a].state = "kNotActive"
        BY Zenon, <2>2, NewFacts
      <4> HIDE DEF act
      <4>3. activation'[a].state # "kActive"
        BY Zenon, <2>2, <4>2, <1>7
      <4> QED BY Zenon, <4>1, <4>3
    <3> QED BY <2>0, <2>2, <3>1, <1>2, TimeFacts DEF Live
  <2>3. CASE death.step \in {"idle", "read"} /\ a \notin S \ OnBoot /\ ~ttlOver /\ a \notin D
    <3>1. a \in Activations \ raced /\ act = activation
      BY Zenon, <2>3, <1>11
    <3>2. Live(a) /\ deadline'[a] = deadline[a]
      BY Zenon, <2>3, <3>1, <1>4, <1>9 DEF IInv, ActivationsOK
    <3> HIDE DEF act
    <3>3. Live(a)'
      <4>1. CASE activation'[a] = act[a]
        BY Zenon, <2>0, <3>1, <3>2, <4>1 DEF Live
      <4>2. CASE activation'[a].state = "kNotActive" /\ act[a].state = "kActive"
                 /\ t > act[a].start + Ttl[a]
        BY <2>0, <1>2, <3>1, <3>2, <4>2 DEF Live
      <4>3. CASE activation'[a].state = "kActiveOnBoot"
                 /\ \/ act[a].state = "kNotActive"
                    \/ act[a].state = "kActive" /\ t > act[a].start + Ttl[a]
        BY <2>0, <1>2, <3>1, <3>2, <4>3 DEF Live
      <4> QED BY Zenon, <2>3, <1>7, <4>1, <4>2, <4>3
    <3>4. death.step # "idle" => Says(death.proto[a], deadline'[a] - death.time)
      BY Zenon, <3>1, <3>2, <1>4 DEF IInv, ActivationsOK
    <3> QED BY Zenon, <2>3, <3>3, <3>4
  <2>4. CASE death.step # "idle" /\ (ttlOver \/ a \in D \/ a \in S)
    BY Zenon, <2>4, <1>11
  <2>5. CASE death.step = "reset" /\ ~ttlOver /\ a \notin D /\ a \notin S
    <3>1. a \in Activations \ raced /\ act = activation /\ deadline'[a] = deadline[a]
      BY Zenon, <2>5, <1>9, <1>11
    <3>2. activation[a].state # "kActive" /\ Says(death.proto[a], deadline[a] - death.time)
      BY Zenon, <2>5, <3>1, <1>4 DEF IInv, ActivationsOK
    <3> HIDE DEF act
    <3>3. activation'[a].state # "kActive"
      BY Zenon, <2>5, <3>1, <3>2, <1>7
    <3> QED BY Zenon, <2>5, <3>1, <3>2, <3>3
  <2> QED BY Zenon, <2>0, <2>1, <2>2, <2>3, <2>4, <2>5
<1> QED BY Zenon, <1>12, <1>13, <1>14, <1>15, <1>16 DEF IInv

\* SaveActiveConfigsToDisk leaves a file that says what is owed.
LEMMA SaveStep ==
    ASSUME IInv, up, NEW ok \in BOOLEAN, SaveActiveConfigsToDisk(ok)
    PROVE  /\ FileOK'
           /\ file' \in [there : BOOLEAN, proto : [Activations -> Proto]]
           /\ mLastActiveMetricsWriteNs' \in Nat /\ owed' \in [Activations -> Int]
<1>1. CASE now < mLastActiveMetricsWriteNs + CoolDown
  BY Zenon, <1>1 DEF SaveActiveConfigsToDisk, IInv, TypeOK, FileOK
<1>2. CASE ~(now < mLastActiveMetricsWriteNs + CoolDown)
  <2> DEFINE w == writeActiveMetric(activation, now, TRUE)
  <2>1. /\ mLastActiveMetricsWriteNs' = now
        /\ file' = IF ok THEN [there |-> TRUE, proto |-> w] ELSE NoFile
        /\ owed' = [a \in Activations |->
             IF a \in raced \/ death.step = "reset" THEN Unknown
             ELSE IF activation[a].state = "kActiveOnBoot" THEN Ttl[a]
             ELSE IF deadline[a] >= now THEN deadline[a] - now ELSE None]
    BY Zenon, <1>2 DEF SaveActiveConfigsToDisk
  <2>2. WriteOK(activation, now, TRUE)
    <3>1. activation \in Acts /\ now \in Int /\ TRUE \in BOOLEAN
      BY DEF IInv, TypeOK, Acts
    <3> QED BY Zenon, <3>1, WriteFacts
  <2>3. w \in [Activations -> Proto]
    BY Zenon, <2>2 DEF WriteOK
  <2> HIDE DEF w
  <2>4. ASSUME NEW a \in Activations PROVE owed'[a] \in Int
    <3>1. deadline[a] \in Int /\ now \in Int /\ Ttl[a] \in Int
      BY ActivationAssumption DEF IInv, TypeOK
    <3>2. deadline[a] - now \in Int
      BY <3>1
    <3> QED BY Zenon, <2>1, <3>1, <3>2, TimeFacts
  <2>5. /\ file' \in [there : BOOLEAN, proto : [Activations -> Proto]]
        /\ mLastActiveMetricsWriteNs' \in Nat /\ owed' \in [Activations -> Int]
    BY Zenon, <2>1, <2>3, <2>4, EmptyFacts DEF IInv, TypeOK
  <2>6. ASSUME NEW a \in Activations
        PROVE  /\ w[a].state # "ACTIVATE_ON_BOOT"
               /\ owed'[a] # Unknown => Says(w[a], owed'[a])
    <3>1. /\ deadline[a] \in Int /\ now \in Nat /\ Ttl[a] \in Nat
          /\ activation[a].start \in Int /\ activation[a].state \in States
      BY Zenon, ActivationAssumption DEF IInv, TypeOK
    <3>2. CASE activation[a].state = "kActiveOnBoot"
      <4>1. w[a] = [state |-> "ACTIVE", remaining |-> Ttl[a]]
        BY Zenon, <2>2, <3>2 DEF WriteOK, w
      <4>2. owed'[a] # Unknown => owed'[a] = Ttl[a]
        BY Zenon, <2>1, <3>2
      <4> QED BY <3>1, <4>1, <4>2 DEF Says
    <3>3. CASE activation[a].state # "kActiveOnBoot"
      <4>1. w[a].state # "ACTIVATE_ON_BOOT"
        <5>1. CASE activation[a].state = "kActive" /\ now <= activation[a].start + Ttl[a]
          <6> DEFINE left == activation[a].start + Ttl[a] - now
          <6>1. w[a] = [state |-> "ACTIVE", remaining |-> left]
            BY Zenon, <5>1, <2>2 DEF WriteOK, w
          <6> HIDE DEF left
          <6> QED BY <6>1
        <5>2. CASE ~(activation[a].state = "kActive" /\ now <= activation[a].start + Ttl[a])
          <6>1. w[a] = Absent
            BY Zenon, <5>2, <3>3, <2>2 DEF WriteOK, w
          <6> QED BY <6>1 DEF Absent
        <5> QED BY Zenon, <5>1, <5>2
      <4>2. ASSUME owed'[a] # Unknown PROVE Says(w[a], owed'[a])
        <5>1. /\ a \in Activations \ raced /\ death.step # "reset"
              /\ owed'[a] = IF deadline[a] >= now THEN deadline[a] - now ELSE None
          BY Zenon, <2>1, <3>3, <4>2
        <5>2. Live(a)
          BY Zenon, <5>1 DEF IInv, ActivationsOK, TypeOK
        <5>3. CASE deadline[a] >= now
          <6> DEFINE left == activation[a].start + Ttl[a] - now
          <6>1. activation[a].state = "kActive" /\ now <= activation[a].start + Ttl[a]
            BY Zenon, <5>2, <5>3 DEF Live
          <6>2. w[a] = [state |-> "ACTIVE", remaining |-> left]
            BY Zenon, <6>1, <2>2 DEF WriteOK, w
          <6>3. left = owed'[a] /\ left >= 0
            BY <3>1, <5>1, <5>2, <5>3, <6>1 DEF Live
          <6> HIDE DEF left
          <6> QED BY <6>2, <6>3 DEF Says
        <5>4. CASE ~(deadline[a] >= now)
          <6>1. ~(activation[a].state = "kActive" /\ now <= activation[a].start + Ttl[a])
            BY Zenon, <3>1, <5>2, <5>4 DEF Live
          <6>2. w[a] = Absent
            BY Zenon, <6>1, <3>3, <2>2 DEF WriteOK, w
          <6> QED BY <5>1, <5>4, <6>2, TimeFacts DEF Says, Absent
        <5> QED BY Zenon, <5>3, <5>4
      <4> QED BY Zenon, <4>1, <4>2
    <3> QED BY Zenon, <3>2, <3>3
  <2>7. FileOK'
    <3>1. CASE ok
      BY Zenon, <2>1, <2>6, <3>1 DEF FileOK, Says
    <3>2. CASE ~ok
      BY Zenon, <2>1, <3>2, EmptyFacts DEF FileOK
    <3> QED BY Zenon, <3>1, <3>2
  <2> QED BY Zenon, <2>5, <2>7
<1> QED BY Zenon, <1>1, <1>2

\* informDeviceShutdown preserves the invariant.
LEMMA InformStep ==
    ASSUME IInv, NEW ok \in BOOLEAN, informDeviceShutdown(ok)
    PROVE  IInv'
<1>1. /\ UNCHANGED <<activation, mIsActive, configActive, up, death, now, deadline, raced,
                     covered>>
      /\ up
  BY Zenon DEF informDeviceShutdown, daemon
<1>2. /\ FileOK'
      /\ file' \in [there : BOOLEAN, proto : [Activations -> Proto]]
      /\ mLastActiveMetricsWriteNs' \in Nat /\ owed' \in [Activations -> Int]
  BY Zenon, SaveStep DEF informDeviceShutdown
<1>3. TypeOK' /\ ActiveAgrees'
  BY <1>1, <1>2 DEF IInv, TypeOK, ActiveAgrees, SomeActive, Of
<1>4. DeathOK' /\ ActivationsOK'
  BY Zenon, <1>1 DEF IInv, DeathOK, ActivationsOK, Live, Says
<1> QED BY Zenon, <1>2, <1>3, <1>4 DEF IInv

\* The end of the process, after a save or not.
LEMMA ExitStep ==
    ASSUME IInv, Exit, FileOK',
           file' \in [there : BOOLEAN, proto : [Activations -> Proto]],
           mLastActiveMetricsWriteNs' \in Nat, owed' \in [Activations -> Int]
    PROVE  IInv'
<1>1. /\ up' = FALSE /\ death' = Idle /\ now' = now /\ covered' = covered
      /\ activation' = NewActivations /\ mIsActive' = NewActive
      /\ configActive' = mIsAlwaysActive
      /\ raced' = {}
  BY Zenon, NewFacts DEF Exit, Become
<1>2. deadline' \in [Activations -> Int]
  BY Zenon, TimeFacts DEF Exit
<1>3. TypeOK'
  <2>1. /\ activation' \in Acts /\ mIsActive' \in Actives /\ configActive' \in BOOLEAN
        /\ \A a \in Activations : activation'[a].state = "kNotActive"
    BY Zenon, <1>1, NewFacts, ActivationAssumption
  <2>2. death' \in [step : {"idle", "read", "reset"}, time : Nat, proto : [Activations -> Proto]]
    BY Zenon, <1>1, EmptyFacts
  <2>3. now \in Nat /\ covered \in BOOLEAN
    BY Zenon DEF IInv, TypeOK
  <2> QED BY Zenon, <1>1, <1>2, <2>1, <2>2, <2>3 DEF TypeOK, Acts, Actives
<1>4. ActiveAgrees'
  BY Zenon, <1>1, NewFacts DEF ActiveAgrees, Agree
<1>5. ActivationsOK'
  BY Zenon, <1>1 DEF ActivationsOK
<1>6. DeathOK'
  BY <1>1, EmptyFacts DEF IInv, TypeOK, DeathOK
<1> QED BY Zenon, <1>3, <1>4, <1>5, <1>6 DEF IInv

\* Startup preserves the invariant: what the file says becomes what is owed.
LEMMA StartupStep ==
    ASSUME IInv, NEW reboot \in BOOLEAN, NEW ok \in BOOLEAN, Startup(reboot, ok)
    PROVE  IInv'
<1>1. /\ up' = TRUE /\ death' = death /\ death = Idle /\ now' \in Nat
      /\ mLastActiveMetricsWriteNs' = 0 /\ file' = NoFile
      /\ covered' = covered /\ owed' = [a \in Activations |-> None]
  BY Zenon DEF Startup, IInv, TypeOK, DeathOK
<1>2. FileOK' /\ DeathOK'
  BY <1>1, EmptyFacts DEF FileOK, DeathOK
<1>3. CASE file.there /\ ok
  <2> DEFINE n == NewConfig
             r == loadActiveConfig(n.act, n.active, n.config, file.proto, now')
  <2>1. /\ Become(r)
        /\ deadline' = [a \in Activations |-> IF owed[a] >= 0 THEN now' + owed[a] ELSE None]
        /\ raced' = {a \in Activations : owed[a] = Unknown}
    BY Zenon, <1>3 DEF Startup
  <2>2. LoadOK(n.act, n.active, n.config, file.proto, now')
    <3>1. file.proto \in [Activations -> Proto]
      BY Zenon DEF IInv, TypeOK
    <3>2. /\ n.act \in Acts /\ n.active \in Actives /\ n.config \in BOOLEAN
          /\ Agree(n.act, n.active)
          /\ n.config <=> (mIsAlwaysActive \/ \E m \in Metrics : n.active[m])
          /\ \A a \in Activations : file.proto[a].state = "ACTIVATE_ON_BOOT" => n.act[a].state # "kActive"
      BY Zenon, NewFacts, ActivationAssumption
    <3>3. now' \in Int
      BY <1>1
    <3> HIDE DEF n
    <3> QED BY Zenon, <3>1, <3>2, <3>3, LoadFacts, Zenon
  <2>3. n.act = NewActivations
    BY Zenon, NewFacts
  <2> HIDE DEF n
  <2>4. /\ activation' \in Acts /\ mIsActive' \in Actives /\ configActive' \in BOOLEAN
        /\ Agree(activation', mIsActive')
        /\ configActive' <=> (mIsAlwaysActive \/ \E m \in Metrics : mIsActive'[m])
        /\ \A a \in Activations :
             /\ file.proto[a].state = "ACTIVE" =>
                  activation'[a] = [state |-> "kActive", start |-> now' + file.proto[a].remaining - Ttl[a]]
             /\ file.proto[a].state = "ACTIVATE_ON_BOOT" => activation'[a].state = "kActiveOnBoot"
             /\ file.proto[a].state = "absent" => activation'[a] = NewActivations[a]
    BY Zenon, <2>1, <2>2, <2>3 DEF LoadOK, Become
  <2>5. ASSUME NEW a \in Activations
        PROVE  /\ file.proto[a].state \in {"absent", "ACTIVE"} /\ file.proto[a].remaining \in Int
               /\ owed[a] \in Int /\ Ttl[a] \in Int
    <3>1. file.proto \in [Activations -> Proto] /\ owed \in [Activations -> Int]
      BY Zenon DEF IInv, TypeOK
    <3>2. file.proto[a].state # "ACTIVATE_ON_BOOT"
      BY Zenon DEF IInv, FileOK
    <3>3. file.proto[a] \in Proto /\ owed[a] \in Int
      BY Zenon, <3>1
    <3>4. Ttl[a] \in Int
      BY ActivationAssumption
    <3> QED BY Zenon, <3>2, <3>3, <3>4 DEF Proto
  <2>6. ASSUME NEW a \in Activations
        PROVE  /\ file.proto[a].state = "ACTIVE" =>
                    /\ activation'[a].state = "kActive"
                    /\ activation'[a].start = now' + file.proto[a].remaining - Ttl[a]
               /\ file.proto[a].state # "ACTIVE" => activation'[a].state = "kNotActive"
    <3> DEFINE st == now' + file.proto[a].remaining - Ttl[a]
    <3>1. file.proto[a].state = "ACTIVE" => activation'[a] = [state |-> "kActive", start |-> st]
      BY Zenon, <2>4
    <3> HIDE DEF st
    <3>2. file.proto[a].state = "ACTIVE" => activation'[a].state = "kActive" /\ activation'[a].start = st
      BY <3>1
    <3>3. file.proto[a].state # "ACTIVE" => activation'[a].state = "kNotActive"
      BY Zenon, <2>4, <2>5, NewFacts
    <3> QED BY Zenon, <3>2, <3>3 DEF st
  <2>7. deadline' \in [Activations -> Int]
    <3>1. ASSUME NEW a \in Activations PROVE deadline'[a] \in Int
      <4>1. now' + owed[a] \in Int
        BY <1>1, <2>5
      <4> QED BY Zenon, <2>1, <4>1, TimeFacts
    <3> QED BY Zenon, <2>1, <3>1
  <2>8. TypeOK'
    <3>1. \A a \in Activations : activation'[a].state # "kActiveOnBoot"
      BY Zenon, <2>6
    <3>2. raced' \subseteq Activations
      BY Zenon, <2>1
    <3>3. file' \in [there : BOOLEAN, proto : [Activations -> Proto]] /\ owed' \in [Activations -> Int]
      BY Zenon, <1>1, EmptyFacts, TimeFacts
    <3>4. death' \in [step : {"idle", "read", "reset"}, time : Nat, proto : [Activations -> Proto]]
          /\ covered' \in BOOLEAN
      BY Zenon, <1>1 DEF IInv, TypeOK
    <3> QED BY Zenon, <1>1, <2>4, <2>7, <3>1, <3>2, <3>3, <3>4 DEF TypeOK, Acts, Actives
  <2>9. ActiveAgrees'
    BY Zenon, <2>4 DEF ActiveAgrees, Agree
  <2>10. ActivationsOK'
    <3> SUFFICES ASSUME NEW a \in Activations \ raced' PROVE Live(a)'
      BY Zenon, <1>1, EmptyFacts DEF ActivationsOK
    <3>1. owed[a] # Unknown /\ Says(file.proto[a], owed[a])
      BY Zenon, <1>3, <2>1 DEF IInv, FileOK
    <3>2. CASE owed[a] >= 0
      <4>1. file.proto[a].state = "ACTIVE" /\ file.proto[a].remaining = owed[a]
        BY Zenon, <3>1, <3>2 DEF Says
      <4>2. deadline'[a] = now' + owed[a]
        BY Zenon, <2>1, <3>2
      <4> QED BY <1>1, <2>5, <2>6, <4>1, <4>2 DEF Live
    <3>3. CASE ~(owed[a] >= 0)
      <4>1. file.proto[a].state # "ACTIVE" /\ deadline'[a] = None
        BY Zenon, <2>1, <3>1, <3>3 DEF Says
      <4> QED BY <1>1, <2>6, <4>1, TimeFacts DEF Live
    <3> QED BY Zenon, <3>2, <3>3
  <2> QED BY Zenon, <1>2, <2>8, <2>9, <2>10 DEF IInv
<1>4. CASE ~(file.there /\ ok)
  <2>1. /\ activation' = NewActivations /\ mIsActive' = NewActive
        /\ configActive' = mIsAlwaysActive
        /\ deadline' = [a \in Activations |-> None] /\ raced' = {}
    BY Zenon, <1>4, NewFacts DEF Startup, Become
  <2>2. TypeOK'
    <3>1. /\ activation' \in Acts /\ mIsActive' \in Actives /\ configActive' \in BOOLEAN
          /\ \A a \in Activations : activation'[a].state = "kNotActive"
      BY Zenon, <2>1, NewFacts, ActivationAssumption
    <3>2. deadline' \in [Activations -> Int] /\ owed' \in [Activations -> Int]
      BY Zenon, <1>1, <2>1, TimeFacts
    <3>3. /\ file' \in [there : BOOLEAN, proto : [Activations -> Proto]]
          /\ death' \in [step : {"idle", "read", "reset"}, time : Nat, proto : [Activations -> Proto]]
      BY Zenon, <1>1, EmptyFacts
    <3>4. raced' \subseteq Activations /\ covered' \in BOOLEAN
      BY Zenon, <1>1, <2>1 DEF IInv, TypeOK
    <3> QED BY Zenon, <1>1, <3>1, <3>2, <3>3, <3>4 DEF TypeOK, Acts, Actives
  <2>3. ActiveAgrees'
    BY Zenon, <2>1, NewFacts DEF ActiveAgrees, Agree
  <2>4. ActivationsOK'
    <3>1. death'.step = "idle"
      BY Zenon, <1>1, EmptyFacts
    <3>2. ASSUME NEW a \in Activations PROVE Live(a)'
      <4>1. activation'[a].state = "kNotActive" /\ deadline'[a] = None
        BY Zenon, <2>1, NewFacts
      <4>2. ~(None >= now')
        BY <1>1, TimeFacts
      <4> QED BY Zenon, <4>1, <4>2 DEF Live
    <3> QED BY Zenon, <3>1, <3>2 DEF ActivationsOK
  <2> QED BY Zenon, <1>2, <2>2, <2>3, <2>4 DEF IInv
<1> QED BY Zenon, <1>3, <1>4

\* The first step of the death handler: its proto says what is owed.
LEMMA DeathReadStep == IInv /\ DeathRead => IInv'
<1> SUFFICES ASSUME IInv, DeathRead PROVE IInv'
  BY Zenon
<1>0. PICK w : w = writeActiveMetric(activation, now, FALSE)
  BY Zenon
<1>1. /\ up /\ death.step = "idle"
      /\ death' = [step |-> "read", time |-> now, proto |-> w]
      /\ UNCHANGED <<activation, mIsActive, configActive, file, mLastActiveMetricsWriteNs, up, now,
                     deadline, owed, raced, covered>>
  BY Zenon, <1>0 DEF DeathRead, daemon, history
<1>2. WriteOK(activation, now, FALSE)
  <2>1. activation \in Acts /\ now \in Int /\ FALSE \in BOOLEAN
    BY DEF IInv, TypeOK, Acts
  <2> QED BY Zenon, <2>1, WriteFacts
<1>3. w \in [Activations -> Proto]
  BY Zenon, <1>0, <1>2 DEF WriteOK
<1>4. death'.step = "read" /\ death'.time = now /\ death'.proto = w
  BY Zenon, <1>1
<1>5. TypeOK' /\ ActiveAgrees' /\ FileOK'
  <2>1. death' \in [step : {"idle", "read", "reset"}, time : Nat, proto : [Activations -> Proto]]
    BY Zenon, <1>1, <1>3 DEF IInv, TypeOK
  <2>2. TypeOK'
    BY Zenon, <1>1, <2>1 DEF IInv, TypeOK
  <2>3. ActiveAgrees'
    BY Zenon, <1>1 DEF IInv, ActiveAgrees, SomeActive
  <2>4. FileOK'
    BY Zenon, <1>1 DEF IInv, FileOK, Says
  <2> QED BY Zenon, <2>2, <2>3, <2>4
<1>6. ASSUME NEW a \in Activations
      PROVE  /\ w[a].state = "ACTIVATE_ON_BOOT" => a \in OnBoot
             /\ a \notin raced => Says(w[a], deadline[a] - now)
  <2>1. /\ deadline[a] \in Int /\ now \in Nat /\ Ttl[a] \in Nat
        /\ activation[a].start \in Int /\ activation[a].state \in States
    BY Zenon, ActivationAssumption DEF IInv, TypeOK
  <2>2. a \notin raced => Live(a)
    BY Zenon, <1>1 DEF IInv, ActivationsOK
  <2>3. CASE activation[a].state = "kActive" /\ now <= activation[a].start + Ttl[a]
    <3> DEFINE left == activation[a].start + Ttl[a] - now
    <3>1. w[a] = [state |-> "ACTIVE", remaining |-> left]
      BY Zenon, <2>3, <1>0, <1>2 DEF WriteOK
    <3>2. a \notin raced => left = deadline[a] - now /\ left >= 0
      BY <2>1, <2>2, <2>3 DEF Live
    <3> HIDE DEF left
    <3>3. w[a].state = "ACTIVE" /\ w[a].remaining = left
      BY <3>1
    <3> QED BY Zenon, <3>2, <3>3 DEF Says
  <2>4. CASE activation[a].state = "kActiveOnBoot"
    <3>1. w[a] = [state |-> "ACTIVATE_ON_BOOT", remaining |-> 0]
      BY Zenon, <2>4, <1>0, <1>2 DEF WriteOK
    <3>2. a \in OnBoot
      BY Zenon, <2>4 DEF IInv, TypeOK
    <3>3. a \notin raced => ~(deadline[a] - now >= 0)
      BY <2>1, <2>2, <2>4 DEF Live
    <3>4. w[a].state = "ACTIVATE_ON_BOOT"
      BY <3>1
    <3> QED BY Zenon, <3>2, <3>3, <3>4 DEF Says
  <2>5. CASE ~(activation[a].state = "kActive" /\ now <= activation[a].start + Ttl[a])
             /\ activation[a].state # "kActiveOnBoot"
    <3>1. w[a] = Absent
      BY Zenon, <2>5, <1>0, <1>2 DEF WriteOK
    <3>2. a \notin raced => ~(deadline[a] - now >= 0)
      BY <2>1, <2>2, <2>5 DEF Live
    <3>3. w[a].state # "ACTIVE" /\ w[a].state # "ACTIVATE_ON_BOOT"
      <4>1. Absent.state = "absent"
        BY Zenon DEF Absent
      <4> QED BY Zenon, <3>1, <4>1
    <3> QED BY Zenon, <3>2, <3>3 DEF Says
  <2> QED BY Zenon, <2>3, <2>4, <2>5
<1>7. DeathOK'
  BY <1>1, <1>4, <1>6 DEF IInv, TypeOK, DeathOK
<1>8. ActivationsOK'
  <2>1. ASSUME NEW a \in Activations \ raced PROVE Live(a)'
    BY Zenon, <1>1 DEF IInv, ActivationsOK, Live
  <2> QED BY Zenon, <1>1, <1>4, <1>6, <2>1 DEF ActivationsOK, Says
<1> QED BY Zenon, <1>5, <1>7, <1>8 DEF IInv

\* The second step: nothing is active, and the proto still says what is owed.
LEMMA DeathResetStep == IInv /\ DeathReset => IInv'
<1> SUFFICES ASSUME IInv, DeathReset PROVE IInv'
  BY Zenon
<1>1. /\ up /\ death.step = "read"
      /\ death' = [death EXCEPT !.step = "reset"]
      /\ activation' = NewActivations /\ mIsActive' = NewActive
      /\ configActive' = mIsAlwaysActive
      /\ UNCHANGED <<file, mLastActiveMetricsWriteNs, up, now, deadline, owed, raced, covered>>
  BY Zenon, NewFacts DEF DeathReset, Become, history
<1>2. death'.step = "reset" /\ death'.time = death.time /\ death'.proto = death.proto
  BY Zenon, <1>1 DEF IInv, TypeOK
<1>3. TypeOK'
  <2>1. /\ NewActivations \in Acts /\ NewActive \in Actives /\ mIsAlwaysActive \in BOOLEAN
        /\ \A a \in Activations : NewActivations[a].state = "kNotActive"
    BY Zenon, NewFacts, ActivationAssumption
  <2>2. death' \in [step : {"idle", "read", "reset"}, time : Nat, proto : [Activations -> Proto]]
    BY Zenon, <1>1 DEF IInv, TypeOK
  <2> QED BY Zenon, <1>1, <2>1, <2>2 DEF IInv, TypeOK, Acts, Actives
<1>4. ActiveAgrees' /\ FileOK'
  <2>1. ActiveAgrees'
    BY Zenon, <1>1, NewFacts, ActivationAssumption DEF ActiveAgrees, Agree
  <2>2. FileOK'
    BY Zenon, <1>1 DEF IInv, FileOK, Says
  <2> QED BY Zenon, <2>1, <2>2
<1>5. DeathOK'
  BY Zenon, <1>1, <1>2, NewFacts, ActivationAssumption DEF IInv, DeathOK
<1>6. ActivationsOK'
  BY <1>1, <1>2, NewFacts DEF IInv, ActivationsOK, Says
<1> QED BY Zenon, <1>3, <1>4, <1>5, <1>6 DEF IInv

\* The last step: what the proto says is active again, with the deadlines it had.
LEMMA DeathRestoreStep == IInv /\ DeathRestore => IInv'
<1> SUFFICES ASSUME IInv, DeathRestore PROVE IInv'
  BY Zenon
<1> DEFINE p == death.proto
           r == loadActiveConfig(activation, mIsActive, configActive, p, death.time)
<1>1. /\ up /\ death.step = "reset" /\ death' = Idle /\ Become(r)
      /\ UNCHANGED <<file, mLastActiveMetricsWriteNs, up, now, deadline, owed, raced, covered>>
  BY Zenon DEF DeathRestore, history
<1>2. p \in [Activations -> Proto] /\ death.time \in Nat /\ now \in Nat /\ death.time <= now
  BY Zenon DEF IInv, TypeOK, DeathOK
<1>3. LoadOK(activation, mIsActive, configActive, p, death.time)
  <2>1. /\ activation \in Acts /\ mIsActive \in Actives /\ configActive \in BOOLEAN
        /\ Agree(activation, mIsActive)
        /\ configActive <=> (mIsAlwaysActive \/ \E m \in Metrics : mIsActive[m])
    BY Zenon DEF IInv, TypeOK, Acts, Actives, ActiveAgrees, Agree
  <2>2. \A a \in Activations : p[a].state = "ACTIVATE_ON_BOOT" => activation[a].state # "kActive"
    BY Zenon, <1>1 DEF IInv, DeathOK
  <2>3. death.time \in Int
    BY <1>2
  <2> QED BY Zenon, <1>2, <2>1, <2>2, <2>3, LoadFacts, Zenon
<1>4. /\ activation' \in Acts /\ mIsActive' \in Actives /\ configActive' \in BOOLEAN
      /\ Agree(activation', mIsActive')
      /\ configActive' <=> (mIsAlwaysActive \/ \E m \in Metrics : mIsActive'[m])
      /\ \A a \in Activations :
           /\ p[a].state = "ACTIVE" =>
                activation'[a] = [state |-> "kActive", start |-> death.time + p[a].remaining - Ttl[a]]
           /\ p[a].state = "ACTIVATE_ON_BOOT" => activation'[a].state = "kActiveOnBoot"
           /\ p[a].state = "absent" => activation'[a] = activation[a]
  BY Zenon, <1>1, <1>3 DEF LoadOK, Become
<1>5. ASSUME NEW a \in Activations
      PROVE  /\ p[a].state = "ACTIVE" =>
                  /\ activation'[a].state = "kActive"
                  /\ activation'[a].start = death.time + p[a].remaining - Ttl[a]
             /\ p[a].state \in {"absent", "ACTIVE", "ACTIVATE_ON_BOOT"} /\ p[a].remaining \in Int
             /\ deadline[a] \in Int /\ Ttl[a] \in Int
  <2> DEFINE st == death.time + p[a].remaining - Ttl[a]
  <2>1. p[a].state = "ACTIVE" => activation'[a] = [state |-> "kActive", start |-> st]
    BY Zenon, <1>4
  <2> HIDE DEF st
  <2>2. p[a].state = "ACTIVE" => activation'[a].state = "kActive" /\ activation'[a].start = st
    BY <2>1
  <2>3. p[a].state \in {"absent", "ACTIVE", "ACTIVATE_ON_BOOT"} /\ p[a].remaining \in Int
    BY Zenon, <1>2 DEF Proto
  <2>4. deadline[a] \in Int /\ Ttl[a] \in Int
    BY ActivationAssumption DEF IInv, TypeOK
  <2> QED BY Zenon, <2>2, <2>3, <2>4 DEF st
<1> HIDE DEF r
<1>6. TypeOK'
  <2>1. \A a \in Activations \ OnBoot : activation'[a].state # "kActiveOnBoot"
    <3> SUFFICES ASSUME NEW a \in Activations \ OnBoot PROVE activation'[a].state # "kActiveOnBoot"
      BY Zenon
    <3>1. p[a].state # "ACTIVATE_ON_BOOT" /\ activation[a].state # "kActiveOnBoot"
      BY Zenon DEF IInv, DeathOK, TypeOK
    <3> QED BY Zenon, <3>1, <1>4, <1>5
  <2>2. death' \in [step : {"idle", "read", "reset"}, time : Nat, proto : [Activations -> Proto]]
    BY Zenon, <1>1, EmptyFacts
  <2> QED BY Zenon, <1>1, <1>4, <2>1, <2>2 DEF IInv, TypeOK, Acts, Actives
<1>7. ActiveAgrees' /\ FileOK'
  BY Zenon, <1>1, <1>4 DEF IInv, ActiveAgrees, Agree, FileOK, Says
<1>8. DeathOK'
  <2>1. death' = Idle /\ death'.step = "idle" /\ death'.time = 0 /\ death'.proto = NoProto
    BY Zenon, <1>1, EmptyFacts
  <2>2. \A a \in Activations : NoProto[a].state # "ACTIVATE_ON_BOOT"
    BY Zenon, EmptyFacts
  <2>3. 0 <= now' /\ up'
    BY <1>1 DEF IInv, TypeOK
  <2> QED BY Zenon, <2>1, <2>2, <2>3 DEF DeathOK
<1>9. ActivationsOK'
  <2> SUFFICES ASSUME NEW a \in Activations \ raced PROVE Live(a)'
    BY Zenon, <1>1, EmptyFacts DEF ActivationsOK
  <2>1. activation[a].state # "kActive" /\ Says(p[a], deadline[a] - death.time)
    BY Zenon, <1>1 DEF IInv, ActivationsOK
  <2>2. CASE p[a].state = "ACTIVE"
    <3>1. p[a].remaining = deadline[a] - death.time
      BY Zenon, <2>1, <2>2 DEF Says
    <3>2. /\ activation'[a].state = "kActive"
          /\ activation'[a].start = death.time + p[a].remaining - Ttl[a]
          /\ p[a].remaining \in Int /\ deadline[a] \in Int /\ Ttl[a] \in Int
      BY Zenon, <1>5, <2>2
    <3>3. activation'[a].start + Ttl[a] = deadline[a]
      BY <1>2, <3>1, <3>2
    <3>4. deadline'[a] = deadline[a]
      BY Zenon, <1>1
    <3> QED BY Zenon, <3>2, <3>3, <3>4 DEF Live
  <2>3. CASE p[a].state # "ACTIVE"
    <3>1. activation'[a].state # "kActive"
      BY Zenon, <1>4, <1>5, <2>1, <2>3
    <3>2. ~(deadline[a] - death.time >= 0)
      BY Zenon, <2>1, <2>3 DEF Says
    <3>3. deadline[a] \in Int
      BY Zenon, <1>5
    <3>4. ~(deadline[a] >= now)
      BY <1>2, <3>2, <3>3
    <3>5. deadline'[a] = deadline[a] /\ now' = now
      BY Zenon, <1>1
    <3> QED BY Zenon, <3>1, <3>4, <3>5 DEF Live
  <2> QED BY Zenon, <2>2, <2>3
<1> QED BY Zenon, <1>6, <1>7, <1>8, <1>9 DEF IInv

\* Time passing preserves the invariant.
LEMMA TickStep == IInv /\ Tick => IInv'
<1> SUFFICES ASSUME IInv, Tick PROVE IInv'
  BY Zenon
<1>1. /\ now' = now + 1 /\ now \in Nat
      /\ UNCHANGED <<activation, mIsActive, configActive, file, mLastActiveMetricsWriteNs, up, death,
                     deadline, owed, raced, covered>>
  BY Zenon DEF Tick, daemon, history, IInv, TypeOK
<1>2. TypeOK' /\ ActiveAgrees' /\ FileOK'
  BY <1>1 DEF IInv, TypeOK, ActiveAgrees, SomeActive, Of, FileOK, Says
<1>3. DeathOK'
  BY <1>1 DEF IInv, TypeOK, DeathOK
<1>4. ActivationsOK'
  BY <1>1 DEF IInv, TypeOK, ActivationsOK, Live, Says
<1> QED BY Zenon, <1>2, <1>3, <1>4 DEF IInv

\* No activation of a new config is active.
LEMMA NewInactive == \A a \in OnBoot : NewActivations[a].state # "kActive"
BY Zenon, ActivationAssumption DEF NewActivations

\* Every step preserves the invariant.
LEMMA Inductive == IInv /\ [Next]_vars => IInv'
<1> SUFFICES ASSUME IInv, [Next]_vars PROVE IInv'
  BY Zenon
<1>1. CASE \E t \in EventTimes, e \in Matches, ttlOver \in BOOLEAN : OnLogEvent(t, e[1], e[2], ttlOver)
  BY Zenon, <1>1, EventStep
<1>2. CASE \E ok \in BOOLEAN : informDeviceShutdown(ok)
  BY Zenon, <1>2, InformStep
<1>3. CASE \E ok \in BOOLEAN : Terminate(ok)
  <2> PICK ok \in BOOLEAN : Terminate(ok)
    BY Zenon, <1>3
  <2>1. up /\ SaveActiveConfigsToDisk(ok) /\ Exit
    BY Zenon DEF Terminate, Exit
  <2> QED BY Zenon, <2>1, SaveStep, ExitStep
<1>4. CASE Crash
  <2>1. /\ Exit /\ UNCHANGED <<file, mLastActiveMetricsWriteNs, owed>>
    BY Zenon, <1>4 DEF Crash
  <2>2. /\ FileOK'
        /\ file' \in [there : BOOLEAN, proto : [Activations -> Proto]]
        /\ mLastActiveMetricsWriteNs' \in Nat /\ owed' \in [Activations -> Int]
    BY Zenon, <2>1 DEF IInv, TypeOK, FileOK, Says
  <2> QED BY Zenon, <2>1, <2>2, ExitStep
<1>5. CASE \E reboot, ok \in BOOLEAN : Startup(reboot, ok)
  BY Zenon, <1>5, StartupStep
<1>6. CASE DeathRead \/ DeathReset \/ DeathRestore \/ Tick
  BY Zenon, <1>6, DeathReadStep, DeathResetStep, DeathRestoreStep, TickStep
<1>7. CASE UNCHANGED vars
  BY Zenon, <1>7 DEF vars, daemon, history, IInv, TypeOK, ActiveAgrees, SomeActive, Of, FileOK, Says,
              DeathOK, ActivationsOK, Live
<1> QED BY Zenon, <1>1, <1>2, <1>3, <1>4, <1>5, <1>6, <1>7 DEF Next

\* After an event every active metric has an activation that covers the time of the
\* event, and no activation on boot became active.
LEMMA EventCovered ==
    ASSUME IInv, NEW t \in EventTimes, NEW e \in Matches, NEW ttlOver \in BOOLEAN,
           OnLogEvent(t, e[1], e[2], ttlOver)
    PROVE  /\ covered'
           /\ \A a \in OnBoot : activation[a].state # "kActive" => activation'[a].state # "kActive"
<1> DEFINE D == e[1]
           S == e[2]
           act == IF ttlOver THEN NewActivations ELSE activation
           active == IF ttlOver THEN NewActive ELSE mIsActive
           r == onLogEvent(act, active, t, D, S)
<1>1. D \in SUBSET Activations /\ S \in SUBSET Activations /\ t \in Int
  BY ActivationAssumption DEF EventTimes
<1>2. act \in Acts /\ active \in Actives /\ Agree(act, active)
  BY Zenon, NewFacts DEF IInv, TypeOK, Acts, Actives, ActiveAgrees, Agree
<1>3. /\ Become(r)
      /\ covered' = \A m \in Metrics : mIsActive'[m] =>
                       \E a \in Of(m) : activation'[a].state = "kActive"
                                          /\ t <= activation'[a].start + Ttl[a]
  BY Zenon DEF OnLogEvent
<1> HIDE DEF D, S
<1>4. EventOK(act, active, t, D, S)
  BY Zenon, <1>1, <1>2, EventFacts
<1>5. activation' = r.act /\ mIsActive' = r.active
  BY Zenon, <1>3 DEF Become
<1>6. /\ \A m \in Metrics : mIsActive'[m] => SomeActive(activation', m)
      /\ \A a \in Activations : InTime(activation'[a], a, t)
      /\ \A a \in Activations \ (S \ OnBoot) :
           activation'[a] = act[a] \/ activation'[a].state # "kActive"
  BY Zenon, <1>4, <1>5 DEF EventOK, Agree
<1> HIDE DEF r
<1>7. ASSUME NEW m \in Metrics, mIsActive'[m]
      PROVE  \E a \in Of(m) : activation'[a].state = "kActive" /\ t <= activation'[a].start + Ttl[a]
  <2>1. PICK a \in Of(m) : activation'[a].state = "kActive"
    BY Zenon, <1>6, <1>7 DEF SomeActive
  <2>2. a \in Activations
    BY Zenon DEF Of
  <2> QED BY Zenon, <2>1, <2>2, <1>6 DEF InTime
<1>8. ASSUME NEW a \in OnBoot, activation[a].state # "kActive" PROVE activation'[a].state # "kActive"
  <2>1. a \in Activations \ (S \ OnBoot)
    BY Zenon, ActivationAssumption
  <2>2. act[a].state # "kActive"
    BY Zenon, <1>8, <2>1, NewInactive
  <2> HIDE DEF act
  <2> QED BY Zenon, <2>1, <2>2, <1>6
<1> QED BY Zenon, <1>3, <1>7, <1>8

-----------------------------------------------------------------------------
(* The theorems.                                                           *)

\* For any metrics, activations, TTLs and times: the variables keep their types, and
\* the activations, MetricProducer::mIsActive and MetricsManager::mIsActive agree
\* whenever no handler holds mMetricsMutex.
THEOREM ActiveStateAgrees == Spec => [](TypeOK /\ ActiveAgrees)
<1>1. IInv => TypeOK /\ ActiveAgrees
  BY Zenon DEF IInv
<1> QED BY InitInv, Inductive, <1>1, PTL DEF Spec

\* An activation the death handler was not overtaken on ends exactly when its TTL is
\* over, counted from its last activation event and across restarts of statsd and of
\* the system server.
THEOREM DeadlinesKept == Spec => []DeadlineKept
<1>1. IInv => DeadlineKept
  BY Zenon DEF IInv, ActivationsOK, DeadlineKept, Live
<1> QED BY InitInv, Inductive, <1>1, PTL DEF Spec

\* Metrics count only while an activation lasts, and an activation of type
\* ACTIVATE_ON_BOOT becomes active only when statsd starts or when the death handler
\* restores what it found active.
THEOREM ActiveOnlyInTime == Spec => ActiveInTime
<1> DEFINE BootOnly ==
             \A a \in OnBoot :
               activation[a].state # "kActive" /\ activation'[a].state = "kActive" =>
                 ~up \/ (death.step = "reset" /\ death.proto[a].state = "ACTIVE")
<1>1. Init => CountsOnlyWhileActive
  BY Zenon DEF Init, CountsOnlyWhileActive
<1>2. ASSUME IInv, CountsOnlyWhileActive, [Next]_vars PROVE CountsOnlyWhileActive' /\ BootOnly
  <2> USE <1>2
  <2>1. CASE \E t \in EventTimes, e \in Matches, ttlOver \in BOOLEAN :
               OnLogEvent(t, e[1], e[2], ttlOver)
    <3>1. PICK t \in EventTimes, e \in Matches, ttlOver \in BOOLEAN :
                 OnLogEvent(t, e[1], e[2], ttlOver)
      BY Zenon, <2>1
    <3> QED BY Zenon, <3>1, EventCovered DEF CountsOnlyWhileActive
  <2>2. CASE \E ok \in BOOLEAN : informDeviceShutdown(ok)
    BY Zenon, <2>2 DEF informDeviceShutdown, daemon, CountsOnlyWhileActive
  <2>3. CASE (\E ok \in BOOLEAN : Terminate(ok)) \/ Crash
    <3>1. Exit
      BY Zenon, <2>3 DEF Terminate, Crash
    <3> QED BY Zenon, <3>1, NewInactive DEF Exit, Become, NewConfig, CountsOnlyWhileActive
  <2>4. CASE \E reboot, ok \in BOOLEAN : Startup(reboot, ok)
    <3>1. ~up /\ covered' = covered
      BY Zenon, <2>4 DEF Startup
    <3> QED BY Zenon, <3>1 DEF CountsOnlyWhileActive
  <2>5. CASE DeathRead \/ Tick \/ UNCHANGED vars
    <3>1. activation' = activation /\ covered' = covered
      BY Zenon, <2>5 DEF DeathRead, Tick, vars, daemon, history
    <3> QED BY Zenon, <3>1 DEF CountsOnlyWhileActive
  <2>6. CASE DeathReset
    BY Zenon, <2>6, NewInactive DEF DeathReset, Become, NewConfig, history, CountsOnlyWhileActive
  <2>7. CASE DeathRestore
    <3>1. covered' = covered /\ death.step = "reset"
          /\ activation' = loadActiveMetric(activation, mIsActive, death.proto, death.time).act
      BY Zenon, <2>7 DEF DeathRestore, Become, loadActiveConfig, history
    <3>2. ASSUME NEW a \in OnBoot, activation[a].state # "kActive", activation'[a].state = "kActive"
          PROVE  death.proto[a].state = "ACTIVE"
      <4>1. a \in Activations /\ activation[a] \in [state : States, start : Int]
        BY Zenon, ActivationAssumption DEF IInv, TypeOK
      <4>2. SUFFICES ASSUME death.proto[a].state # "ACTIVE" PROVE FALSE
        BY Zenon
      <4>3. CASE death.proto[a].state = "ACTIVATE_ON_BOOT"
        <5>1. activation'[a] = [activation[a] EXCEPT !.state = "kActiveOnBoot"]
          BY Zenon, <3>1, <4>1, <4>3 DEF loadActiveMetric
        <5> QED BY Zenon, <3>2, <4>1, <5>1
      <4>4. CASE death.proto[a].state # "ACTIVATE_ON_BOOT"
        <5>1. activation'[a] = activation[a]
          BY Zenon, <3>1, <4>1, <4>2, <4>4 DEF loadActiveMetric
        <5> QED BY Zenon, <3>2, <5>1
      <4> QED BY Zenon, <4>3, <4>4
    <3> QED BY Zenon, <3>1, <3>2 DEF CountsOnlyWhileActive
  <2> QED BY Zenon, <2>1, <2>2, <2>3, <2>4, <2>5, <2>6, <2>7 DEF Next
<1>3. IInv /\ CountsOnlyWhileActive /\ [Next]_vars =>
        IInv' /\ CountsOnlyWhileActive' /\ [CountsOnlyWhileActive' /\ BootOnly]_vars
  BY Zenon, <1>2, Inductive
<1> QED BY InitInv, <1>1, <1>3, PTL DEF Spec, ActiveInTime
=============================================================================
