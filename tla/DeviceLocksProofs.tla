-------------------------- MODULE DeviceLocksProofs --------------------------
(***************************************************************************)
(* Theorems about the device locks, for any workers, any accelerators and  *)
(* any way in which the workers share them.                                *)
(*                                                                         *)
(* The inductive invariant says for each lock who may own it (Own), that   *)
(* its waiters are calls that still want it (Wait), that a woken waiter    *)
(* finds it free (Wake), and for each callback of the event loop the state *)
(* it will find when it runs (Calls), no two of them being about the same  *)
(* worker and lock (Uniq).                                                 *)
(*                                                                         *)
(* With it, the order of the workers in the lines of the locks is kept: a  *)
(* worker is put behind all others in all of its lines at once, when it    *)
(* calls and when its tasks are created, and no other callback changes who *)
(* stands before whom (Onward).                                            *)
(***************************************************************************)
EXTENDS DeviceLocks, TLAPS

Apart(e, f) == e.w = f.w => e.d # f.d /\ e.d # Nobody /\ f.d # Nobody
Uniq(q) == \A i, j \in 1 .. Len(q) : i # j => Apart(q[i], q[j])

\* What a callback will find when it runs.
CallOK(e) ==
    /\ e.op \in {"acquire_devices", "release_devices"} => e.d = Nobody /\ pending[e.w] = Devices(e.w)
    /\ e.op \in {"acquire_devices", "lock", "resume"} => wpc[e.w] = "acquiring"
    /\ e.op \in {"release_devices", "unlock"} => wpc[e.w] = "releasing"
    /\ e.op \in {"lock", "resume", "unlock"} => e.d \in Device /\ e.d \in pending[e.w]
    /\ e.op \in {"acquire_devices", "lock"} =>
         \A d \in Device : e.d \in {Nobody, d} => \A i \in 1 .. Len(waiters[d]) : waiters[d][i] # e.w
    /\ e.op = "resume" => /\ woken[e.d] /\ waiters[e.d] # <<>> /\ Head(waiters[e.d]) = e.w

Calls == \A i \in 1 .. Len(ready) : CallOK(ready[i])

Pend == \A w \in Worker : pending[w] \subseteq Devices(w)
                         /\ (wpc[w] \in {"idle", "holding"} => pending[w] = {})

Has(w, d) ==
    /\ d \in Devices(w)
    /\ \/ wpc[w] \in {"acquiring", "holding"} /\ d \notin pending[w]
       \/ wpc[w] = "releasing" /\ d \in pending[w]

Own == \A d \in Device : /\ locked[d] = (owner[d] # Nobody)
                         /\ \A w \in Worker : owner[d] = w <=> Has(w, d)

Wait == \A d \in Device : \A i \in 1 .. Len(waiters[d]) :
            /\ wpc[waiters[d][i]] = "acquiring" /\ d \in pending[waiters[d][i]]
            /\ \A j \in 1 .. Len(waiters[d]) : waiters[d][i] = waiters[d][j] => i = j

Wake == \A d \in Device : woken[d] => owner[d] = Nobody /\ waiters[d] # <<>>

LockInv ==
    /\ LocksTypeOK /\ NoFailure /\ Uniq(ready) /\ Calls /\ Pend /\ Own /\ Wait /\ Wake

-----------------------------------------------------------------------------
\* Facts about queues of callbacks.

LEMMA TailElements ==
    ASSUME NEW S, NEW s \in Seq(S), s # <<>>
    PROVE  /\ Head(s) = s[1] /\ Head(s) \in S /\ 1 \in 1 .. Len(s)
           /\ Tail(s) \in Seq(S) /\ Len(Tail(s)) = Len(s) - 1
           /\ \A i \in 1 .. Len(Tail(s)) : i + 1 \in 1 .. Len(s) /\ Tail(s)[i] = s[i + 1]
OBVIOUS

LEMMA AppendElements ==
    ASSUME NEW S, NEW s \in Seq(S), NEW e \in S
    PROVE  /\ Append(s, e) \in Seq(S) /\ Len(Append(s, e)) = Len(s) + 1
           /\ \A i \in 1 .. Len(Append(s, e)) :
                \/ i \in 1 .. Len(s) /\ Append(s, e)[i] = s[i]
                \/ i = Len(s) + 1 /\ Append(s, e)[i] = e
OBVIOUS

LEMMA ConcatElements ==
    ASSUME NEW S, NEW s \in Seq(S), NEW t \in Seq(S)
    PROVE  /\ s \o t \in Seq(S) /\ Len(s \o t) = Len(s) + Len(t)
           /\ \A i \in 1 .. Len(s \o t) :
                \/ i \in 1 .. Len(s) /\ (s \o t)[i] = s[i]
                \/ i - Len(s) \in 1 .. Len(t) /\ (s \o t)[i] = t[i - Len(s)]
OBVIOUS

\* The callbacks after the first one are about other workers or locks.
LEMMA UniqTail ==
    ASSUME NEW s \in Seq(Callback), s # <<>>, Uniq(s)
    PROVE  /\ Uniq(Tail(s))
           /\ \A i \in 1 .. Len(Tail(s)) : Apart(Tail(s)[i], Head(s))
<1>1. /\ Head(s) = s[1] /\ 1 \in 1 .. Len(s) /\ Len(Tail(s)) \in Nat
      /\ \A i \in 1 .. Len(Tail(s)) : i + 1 \in 1 .. Len(s) /\ Tail(s)[i] = s[i + 1]
  BY TailElements
<1>2. Uniq(Tail(s))
  BY <1>1 DEF Uniq
<1> QED BY <1>1, <1>2 DEF Uniq

LEMMA UniqAppend ==
    ASSUME NEW s \in Seq(Callback), Uniq(s), NEW e \in Callback,
           \A i \in 1 .. Len(s) : Apart(s[i], e)
    PROVE  Uniq(Append(s, e))
<1>1. /\ Len(s) \in Nat /\ Len(Append(s, e)) = Len(s) + 1
      /\ \A i \in 1 .. Len(Append(s, e)) :
            \/ i \in 1 .. Len(s) /\ Append(s, e)[i] = s[i]
            \/ i = Len(s) + 1 /\ Append(s, e)[i] = e
  BY AppendElements
<1>2. \A i \in 1 .. Len(s) : Apart(e, s[i])
  BY DEF Apart
<1> QED BY <1>1, <1>2 DEF Uniq

LEMMA UniqConcat ==
    ASSUME NEW s \in Seq(Callback), Uniq(s), NEW t \in Seq(Callback), Uniq(t),
           \A i \in 1 .. Len(s), j \in 1 .. Len(t) : Apart(s[i], t[j])
    PROVE  Uniq(s \o t)
<1>1. /\ Len(s) \in Nat /\ Len(t) \in Nat /\ Len(s \o t) = Len(s) + Len(t)
      /\ \A i \in 1 .. Len(s \o t) :
            \/ i \in 1 .. Len(s) /\ (s \o t)[i] = s[i]
            \/ i - Len(s) \in 1 .. Len(t) /\ (s \o t)[i] = t[i - Len(s)]
  BY ConcatElements
<1>2. \A i \in 1 .. Len(s), j \in 1 .. Len(t) : Apart(t[j], s[i])
  BY DEF Apart
<1> SUFFICES ASSUME NEW i \in 1 .. Len(s \o t), NEW j \in 1 .. Len(s \o t), i # j
             PROVE  Apart((s \o t)[i], (s \o t)[j])
  BY DEF Uniq
<1>3. CASE i \in 1 .. Len(s) /\ (s \o t)[i] = s[i]
  <2>1. CASE j \in 1 .. Len(s) /\ (s \o t)[j] = s[j]
    BY <1>3, <2>1 DEF Uniq
  <2>2. CASE j - Len(s) \in 1 .. Len(t) /\ (s \o t)[j] = t[j - Len(s)]
    BY <1>3, <2>2
  <2> QED BY <1>1, <2>1, <2>2
<1>4. CASE i - Len(s) \in 1 .. Len(t) /\ (s \o t)[i] = t[i - Len(s)]
  <2>1. CASE j \in 1 .. Len(s) /\ (s \o t)[j] = s[j]
    BY <1>2, <1>4, <2>1
  <2>2. CASE j - Len(s) \in 1 .. Len(t) /\ (s \o t)[j] = t[j - Len(s)]
    <3>1. i - Len(s) # j - Len(s)
      BY <1>1
    <3> QED BY <1>4, <2>2, <3>1 DEF Uniq
  <2> QED BY <1>1, <2>1, <2>2
<1> QED BY <1>1, <1>3, <1>4

LEMMA DevicesType ==
    ASSUME NEW w \in Worker
    PROVE  /\ Accels[w] \in Seq(Device) /\ Devices(w) \subseteq Device
           /\ \A i \in 1 .. Len(Accels[w]) : Accels[w][i] \in Devices(w)
           /\ \A i, j \in 1 .. Len(Accels[w]) : Accels[w][i] = Accels[w][j] => i = j
<1>1. Accels[w] \in Seq(Device) /\ DOMAIN Accels[w] = 1 .. Len(Accels[w])
  BY LocksAssumption
<1> QED BY <1>1, LocksAssumption DEF Devices

\* The callbacks that have not run, when the first of them does.
LEMMA RestOK ==
    ASSUME LockInv, NEW e, ready # <<>>, e = Head(ready)
    PROVE  /\ e \in Callback /\ CallOK(e)
           /\ Tail(ready) \in Seq(Callback) /\ Uniq(Tail(ready))
           /\ \A i \in 1 .. Len(Tail(ready)) :
                 /\ Tail(ready)[i] \in Callback /\ CallOK(Tail(ready)[i])
                 /\ Apart(Tail(ready)[i], e)
<1>1. ready \in Seq(Callback) /\ Uniq(ready)
  BY DEF LockInv, LocksTypeOK
<1>2. /\ e = ready[1] /\ e \in Callback /\ 1 \in 1 .. Len(ready)
      /\ Tail(ready) \in Seq(Callback)
      /\ \A i \in 1 .. Len(Tail(ready)) : i + 1 \in 1 .. Len(ready) /\ Tail(ready)[i] = ready[i + 1]
  BY <1>1, TailElements
<1>3. CallOK(e) /\ \A i \in 1 .. Len(Tail(ready)) : CallOK(Tail(ready)[i])
  BY <1>2 DEF LockInv, Calls
<1>4. Uniq(Tail(ready)) /\ \A i \in 1 .. Len(Tail(ready)) : Apart(Tail(ready)[i], e)
  BY <1>1, UniqTail
<1>5. \A i \in 1 .. Len(Tail(ready)) : Tail(ready)[i] \in Callback
  BY <1>2
<1> QED BY <1>2, <1>3, <1>4, <1>5

-----------------------------------------------------------------------------
\* The steps of the workers

LEMMA InitInv == ASSUME LocksInit PROVE LockInv
<1>1. LocksTypeOK
  BY DEF LocksInit, LocksTypeOK, Callback
<1>2. NoFailure /\ Uniq(ready) /\ Calls /\ Wait /\ Wake
  BY DEF LocksInit, NoFailure, Uniq, Calls, Wait, Wake
<1>3. Pend /\ Own
  BY LocksAssumption DEF LocksInit, Pend, Own, Has
<1> QED BY <1>1, <1>2, <1>3 DEF LockInv

\* A worker that waits for no answer has no callback and is no waiter.
LEMMA QuietWorker ==
    ASSUME LockInv, NEW w \in Worker, wpc[w] \in {"idle", "holding"}
    PROVE  /\ \A i \in 1 .. Len(ready) : ready[i].w # w
           /\ \A d \in Device : \A i \in 1 .. Len(waiters[d]) : waiters[d][i] # w
<1>1. ASSUME NEW i \in 1 .. Len(ready) PROVE ready[i].w # w
  <2>1. ready[i] \in Callback /\ CallOK(ready[i])
    BY DEF LockInv, LocksTypeOK, Calls
  <2> QED BY <2>1 DEF CallOK, Callback, Op
<1>2. \A d \in Device : \A i \in 1 .. Len(waiters[d]) : waiters[d][i] # w
  BY DEF LockInv, Wait
<1> QED BY <1>1, <1>2

\* A callback of a worker that a step leaves alone.
LEMMA CallFrame ==
    ASSUME NEW c, CallOK(c), wpc'[c.w] = wpc[c.w], pending'[c.w] = pending[c.w],
           waiters' = waiters, woken' = woken
    PROVE  CallOK(c)'
BY DEF CallOK, Devices

LEMMA AskInv ==
    ASSUME LockInv, NEW w \in Worker, AcquireLocks(w) \/ ReleaseLocks(w)
    PROVE  LockInv'
<1>1. /\ wpc[w] \in {"idle", "holding"}
      /\ wpc' = [wpc EXCEPT ![w] = IF wpc[w] = "idle" THEN "acquiring" ELSE "releasing"]
      /\ pending' = [pending EXCEPT ![w] = Devices(w)]
      /\ UNCHANGED <<locked, owner, waiters, woken>>
  BY DEF AcquireLocks, ReleaseLocks, Ask
<1>2. /\ wpc \in [Worker -> {"idle", "acquiring", "holding", "releasing", "failed"}]
      /\ pending \in [Worker -> SUBSET Device]
      /\ waiters \in [Device -> Seq(Worker)] /\ ready \in Seq(Callback)
  BY DEF LockInv, LocksTypeOK
<1>3. /\ \A i \in 1 .. Len(ready) : ready[i].w # w
      /\ \A d \in Device : \A i \in 1 .. Len(waiters[d]) : waiters[d][i] # w
  BY <1>1, QuietWorker
<1>4. PICK c \in Callback :
        /\ c.w = w /\ c.d = Nobody
        /\ c.op = IF wpc[w] = "idle" THEN "acquire_devices" ELSE "release_devices"
        /\ ready' = Append(ready, c)
  BY DEF AcquireLocks, ReleaseLocks, Ask, LockCall, Callback, Op
<1>5. LocksTypeOK'
  <2>1. ready' \in Seq(Callback)
    BY <1>2, <1>4, AppendElements
  <2>2. Devices(w) \subseteq Device
    BY DevicesType
  <2> QED BY <1>1, <1>2, <2>1, <2>2 DEF LockInv, LocksTypeOK
<1>6. NoFailure'
  BY <1>1, <1>2 DEF LockInv, NoFailure
<1>7. Uniq(ready)'
  <2>1. Uniq(ready) /\ \A i \in 1 .. Len(ready) : Apart(ready[i], c)
    BY <1>3, <1>4 DEF LockInv, Apart
  <2>2. Uniq(Append(ready, c))
    BY <1>2, <1>4, <2>1, UniqAppend
  <2> QED BY <1>4, <2>2 DEF Uniq
<1>8. Calls'
  <2>1. CallOK(c)'
    BY <1>1, <1>2, <1>3, <1>4 DEF CallOK, Devices
  <2>2. ASSUME NEW r \in Callback, CallOK(r), r.w # w PROVE CallOK(r)'
    <3>1. wpc'[r.w] = wpc[r.w] /\ pending'[r.w] = pending[r.w]
      BY <1>1, <1>2, <2>2 DEF Callback
    <3> QED BY <1>1, <2>2, <3>1, CallFrame
  <2>3. ASSUME NEW i \in 1 .. Len(ready') PROVE CallOK(ready[i])'
    <3>1. CASE i \in 1 .. Len(ready) /\ ready'[i] = ready[i]
      <4>1. ready[i] \in Callback /\ ready[i].w # w
        BY <1>2, <1>3, <3>1
      <4>2. CallOK(ready[i])
        BY <3>1 DEF LockInv, Calls
      <4> QED BY <2>2, <3>1, <4>1, <4>2
    <3>2. CASE ready'[i] = c
      BY <2>1, <3>2
    <3> QED BY <1>2, <1>4, <3>1, <3>2, AppendElements
  <2> QED BY <2>3 DEF Calls
<1>9. Pend'
  BY <1>1, <1>2 DEF LockInv, Pend, Devices
<1>10. Own'
  <2>1. ASSUME NEW v \in Worker, NEW d \in Device PROVE Has(v, d)' <=> Has(v, d)
    <3>1. CASE v # w
      BY <1>1, <1>2, <3>1 DEF Has, Devices
    <3>2. CASE v = w
      <4>1. pending[w] = {}
        BY <1>1 DEF LockInv, Pend
      <4> QED BY <1>1, <1>2, <3>2, <4>1 DEF Has, Devices
    <3> QED BY <3>1, <3>2
  <2> QED BY <1>1, <2>1 DEF LockInv, Own
<1>11. Wait'
  <2> SUFFICES ASSUME NEW d \in Device, NEW i \in 1 .. Len(waiters[d])
               PROVE  wpc'[waiters[d][i]] = wpc[waiters[d][i]]
                      /\ pending'[waiters[d][i]] = pending[waiters[d][i]]
    BY <1>1 DEF LockInv, Wait
  <2>1. waiters[d][i] \in Worker /\ waiters[d][i] # w
    BY <1>2, <1>3
  <2> QED BY <1>1, <1>2, <2>1
<1>12. Wake'
  BY <1>1 DEF LockInv, Wake
<1> QED BY <1>5, <1>6, <1>7, <1>8, <1>9, <1>10, <1>11, <1>12 DEF LockInv

LEMMA AnsweredInv ==
    ASSUME LockInv, NEW w \in Worker, Acquired(w) \/ Released(w)
    PROVE  LockInv'
<1>1. /\ wpc[w] \in {"acquiring", "releasing"}
      /\ wpc' = [wpc EXCEPT ![w] = IF wpc[w] = "acquiring" THEN "holding" ELSE "idle"]
      /\ pending[w] = {} /\ \A i \in DOMAIN ready : ready[i].w # w
      /\ UNCHANGED <<pending, locked, owner, waiters, woken, ready>>
  BY DEF Acquired, Released, Answered
<1>2. /\ wpc \in [Worker -> {"idle", "acquiring", "holding", "releasing", "failed"}]
      /\ waiters \in [Device -> Seq(Worker)] /\ ready \in Seq(Callback)
  BY DEF LockInv, LocksTypeOK
<1>3. DOMAIN ready = 1 .. Len(ready)
  BY <1>2
<1>4. LocksTypeOK' /\ NoFailure' /\ Pend' /\ Wake'
  BY <1>1, <1>2 DEF LockInv, LocksTypeOK, NoFailure, Pend, Wake, Devices
<1>5. Uniq(ready)'
  BY <1>1 DEF LockInv, Uniq
<1>6. Calls'
  <2> SUFFICES ASSUME NEW i \in 1 .. Len(ready) PROVE CallOK(ready[i])'
    BY <1>1 DEF Calls
  <2>1. ready'[i] = ready[i] /\ ready[i] \in Callback /\ ready[i].w # w
    BY <1>1, <1>2, <1>3
  <2>2. CallOK(ready[i])
    BY DEF LockInv, Calls
  <2>3. ASSUME NEW r \in Callback, CallOK(r), r.w # w PROVE CallOK(r)'
    <3>1. wpc'[r.w] = wpc[r.w] /\ pending'[r.w] = pending[r.w]
      BY <1>1, <1>2, <2>3 DEF Callback
    <3> QED BY <1>1, <2>3, <3>1, CallFrame
  <2> QED BY <2>1, <2>2, <2>3
<1>7. Own'
  <2>1. ASSUME NEW v \in Worker, NEW d \in Device PROVE Has(v, d)' <=> Has(v, d)
    BY <1>1, <1>2 DEF Has, Devices
  <2> QED BY <1>1, <2>1 DEF LockInv, Own
<1>8. Wait'
  <2> SUFFICES ASSUME NEW d \in Device, NEW i \in 1 .. Len(waiters[d])
               PROVE  wpc'[waiters[d][i]] = wpc[waiters[d][i]]
    BY <1>1 DEF LockInv, Wait
  <2>1. waiters[d][i] \in Worker /\ waiters[d][i] # w
    BY <1>1, <1>2 DEF LockInv, Wait
  <2> QED BY <1>1, <1>2, <2>1
<1> QED BY <1>4, <1>5, <1>6, <1>7, <1>8 DEF LockInv

-----------------------------------------------------------------------------
\* The steps of the event loop

\* A call that gets its lock: nobody had it, and its worker has it now.
LEMMA TakeOwn ==
    ASSUME LockInv, NEW w \in Worker, NEW d \in Device,
           wpc[w] = "acquiring", d \in pending[w], owner[d] = Nobody,
           wpc' = wpc, pending' = [pending EXCEPT ![w] = @ \ {d}],
           locked' = [locked EXCEPT ![d] = TRUE], owner' = [owner EXCEPT ![d] = w]
    PROVE  Own' /\ Pend'
<1>1. /\ pending \in [Worker -> SUBSET Device] /\ locked \in [Device -> BOOLEAN]
      /\ owner \in [Device -> Worker \cup {Nobody}] /\ w # Nobody
  BY LocksAssumption DEF LockInv, LocksTypeOK
<1>2. Pend'
  BY <1>1 DEF LockInv, Pend, Devices
<1>3. d \in Devices(w)
  BY DEF LockInv, Pend
<1>4. Own'
  <2>1. ASSUME NEW c \in Device PROVE locked'[c] = (owner'[c] # Nobody)
    BY <1>1 DEF LockInv, Own
  <2>2. ASSUME NEW c \in Device, NEW v \in Worker PROVE owner'[c] = v <=> Has(v, c)'
    <3>1. owner[c] = v <=> Has(v, c)
      BY DEF LockInv, Own
    <3>2. CASE c # d
      BY <1>1, <3>1, <3>2 DEF Has, Devices
    <3>3. CASE c = d /\ v # w
      BY <1>1, <3>1, <3>3, LocksAssumption DEF Has, Devices
    <3>4. CASE c = d /\ v = w
      BY <1>1, <1>3, <3>4 DEF Has, Devices
    <3> QED BY <3>2, <3>3, <3>4
  <2> QED BY <2>1, <2>2 DEF Own
<1> QED BY <1>2, <1>4

\* A callback that has not run, when one of another worker or lock is answered.
LEMMA CallKept ==
    ASSUME NEW w \in Worker, NEW d \in Device, NEW c \in Callback, CallOK(c),
           c.w = w => c.d # d /\ c.d # Nobody,
           pending \in [Worker -> SUBSET Device],
           wpc' = wpc, pending' \in {pending, [pending EXCEPT ![w] = @ \ {d}]},
           c.op = "resume" =>
               woken'[c.d] /\ waiters'[c.d] # <<>> /\ Head(waiters'[c.d]) = c.w,
           c.op \in {"acquire_devices", "lock"} =>
               \A x \in Device : c.d \in {Nobody, x} =>
                   \A i \in 1 .. Len(waiters'[x]) : waiters'[x][i] # c.w
    PROVE  CallOK(c)'
<1>1. c.w \in Worker
  BY DEF Callback
<1>2. c.w # w => pending'[c.w] = pending[c.w]
  BY <1>1
<1>3. c.w = w => c.op \notin {"acquire_devices", "release_devices"}
  BY DEF CallOK
<1>4. c.d # d /\ c.d \in pending[c.w] => c.d \in pending'[c.w]
  BY <1>1
<1>5. c.op \in {"lock", "resume", "unlock"} => c.d \in Device /\ c.d \in pending'[c.w]
  BY <1>2, <1>4 DEF CallOK
<1>6. c.op \in {"acquire_devices", "release_devices"} => c.d = Nobody /\ pending'[c.w] = Devices(c.w)'
  BY <1>2, <1>3 DEF CallOK, Devices
<1>7. /\ c.op \in {"acquire_devices", "lock", "resume"} => wpc'[c.w] = "acquiring"
      /\ c.op \in {"release_devices", "unlock"} => wpc'[c.w] = "releasing"
  BY DEF CallOK
<1> QED BY <1>5, <1>6, <1>7 DEF CallOK

LEMMA GatherInv ==
    ASSUME LockInv, NEW e, AcquireDevices(e) \/ ReleaseDevices(e)
    PROVE  LockInv'
<1> DEFINE task == IF e.op = "acquire_devices" THEN "lock" ELSE "unlock"
           new == [i \in DOMAIN Accels[e.w] |-> LockCall(task, e.w, Accels[e.w][i])]
<1>1. /\ e.op \in {"acquire_devices", "release_devices"}
      /\ ready # <<>> /\ e = Head(ready) /\ ready' = Tail(ready) \o new
      /\ UNCHANGED <<wpc, pending, locked, owner, waiters, woken>>
  BY DEF AcquireDevices, ReleaseDevices, Gather, Runs
<1>2. /\ e \in Callback /\ CallOK(e)
      /\ Tail(ready) \in Seq(Callback) /\ Uniq(Tail(ready))
      /\ \A i \in 1 .. Len(Tail(ready)) :
            /\ Tail(ready)[i] \in Callback /\ CallOK(Tail(ready)[i])
            /\ Apart(Tail(ready)[i], e)
  BY <1>1, RestOK
<1>3. e.w \in Worker /\ e.d = Nobody /\ pending[e.w] = Devices(e.w)
  BY <1>1, <1>2 DEF CallOK, Callback
<1>4. /\ Accels[e.w] \in Seq(Device) /\ Devices(e.w) \subseteq Device
      /\ \A i \in 1 .. Len(Accels[e.w]) : Accels[e.w][i] \in Devices(e.w)
      /\ \A i, j \in 1 .. Len(Accels[e.w]) : Accels[e.w][i] = Accels[e.w][j] => i = j
  BY <1>3, DevicesType
<1>5. /\ new \in Seq(Callback) /\ Len(new) = Len(Accels[e.w])
      /\ \A i \in 1 .. Len(new) : /\ new[i] \in Callback /\ new[i].w = e.w /\ new[i].op = task
                                  /\ new[i].d = Accels[e.w][i]
  <2>1. task \in Op
    BY DEF Op
  <2>2. \A i \in 1 .. Len(Accels[e.w]) : LockCall(task, e.w, Accels[e.w][i]) \in Callback
    BY <1>3, <1>4, <2>1 DEF LockCall, Callback
  <2>3. DOMAIN Accels[e.w] = 1 .. Len(Accels[e.w]) /\ Len(Accels[e.w]) \in Nat
    BY <1>4
  <2> HIDE DEF task
  <2> QED BY <2>2, <2>3 DEF LockCall
<1> HIDE DEF new
<1>6. LocksTypeOK'
  <2>1. ready' \in Seq(Callback)
    BY <1>1, <1>2, <1>5, ConcatElements
  <2> QED BY <1>1, <2>1 DEF LockInv, LocksTypeOK
<1>7. NoFailure' /\ Pend' /\ Wait' /\ Wake'
  BY SMTT(30), <1>1 DEF LockInv, NoFailure, Pend, Wait, Wake, Devices
<1>8. Own'
  BY <1>1 DEF LockInv, Own, Has, Devices
<1>9. Uniq(ready)'
  <2>1. Uniq(new)
    <3>1. \A i \in 1 .. Len(new) : new[i].d \in Device /\ new[i].d # Nobody
      BY <1>4, <1>5, LocksAssumption
    <3>2. \A i, j \in 1 .. Len(new) : new[i].d = new[j].d => i = j
      BY <1>4, <1>5
    <3> QED BY <3>1, <3>2 DEF Uniq, Apart
  <2>2. \A i \in 1 .. Len(Tail(ready)), j \in 1 .. Len(new) : Apart(Tail(ready)[i], new[j])
    BY <1>2, <1>3, <1>5 DEF Apart
  <2>3. Uniq(Tail(ready) \o new)
    BY <1>2, <1>5, <2>1, <2>2, UniqConcat
  <2> QED BY <1>1, <2>3 DEF Uniq
<1>10. Calls'
  <2>1. ASSUME NEW c \in Callback, CallOK(c) PROVE CallOK(c)'
    BY <1>1, <2>1, CallFrame
  <2>2. ASSUME NEW i \in 1 .. Len(new) PROVE CallOK(new[i])
    <3>1. new[i].d \in Device /\ new[i].d \in pending[e.w] /\ new[i].w = e.w /\ new[i].op = task
      BY <1>3, <1>4, <1>5
    <3>2. new[i].d # Nobody
      BY <3>1, LocksAssumption
    <3> QED BY <1>1, <1>2, <1>3, <3>1, <3>2 DEF CallOK
  <2>3. ASSUME NEW i \in 1 .. Len(ready') PROVE CallOK(ready[i])'
    <3>1. CASE i \in 1 .. Len(Tail(ready)) /\ ready'[i] = Tail(ready)[i]
      BY <1>2, <2>1, <3>1
    <3>2. CASE i - Len(Tail(ready)) \in 1 .. Len(new) /\ ready'[i] = new[i - Len(Tail(ready))]
      BY <1>5, <2>1, <2>2, <3>2
    <3> QED BY <1>1, <1>2, <1>5, <3>1, <3>2, ConcatElements
  <2> QED BY <2>3 DEF Calls
<1> QED BY SMTT(30), <1>6, <1>7, <1>8, <1>9, <1>10 DEF LockInv

\* What a task of a lock knows of it.
LEMMA TaskFacts ==
    ASSUME LockInv, NEW e \in Callback, CallOK(e), e.op \in {"lock", "resume", "unlock"}
    PROVE  /\ e.w \in Worker /\ e.d \in Device /\ e.d # Nobody /\ e.w # Nobody
           /\ e.d \in pending[e.w] /\ e.d \in Devices(e.w)
           /\ e.op \in {"lock", "resume"} => wpc[e.w] = "acquiring" /\ owner[e.d] # e.w
           /\ e.op = "unlock" => wpc[e.w] = "releasing" /\ owner[e.d] = e.w /\ locked[e.d]
<1>1. e.w \in Worker /\ e.d \in Device /\ e.d \in pending[e.w]
  BY DEF CallOK, Callback
<1>2. e.d # Nobody /\ e.w # Nobody /\ e.d \in Devices(e.w)
  BY <1>1, LocksAssumption DEF LockInv, Pend
<1>3. /\ e.op \in {"lock", "resume"} => wpc[e.w] = "acquiring"
      /\ e.op = "unlock" => wpc[e.w] = "releasing"
  BY DEF CallOK
<1>4. owner[e.d] = e.w <=> Has(e.w, e.d)
  BY <1>1 DEF LockInv, Own
<1>5. /\ e.op \in {"lock", "resume"} => owner[e.d] # e.w
      /\ e.op = "unlock" => owner[e.d] = e.w
  BY <1>1, <1>2, <1>3, <1>4 DEF Has
<1>6. owner[e.d] = e.w => locked[e.d]
  BY <1>1, <1>2 DEF LockInv, Own
<1> QED BY <1>1, <1>2, <1>3, <1>5, <1>6

\* The lock is free: the callback takes it at once.
LEMMA LockFreeInv ==
    ASSUME LockInv, NEW e, Lock(e), ~locked[e.d] /\ waiters[e.d] = <<>>
    PROVE  LockInv'
<1>1. e.op = "lock" /\ ready # <<>> /\ e = Head(ready) /\ ready' = Tail(ready)
  BY DEF Lock, Runs
<1>2. /\ e \in Callback /\ CallOK(e)
      /\ Tail(ready) \in Seq(Callback) /\ Uniq(Tail(ready))
      /\ \A i \in 1 .. Len(Tail(ready)) :
            /\ Tail(ready)[i] \in Callback /\ CallOK(Tail(ready)[i])
            /\ Apart(Tail(ready)[i], e)
  BY <1>1, RestOK
<1>3. /\ e.w \in Worker /\ e.d \in Device /\ e.d \in pending[e.w]
      /\ wpc[e.w] = "acquiring" /\ owner[e.d] # e.w
  BY <1>1, <1>2, TaskFacts
<1>4. /\ locked' = [locked EXCEPT ![e.d] = TRUE]
      /\ owner' = [owner EXCEPT ![e.d] = e.w]
      /\ pending' = [pending EXCEPT ![e.w] = @ \ {e.d}]
      /\ wpc' = wpc /\ waiters' = waiters /\ woken' = woken
  BY DEF Lock, Done
<1>5. /\ pending \in [Worker -> SUBSET Device] /\ locked \in [Device -> BOOLEAN]
      /\ owner \in [Device -> Worker \cup {Nobody}] /\ waiters \in [Device -> Seq(Worker)]
  BY DEF LockInv, LocksTypeOK
<1>6. owner[e.d] = Nobody
  BY <1>3 DEF LockInv, Own
<1>7. Own' /\ Pend'
  BY <1>3, <1>4, <1>6, TakeOwn
<1>8. LocksTypeOK'
  <2>1. ready' \in Seq(Callback)
    BY <1>1, <1>2
  <2>2. \A d \in Device : owner'[d] # Nobody => locked'[d]
    BY <1>7 DEF Own
  <2> QED BY <1>3, <1>4, <1>5, <2>1, <2>2 DEF LockInv, LocksTypeOK
<1>9. NoFailure' /\ Uniq(ready)'
  BY <1>1, <1>2, <1>4 DEF LockInv, NoFailure
<1>10. Calls'
  <2> SUFFICES ASSUME NEW i \in 1 .. Len(ready') PROVE CallOK(ready[i])'
    BY DEF Calls
  <2>1. ASSUME NEW c \in Callback, CallOK(c), Apart(c, e) PROVE CallOK(c)'
    <3>1. /\ c.w = e.w => c.d # e.d /\ c.d # Nobody
          /\ pending' \in {pending, [pending EXCEPT ![e.w] = @ \ {e.d}]}
      BY <1>4, <2>1 DEF Apart
    <3>2. /\ c.op = "resume" => woken'[c.d] /\ waiters'[c.d] # <<>> /\ Head(waiters'[c.d]) = c.w
          /\ c.op \in {"acquire_devices", "lock"} =>
                \A x \in Device : c.d \in {Nobody, x} =>
                    \A k \in 1 .. Len(waiters'[x]) : waiters'[x][k] # c.w
      BY <1>4, <2>1 DEF CallOK
    <3> QED BY <1>3, <1>4, <1>5, <2>1, <3>1, <3>2, CallKept
  <2> QED BY <1>1, <1>2, <2>1
<1>11. Wait'
  <2> SUFFICES ASSUME NEW d \in Device, NEW i \in 1 .. Len(waiters[d])
               PROVE  d \in pending'[waiters[d][i]]
    BY <1>4 DEF LockInv, Wait
  <2>1. d # e.d
    BY DEF Lock
  <2>2. waiters[d][i] \in Worker /\ d \in pending[waiters[d][i]]
    BY <1>5 DEF LockInv, Wait
  <2> QED BY <1>3, <1>4, <1>5, <2>1, <2>2
<1>12. Wake'
  <2>1. ~woken[e.d]
    BY <1>3 DEF LockInv, Wake
  <2> QED BY <1>4, <1>5, <2>1 DEF LockInv, Wake
<1> QED BY <1>7, <1>8, <1>9, <1>10, <1>11, <1>12 DEF LockInv

\* The lock is taken, or others wait for it: the callback joins them.
LEMMA LockBusyInv ==
    ASSUME LockInv, NEW e, Lock(e), ~(~locked[e.d] /\ waiters[e.d] = <<>>)
    PROVE  LockInv'
<1>1. e.op = "lock" /\ ready # <<>> /\ e = Head(ready) /\ ready' = Tail(ready)
  BY DEF Lock, Runs
<1>2. /\ e \in Callback /\ CallOK(e)
      /\ Tail(ready) \in Seq(Callback) /\ Uniq(Tail(ready))
      /\ \A i \in 1 .. Len(Tail(ready)) :
            /\ Tail(ready)[i] \in Callback /\ CallOK(Tail(ready)[i])
            /\ Apart(Tail(ready)[i], e)
  BY <1>1, RestOK
<1>3. /\ e.w \in Worker /\ e.d \in Device /\ e.d # Nobody /\ e.d \in pending[e.w]
      /\ wpc[e.w] = "acquiring" /\ owner[e.d] # e.w
  BY <1>1, <1>2, TaskFacts
<1>4. /\ waiters' = [waiters EXCEPT ![e.d] = Append(@, e.w)]
      /\ UNCHANGED <<wpc, pending, locked, owner, woken>>
  BY <1>3 DEF Lock
<1>5. pending \in [Worker -> SUBSET Device] /\ waiters \in [Device -> Seq(Worker)]
  BY DEF LockInv, LocksTypeOK
<1>6. /\ waiters[e.d] \in Seq(Worker) /\ Len(waiters[e.d]) \in Nat
      /\ waiters'[e.d] \in Seq(Worker) /\ waiters'[e.d] # <<>>
      /\ Len(waiters'[e.d]) = Len(waiters[e.d]) + 1
      /\ \A i \in 1 .. Len(waiters'[e.d]) :
            \/ i \in 1 .. Len(waiters[e.d]) /\ waiters'[e.d][i] = waiters[e.d][i]
            \/ i = Len(waiters[e.d]) + 1 /\ waiters'[e.d][i] = e.w
      /\ \A d \in Device : d # e.d => waiters'[d] = waiters[d]
  <2>1. waiters[e.d] \in Seq(Worker) /\ waiters'[e.d] = Append(waiters[e.d], e.w)
    BY <1>3, <1>4, <1>5
  <2>2. \A d \in Device : d # e.d => waiters'[d] = waiters[d]
    BY <1>4, <1>5
  <2>3. /\ Append(waiters[e.d], e.w) \in Seq(Worker)
        /\ Len(Append(waiters[e.d], e.w)) = Len(waiters[e.d]) + 1
        /\ \A i \in 1 .. Len(Append(waiters[e.d], e.w)) :
              \/ i \in 1 .. Len(waiters[e.d]) /\ Append(waiters[e.d], e.w)[i] = waiters[e.d][i]
              \/ i = Len(waiters[e.d]) + 1 /\ Append(waiters[e.d], e.w)[i] = e.w
    BY <1>3, <2>1, AppendElements
  <2>4. Len(waiters[e.d]) \in Nat /\ Append(waiters[e.d], e.w) # <<>>
    BY <1>3, <2>1
  <2> QED BY <2>1, <2>2, <2>3, <2>4
<1>7. \A i \in 1 .. Len(waiters[e.d]) : waiters[e.d][i] # e.w
  BY <1>1, <1>2, <1>3 DEF CallOK
<1>8. LocksTypeOK'
  <2>1. waiters' \in [Device -> Seq(Worker)]
    BY <1>4, <1>5, <1>6
  <2>2. ready' \in Seq(Callback)
    BY <1>1, <1>2
  <2> QED BY <1>4, <2>1, <2>2 DEF LockInv, LocksTypeOK
<1>9. NoFailure' /\ Uniq(ready)' /\ Pend' /\ Own'
  <2>1. NoFailure' /\ Uniq(ready)' /\ Pend'
    BY <1>1, <1>2, <1>4 DEF LockInv, NoFailure, Pend, Devices
  <2>2. Own'
    BY <1>4 DEF LockInv, Own, Has, Devices
  <2> QED BY <2>1, <2>2
<1>10. Calls'
  <2> SUFFICES ASSUME NEW i \in 1 .. Len(ready') PROVE CallOK(ready[i])'
    BY DEF Calls
  <2>1. ASSUME NEW c \in Callback, CallOK(c), Apart(c, e) PROVE CallOK(c)'
    <3>1. /\ c.w = e.w => c.d # e.d /\ c.d # Nobody
          /\ pending' \in {pending, [pending EXCEPT ![e.w] = @ \ {e.d}]}
      BY <1>4, <2>1 DEF Apart
    <3>2. c.op = "resume" => woken'[c.d] /\ waiters'[c.d] # <<>> /\ Head(waiters'[c.d]) = c.w
      <4>1. c.op = "resume" => /\ c.d \in Device /\ woken[c.d]
                               /\ waiters[c.d] # <<>> /\ Head(waiters[c.d]) = c.w
        BY <2>1 DEF CallOK
      <4>2. waiters[e.d] # <<>> => Head(waiters'[e.d]) = Head(waiters[e.d])
        BY <1>3, <1>4, <1>5
      <4> QED BY <1>4, <1>6, <4>1, <4>2
    <3>3. c.op \in {"acquire_devices", "lock"} =>
             \A x \in Device : c.d \in {Nobody, x} =>
                 \A k \in 1 .. Len(waiters'[x]) : waiters'[x][k] # c.w
      BY SMTT(30), <1>6, <2>1, <3>1 DEF CallOK
    <3> QED BY <1>3, <1>4, <1>5, <2>1, <3>1, <3>2, <3>3, CallKept
  <2> QED BY <1>1, <1>2, <2>1
<1>11. Wait'
  <2>1. ASSUME NEW d \in Device, NEW i \in 1 .. Len(waiters'[d])
        PROVE  wpc[waiters'[d][i]] = "acquiring" /\ d \in pending[waiters'[d][i]]
    <3>1. CASE i \in 1 .. Len(waiters[d]) /\ waiters'[d][i] = waiters[d][i]
      BY <3>1 DEF LockInv, Wait
    <3>2. CASE d = e.d /\ waiters'[d][i] = e.w
      BY <1>3, <3>2
    <3> QED BY <1>6, <3>1, <3>2
  <2>2. ASSUME NEW d \in Device, NEW i \in 1 .. Len(waiters'[d]), NEW j \in 1 .. Len(waiters'[d]),
               waiters'[d][i] = waiters'[d][j]
        PROVE  i = j
    <3>1. CASE d = e.d
      BY SMTT(30), <1>6, <1>7, <2>2, <3>1 DEF LockInv, Wait
    <3>2. CASE d # e.d
      BY <1>6, <2>2, <3>2 DEF LockInv, Wait
    <3> QED BY <3>1, <3>2
  <2> QED BY <1>4, <2>1, <2>2 DEF Wait
<1>12. Wake'
  BY <1>4, <1>6 DEF LockInv, Wake
<1> QED BY <1>8, <1>9, <1>10, <1>11, <1>12 DEF LockInv

\* The waiter that was woken finds the lock without an owner.
LEMMA ResumeInv ==
    ASSUME LockInv, NEW e, ResumeLock(e)
    PROVE  LockInv'
<1>1. e.op = "resume" /\ ready # <<>> /\ e = Head(ready) /\ ready' = Tail(ready)
  BY DEF ResumeLock, Runs
<1>2. /\ e \in Callback /\ CallOK(e)
      /\ Tail(ready) \in Seq(Callback) /\ Uniq(Tail(ready))
      /\ \A i \in 1 .. Len(Tail(ready)) :
            /\ Tail(ready)[i] \in Callback /\ CallOK(Tail(ready)[i])
            /\ Apart(Tail(ready)[i], e)
  BY <1>1, RestOK
<1>3. /\ e.w \in Worker /\ e.d \in Device /\ e.d \in pending[e.w]
      /\ wpc[e.w] = "acquiring" /\ owner[e.d] # e.w
  BY <1>1, <1>2, TaskFacts
<1>4. woken[e.d] /\ waiters[e.d] # <<>> /\ Head(waiters[e.d]) = e.w
  BY <1>1, <1>2 DEF CallOK
<1>5. owner[e.d] = Nobody
  BY <1>3, <1>4 DEF LockInv, Wake
<1>6. /\ waiters' = [waiters EXCEPT ![e.d] = Tail(@)]
      /\ woken' = [woken EXCEPT ![e.d] = FALSE]
      /\ locked' = [locked EXCEPT ![e.d] = TRUE]
      /\ owner' = [owner EXCEPT ![e.d] = e.w]
      /\ pending' = [pending EXCEPT ![e.w] = @ \ {e.d}]
      /\ wpc' = wpc
  BY <1>5 DEF ResumeLock, Done
<1>7. /\ pending \in [Worker -> SUBSET Device] /\ locked \in [Device -> BOOLEAN]
      /\ owner \in [Device -> Worker \cup {Nobody}] /\ waiters \in [Device -> Seq(Worker)]
      /\ woken \in [Device -> BOOLEAN]
  BY DEF LockInv, LocksTypeOK
<1>8. /\ waiters[e.d] \in Seq(Worker) /\ waiters[e.d][1] = e.w /\ 1 \in 1 .. Len(waiters[e.d])
      /\ waiters'[e.d] \in Seq(Worker) /\ Len(waiters'[e.d]) \in Nat
      /\ \A i \in 1 .. Len(waiters'[e.d]) : /\ i + 1 \in 1 .. Len(waiters[e.d])
                                            /\ waiters'[e.d][i] = waiters[e.d][i + 1]
      /\ \A d \in Device : d # e.d => waiters'[d] = waiters[d] /\ woken'[d] = woken[d]
  BY <1>3, <1>4, <1>6, <1>7, TailElements
<1>9. \A i \in 1 .. Len(waiters'[e.d]) : waiters'[e.d][i] # e.w
  <2>1. \A i \in 1 .. Len(waiters'[e.d]) : i + 1 # 1
    BY <1>8
  <2> QED BY <1>3, <1>8, <2>1 DEF LockInv, Wait
<1>10. Own' /\ Pend'
  BY <1>3, <1>5, <1>6, TakeOwn
<1>11. LocksTypeOK'
  <2>1. waiters' \in [Device -> Seq(Worker)]
    BY <1>3, <1>6, <1>7, <1>8
  <2>2. \A d \in Device : owner'[d] # Nobody => locked'[d]
    BY <1>10 DEF Own
  <2>3. ready' \in Seq(Callback)
    BY <1>1, <1>2
  <2>4. /\ wpc' \in [Worker -> {"idle", "acquiring", "holding", "releasing", "failed"}]
        /\ pending' \in [Worker -> SUBSET Device] /\ locked' \in [Device -> BOOLEAN]
        /\ owner' \in [Device -> Worker \cup {Nobody}] /\ woken' \in [Device -> BOOLEAN]
    BY <1>3, <1>6, <1>7 DEF LockInv, LocksTypeOK
  <2> QED BY <2>1, <2>2, <2>3, <2>4 DEF LocksTypeOK
<1>12. NoFailure' /\ Uniq(ready)'
  BY <1>1, <1>2, <1>6 DEF LockInv, NoFailure
<1>13. Calls'
  <2> SUFFICES ASSUME NEW i \in 1 .. Len(ready') PROVE CallOK(ready[i])'
    BY DEF Calls
  <2>1. ASSUME NEW c \in Callback, CallOK(c), Apart(c, e) PROVE CallOK(c)'
    <3>1. /\ c.w = e.w => c.d # e.d /\ c.d # Nobody
          /\ pending' \in {pending, [pending EXCEPT ![e.w] = @ \ {e.d}]}
      BY <1>6, <2>1 DEF Apart
    <3>2. c.op = "resume" => woken'[c.d] /\ waiters'[c.d] # <<>> /\ Head(waiters'[c.d]) = c.w
      <4>1. c.op = "resume" => /\ c.d \in Device /\ woken[c.d]
                               /\ waiters[c.d] # <<>> /\ Head(waiters[c.d]) = c.w
        BY <2>1 DEF CallOK
      <4>2. c.op = "resume" => c.d # e.d
        BY <1>4, <3>1, <4>1
      <4> QED BY <1>8, <4>1, <4>2
    <3>3. c.op \in {"acquire_devices", "lock"} =>
             \A x \in Device : c.d \in {Nobody, x} =>
                 \A k \in 1 .. Len(waiters'[x]) : waiters'[x][k] # c.w
      BY SMTT(30), <1>8, <2>1 DEF CallOK
    <3> QED BY <1>3, <1>6, <1>7, <2>1, <3>1, <3>2, <3>3, CallKept
  <2> QED BY <1>1, <1>2, <2>1
<1>14. Wait'
  <2>1. ASSUME NEW d \in Device, NEW i \in 1 .. Len(waiters'[d])
        PROVE  wpc'[waiters'[d][i]] = "acquiring" /\ d \in pending'[waiters'[d][i]]
    <3>1. CASE d = e.d
      <4>1. waiters'[d][i] \in Worker /\ waiters'[d][i] # e.w
        BY <1>8, <1>9, <3>1
      <4>2. wpc[waiters'[d][i]] = "acquiring" /\ d \in pending[waiters'[d][i]]
        BY <1>8, <3>1 DEF LockInv, Wait
      <4> QED BY <1>6, <1>7, <4>1, <4>2
    <3>2. CASE d # e.d
      <4>1. waiters'[d] = waiters[d] /\ waiters[d][i] \in Worker
        BY <1>7, <1>8, <3>2
      <4>2. wpc[waiters[d][i]] = "acquiring" /\ d \in pending[waiters[d][i]]
        BY <4>1 DEF LockInv, Wait
      <4> QED BY <1>3, <1>6, <1>7, <3>2, <4>1, <4>2
    <3> QED BY <3>1, <3>2
  <2>2. ASSUME NEW d \in Device, NEW i \in 1 .. Len(waiters'[d]), NEW j \in 1 .. Len(waiters'[d]),
               waiters'[d][i] = waiters'[d][j]
        PROVE  i = j
    <3>1. CASE d = e.d
      <4>1. /\ i + 1 \in 1 .. Len(waiters[e.d]) /\ j + 1 \in 1 .. Len(waiters[e.d])
            /\ waiters[e.d][i + 1] = waiters[e.d][j + 1]
        BY <1>8, <2>2, <3>1
      <4>2. i + 1 = j + 1
        BY <1>3, <4>1 DEF LockInv, Wait
      <4> QED BY <4>2
    <3>2. CASE d # e.d
      BY <1>8, <2>2, <3>2 DEF LockInv, Wait
    <3> QED BY <3>1, <3>2
  <2> QED BY <2>1, <2>2 DEF Wait
<1>15. Wake'
  <2>1. ASSUME NEW d \in Device, woken'[d] PROVE owner'[d] = Nobody /\ waiters'[d] # <<>>
    <3>1. d # e.d
      BY <1>3, <1>6, <1>7, <2>1
    <3> QED BY <1>3, <1>6, <1>7, <1>8, <2>1, <3>1 DEF LockInv, Wake
  <2> QED BY <2>1 DEF Wake
<1> QED BY <1>10, <1>11, <1>12, <1>13, <1>14, <1>15 DEF LockInv

\* The lock is freed, and its first waiter woken, if that has not happened yet.
LEMMA UnlockInv ==
    ASSUME LockInv, NEW e, Unlock(e)
    PROVE  LockInv'
<1>1. e.op = "unlock" /\ ready # <<>> /\ e = Head(ready)
  BY DEF Unlock, Runs
<1>2. /\ e \in Callback /\ CallOK(e)
      /\ Tail(ready) \in Seq(Callback) /\ Uniq(Tail(ready))
      /\ \A i \in 1 .. Len(Tail(ready)) :
            /\ Tail(ready)[i] \in Callback /\ CallOK(Tail(ready)[i])
            /\ Apart(Tail(ready)[i], e)
  BY <1>1, RestOK
<1>3. /\ e.w \in Worker /\ e.d \in Device /\ e.d # Nobody /\ e.d \in pending[e.w]
      /\ wpc[e.w] = "releasing" /\ owner[e.d] = e.w /\ e.w # Nobody /\ locked[e.d]
  BY <1>1, <1>2, TaskFacts
<1>4. ~woken[e.d]
  BY <1>3 DEF LockInv, Wake
<1>5. /\ locked' = [locked EXCEPT ![e.d] = FALSE]
      /\ owner' = [owner EXCEPT ![e.d] = Nobody]
      /\ pending' = [pending EXCEPT ![e.w] = @ \ {e.d}]
      /\ wpc' = wpc /\ waiters' = waiters
      /\ IF waiters[e.d] # <<>>
         THEN /\ woken' = [woken EXCEPT ![e.d] = TRUE]
              /\ ready' = Append(Tail(ready), LockCall("resume", Head(waiters[e.d]), e.d))
         ELSE ready' = Tail(ready) /\ woken' = woken
  BY <1>3, <1>4 DEF Unlock, Done
<1>6. /\ pending \in [Worker -> SUBSET Device] /\ locked \in [Device -> BOOLEAN]
      /\ owner \in [Device -> Worker \cup {Nobody}] /\ waiters \in [Device -> Seq(Worker)]
      /\ woken \in [Device -> BOOLEAN]
  BY DEF LockInv, LocksTypeOK
<1>7. \A d \in Device : woken[d] => woken'[d]
  BY <1>5, <1>6
<1>8. Own' /\ Pend'
  <2>1. Pend'
    BY <1>3, <1>5, <1>6 DEF LockInv, Pend, Devices
  <2>2. ASSUME NEW d \in Device PROVE locked'[d] = (owner'[d] # Nobody)
    BY <1>3, <1>5, <1>6 DEF LockInv, Own
  <2>3. ASSUME NEW d \in Device, NEW v \in Worker PROVE owner'[d] = v <=> Has(v, d)'
    <3>1. (owner[d] = v <=> Has(v, d)) /\ v # Nobody
      BY LocksAssumption DEF LockInv, Own
    <3>2. CASE d # e.d
      BY <1>3, <1>5, <1>6, <3>1, <3>2 DEF Has, Devices
    <3>3. CASE d = e.d /\ v # e.w
      BY <1>3, <1>5, <1>6, <3>1, <3>3 DEF Has, Devices
    <3>4. CASE d = e.d /\ v = e.w
      BY <1>3, <1>5, <1>6, <3>1, <3>4 DEF Has, Devices
    <3> QED BY <3>2, <3>3, <3>4
  <2> QED BY <2>1, <2>2, <2>3 DEF Own
\* The callbacks: those that have not run, and that of the waiter.
<1>9. ASSUME NEW c \in Callback, CallOK(c), Apart(c, e) PROVE CallOK(c)'
  <2>1. /\ c.w = e.w => c.d # e.d /\ c.d # Nobody
        /\ pending' \in {pending, [pending EXCEPT ![e.w] = @ \ {e.d}]}
    BY <1>5, <1>9 DEF Apart
  <2>2. c.op = "resume" => woken'[c.d] /\ waiters'[c.d] # <<>> /\ Head(waiters'[c.d]) = c.w
    BY <1>5, <1>7, <1>9 DEF CallOK
  <2>3. c.op \in {"acquire_devices", "lock"} =>
            \A x \in Device : c.d \in {Nobody, x} =>
                \A k \in 1 .. Len(waiters'[x]) : waiters'[x][k] # c.w
    BY <1>5, <1>9 DEF CallOK
  <2> QED BY <1>3, <1>5, <1>6, <1>9, <2>1, <2>2, <2>3, CallKept
<1>10. ready' \in Seq(Callback) /\ Uniq(ready)' /\ Calls'
  <2>1. CASE waiters[e.d] = <<>>
    <3>1. ready' = Tail(ready)
      BY <1>5, <2>1
    <3>2. Calls'
      BY <1>2, <1>9, <3>1 DEF Calls
    <3> QED BY <1>2, <3>1, <3>2
  <2>2. CASE waiters[e.d] # <<>>
    <3>1. PICK h \in Worker : h = Head(waiters[e.d]) /\ h = waiters[e.d][1] /\ 1 \in 1 .. Len(waiters[e.d])
      BY <1>3, <1>6, <2>2, TailElements
    <3>2. wpc[h] = "acquiring" /\ e.d \in pending[h] /\ h # e.w
      BY <1>3, <3>1 DEF LockInv, Wait
    <3>3. PICK c \in Callback : /\ c.op = "resume" /\ c.w = h /\ c.d = e.d
                                /\ ready' = Append(Tail(ready), c)
      BY <1>3, <1>5, <2>2, <3>1 DEF LockCall, Callback, Op
    <3>4. CallOK(c)'
      <4>1. e.d \in pending'[h] /\ wpc'[h] = "acquiring"
        BY <1>5, <1>6, <3>2
      <4>2. woken'[e.d] /\ waiters'[e.d] # <<>> /\ Head(waiters'[e.d]) = h
        BY <1>3, <1>5, <1>6, <2>2, <3>1
      <4> QED BY <1>3, <3>3, <4>1, <4>2 DEF CallOK
    <3>5. ASSUME NEW r \in Callback, CallOK(r), Apart(r, e) PROVE Apart(r, c)
      <4>1. CASE r.op \in {"acquire_devices", "lock"}
        <5>1. r.w # h \/ r.d \notin {Nobody, e.d}
          BY <1>3, <3>1, <3>5, <4>1 DEF CallOK
        <5> QED BY <1>3, <3>3, <5>1 DEF Apart
      <4>2. CASE r.op \in {"release_devices", "unlock"}
        BY <3>2, <3>3, <3>5, <4>2 DEF CallOK, Apart
      <4>3. CASE r.op = "resume"
        <5>1. r.d \in Device /\ r.d # e.d
          BY <1>4, <3>5, <4>3 DEF CallOK
        <5> QED BY <1>3, <3>3, <5>1, LocksAssumption DEF Apart
      <4> QED BY <4>1, <4>2, <4>3 DEF Callback, Op
    <3>6. Uniq(Append(Tail(ready), c))
      BY <1>2, <3>5, UniqAppend
    <3>7. Calls'
      <4> SUFFICES ASSUME NEW i \in 1 .. Len(ready') PROVE CallOK(ready[i])'
        BY DEF Calls
      <4>1. CASE i \in 1 .. Len(Tail(ready)) /\ ready'[i] = Tail(ready)[i]
        BY <1>2, <1>9, <4>1
      <4>2. CASE ready'[i] = c
        BY <3>4, <4>2
      <4> QED BY <1>2, <3>3, <4>1, <4>2, AppendElements
    <3> QED BY <1>2, <3>3, <3>6, <3>7, AppendElements
  <2> QED BY <2>1, <2>2
<1>11. LocksTypeOK'
  <2>1. \A d \in Device : owner'[d] # Nobody => locked'[d]
    BY <1>8 DEF Own
  <2>2. /\ wpc' \in [Worker -> {"idle", "acquiring", "holding", "releasing", "failed"}]
        /\ pending' \in [Worker -> SUBSET Device] /\ locked' \in [Device -> BOOLEAN]
        /\ owner' \in [Device -> Worker \cup {Nobody}] /\ woken' \in [Device -> BOOLEAN]
        /\ waiters' \in [Device -> Seq(Worker)]
    BY <1>3, <1>5, <1>6 DEF LockInv, LocksTypeOK
  <2> QED BY <1>10, <2>1, <2>2 DEF LocksTypeOK
<1>12. NoFailure' /\ Wait' /\ Wake'
  <2>1. NoFailure'
    BY <1>5 DEF LockInv, NoFailure
  <2>2. ASSUME NEW d \in Device, NEW i \in 1 .. Len(waiters[d])
        PROVE  d \in pending'[waiters[d][i]]
    <3>1. /\ waiters[d][i] \in Worker /\ wpc[waiters[d][i]] = "acquiring"
          /\ d \in pending[waiters[d][i]]
      BY <1>6 DEF LockInv, Wait
    <3> QED BY <1>3, <1>5, <1>6, <3>1
  <2>3. Wait'
    BY <1>5, <2>2 DEF LockInv, Wait
  <2>4. ASSUME NEW d \in Device, woken'[d] PROVE owner'[d] = Nobody /\ waiters'[d] # <<>>
    BY <1>3, <1>4, <1>5, <1>6, <2>4 DEF LockInv, Wake
  <2> QED BY <2>1, <2>3, <2>4 DEF Wake
<1> QED BY <1>8, <1>10, <1>11, <1>12 DEF LockInv

-----------------------------------------------------------------------------
\* The theorems

LEMMA Invariant == LocksSpec => []LockInv
<1>1. ASSUME LockInv, [LocksNext]_lockVars PROVE LockInv'
  <2>1. CASE UNCHANGED lockVars
    <3>1. /\ wpc' = wpc /\ pending' = pending /\ locked' = locked /\ owner' = owner
          /\ waiters' = waiters /\ woken' = woken /\ ready' = ready
      BY <2>1 DEF lockVars
    <3>2. Calls'
      <4>1. ASSUME NEW c, CallOK(c) PROVE CallOK(c)'
        BY <3>1, <4>1, CallFrame
      <4>2. \A i \in 1 .. Len(ready) : CallOK(ready[i])
        BY <1>1 DEF LockInv, Calls
      <4> QED BY <3>1, <4>1, <4>2 DEF Calls
    <3>3. LocksTypeOK' /\ NoFailure' /\ Uniq(ready)'
      BY <1>1, <3>1 DEF LockInv, LocksTypeOK, NoFailure, Uniq
    <3>4. Wait' /\ Wake'
      BY <1>1, <3>1 DEF LockInv, Wait, Wake
    <3>5. Pend'
      BY <1>1, <3>1 DEF LockInv, Pend, Devices
    <3>6. Own'
      BY <1>1, <3>1 DEF LockInv, Own, Has, Devices
    <3> QED BY <3>2, <3>3, <3>4, <3>5, <3>6 DEF LockInv
  <2>2. ASSUME NEW w \in Worker, AcquireLocks(w) \/ ReleaseLocks(w) PROVE LockInv'
    BY <1>1, <2>2, AskInv
  <2>3. ASSUME NEW w \in Worker, Acquired(w) \/ Released(w) PROVE LockInv'
    BY <1>1, <2>3, AnsweredInv
  <2>4. ASSUME NEW e, AcquireDevices(e) \/ ReleaseDevices(e) PROVE LockInv'
    BY <1>1, <2>4, GatherInv
  <2>5. ASSUME NEW e, Lock(e) PROVE LockInv'
    BY <1>1, <2>5, LockFreeInv, LockBusyInv
  <2>6. ASSUME NEW e, ResumeLock(e) PROVE LockInv'
    BY <1>1, <2>6, ResumeInv
  <2>7. ASSUME NEW e, Unlock(e) PROVE LockInv'
    BY <1>1, <2>7, UnlockInv
  <2> QED BY <1>1, <2>1, <2>2, <2>3, <2>4, <2>5, <2>6, <2>7 DEF LocksNext, EventLoop
<1> QED BY <1>1, InitInv, PTL DEF LocksSpec

\* The variables have their types, and a lock with an owner is locked (lock_manager.py:29-81).
THEOREM TypeOKHolds == LocksSpec => []LocksTypeOK
<1>1. LockInv => LocksTypeOK
  BY DEF LockInv
<1> QED BY <1>1, Invariant, PTL

\* Two workers that hold their accelerators share none of them: DeviceLock lets only one worker
\* at a time use an accelerator, whoever else asks, waits or releases (lock_manager.py:29-81).
THEOREM MutualExclusionHolds == LocksSpec => []MutualExclusion
<1>1. ASSUME LockInv PROVE MutualExclusion
  <2> SUFFICES ASSUME NEW v \in Worker, NEW w \in Worker, v # w,
                      wpc[v] = "holding", wpc[w] = "holding",
                      NEW d \in Devices(v) \cap Devices(w)
               PROVE  FALSE
    BY DEF MutualExclusion
  <2>1. d \in Device
    BY DevicesType
  <2>2. d \notin pending[v] /\ d \notin pending[w]
    BY <1>1 DEF LockInv, Pend
  <2>3. owner[d] = v /\ owner[d] = w
    BY <1>1, <2>1, <2>2 DEF LockInv, Own, Has
  <2> QED BY <2>3
<1> QED BY <1>1, Invariant, PTL

\* No call of the manager fails: a woken waiter finds the lock without an owner, so the assertion
\* of acquire holds, and release is called by the owner only (lock_manager.py:63-81).
THEOREM NoFailureHolds == LocksSpec => []NoFailure
<1>1. LockInv => NoFailure
  BY DEF LockInv
<1> QED BY <1>1, Invariant, PTL


-----------------------------------------------------------------------------
\* The order in which workers stand in the lines of the locks.

LEMMA PlaceFacts ==
    ASSUME LocksTypeOK, NEW d \in Device, NEW w \in Worker
    PROVE  /\ \A i \in AsksAt(d, w) : i \in 1 .. Len(ready)
           /\ \A i \in WaitsAt(d, w) : i \in 1 .. Len(waiters[d])
           /\ Len(ready) \in Nat /\ Len(waiters[d]) \in Nat
<1>1. ready \in Seq(Callback) /\ waiters[d] \in Seq(Worker)
  BY DEF LocksTypeOK
<1> QED BY <1>1 DEF AsksAt, WaitsAt

\* Nobody comes to stand before another who was not there already.
LEMMA OrderKept ==
    ASSUME SameOrder,
           \A d \in Device : \A v, w \in Worker : v # w /\ Before(d, v, w)' => Before(d, v, w)
    PROVE  SameOrder'
BY DEF SameOrder

\* A worker moves to the end of every line in which it stands.
LEMMA OrderLast ==
    ASSUME SameOrder, NEW x \in Worker,
           \A d \in Device : \A v, w \in Worker : v # w /\ w # x /\ Before(d, v, w)' => Before(d, v, w),
           \A d \in Device : \A w \in Worker \ {x} : ~Before(d, x, w)'
    PROVE  SameOrder'
<1> SUFFICES ASSUME NEW c \in Device, NEW d \in Device, NEW v \in Worker, NEW w \in Worker,
                    v # w, Before(c, v, w)', Before(d, w, v)'
             PROVE  FALSE
  BY DEF SameOrder
<1>1. CASE v = x
  BY <1>1
<1>2. CASE w = x
  BY <1>2
<1>3. CASE v # x /\ w # x
  BY <1>3 DEF SameOrder
<1> QED BY <1>1, <1>2, <1>3

\* The first callback has run, and what was added does not ask for a lock.
Onward ==
    /\ ready # <<>> /\ ready' \in Seq(Callback)
    /\ \A j \in 1 .. Len(ready') :
          \/ j + 1 \in 1 .. Len(ready) /\ ready'[j] = ready[j + 1]
          \/ ready'[j].op \notin {"acquire_devices", "lock"}

LEMMA OnwardAsks ==
    ASSUME Onward, LocksTypeOK, NEW d \in Device, NEW w \in Worker, NEW j \in AsksAt(d, w)'
    PROVE  j \in Nat /\ j + 1 \in AsksAt(d, w)
<1>1. ready \in Seq(Callback) /\ ready' \in Seq(Callback)
  BY DEF LocksTypeOK, Onward
<1>2. j \in 1 .. Len(ready') /\ ready'[j].op \in {"acquire_devices", "lock"}
  BY <1>1 DEF AsksAt
<1>3. j + 1 \in 1 .. Len(ready) /\ ready'[j] = ready[j + 1]
  BY <1>2 DEF Onward
<1>4. Devices(w)' = Devices(w)
  BY DEF Devices
<1> QED BY <1>1, <1>2, <1>3, <1>4 DEF AsksAt

\* The line of a lock that did not change.
LEMMA OnwardElsewhere ==
    ASSUME Onward, LocksTypeOK, NEW d \in Device, NEW v \in Worker, NEW w \in Worker,
           owner'[d] = owner[d] \/ owner'[d] = Nobody, waiters'[d] = waiters[d], Before(d, v, w)'
    PROVE  Before(d, v, w)
<1>1. WaitsAt(d, v)' = WaitsAt(d, v) /\ WaitsAt(d, w)' = WaitsAt(d, w)
  BY DEF WaitsAt
<1>2. owner'[d] = v => owner[d] = v
  BY LocksAssumption
<1>3. /\ \A j \in AsksAt(d, v)' : j \in Nat /\ j + 1 \in AsksAt(d, v)
      /\ \A j \in AsksAt(d, w)' : j \in Nat /\ j + 1 \in AsksAt(d, w)
  BY OnwardAsks
<1>4. AsksAt(d, w)' # {} => AsksAt(d, w) # {}
  BY <1>3
<1>5. CASE owner'[d] = v /\ (WaitsAt(d, w)' # {} \/ AsksAt(d, w)' # {})
  BY <1>1, <1>2, <1>4, <1>5 DEF Before
<1>6. CASE WaitsAt(d, v)' # {} /\ AsksAt(d, w)' # {}
  BY <1>1, <1>4, <1>6 DEF Before
<1>7. CASE \E i \in WaitsAt(d, v)', j \in WaitsAt(d, w)' : i < j
  BY <1>1, <1>7 DEF Before
<1>8. ASSUME NEW i \in AsksAt(d, v)', NEW j \in AsksAt(d, w)', i < j PROVE Before(d, v, w)
  <2>1. i + 1 < j + 1 /\ i + 1 \in AsksAt(d, v) /\ j + 1 \in AsksAt(d, w)
    BY <1>3, <1>8
  <2> QED BY <2>1 DEF Before
<1> QED BY <1>5, <1>6, <1>7, <1>8 DEF Before

LEMMA ReleaseOrder ==
    ASSUME LockInv, SameOrder, NEW w \in Worker, ReleaseLocks(w)
    PROVE  SameOrder'
<1> DEFINE new == LockCall("release_devices", w, Nobody)
<1>1. ready \in Seq(Callback) /\ Len(ready) \in Nat
  BY DEF LockInv, LocksTypeOK
<1>2. ready' = Append(ready, new) /\ owner' = owner /\ waiters' = waiters
  BY DEF ReleaseLocks, Ask
<1>3. \A d \in Device, v \in Worker : AsksAt(d, v)' = AsksAt(d, v)
  <2>1. new.op = "release_devices"
    BY DEF LockCall
  <2> HIDE DEF new
  <2>2. /\ DOMAIN ready' = 1 .. Len(ready) + 1 /\ DOMAIN ready = 1 .. Len(ready)
        /\ \A i \in 1 .. Len(ready) : ready'[i] = ready[i]
        /\ ready'[Len(ready) + 1] = new
    BY <1>1, <1>2
  <2> QED BY <1>1, <2>1, <2>2 DEF AsksAt, Devices
<1>4. \A d \in Device : \A v, u \in Worker : Before(d, v, u)' => Before(d, v, u)
  BY <1>2, <1>3 DEF Before, WaitsAt
<1> QED BY <1>4, OrderKept

LEMMA AcquireOrder ==
    ASSUME LockInv, SameOrder, NEW x \in Worker, AcquireLocks(x)
    PROVE  SameOrder'
<1> DEFINE new == LockCall("acquire_devices", x, Nobody)
<1>1. /\ ready \in Seq(Callback) /\ Len(ready) \in Nat
      /\ ready' = Append(ready, new) /\ owner' = owner /\ waiters' = waiters /\ wpc[x] = "idle"
  BY DEF LockInv, LocksTypeOK, AcquireLocks, Ask
<1>2. new.w = x
  BY DEF LockCall
<1> HIDE DEF new
<1>3. /\ DOMAIN ready' = 1 .. Len(ready) + 1 /\ DOMAIN ready = 1 .. Len(ready)
      /\ \A i \in 1 .. Len(ready) : ready'[i] = ready[i]
      /\ ready'[Len(ready) + 1] = new
  BY <1>1
<1>4. ASSUME NEW d \in Device, NEW v \in Worker, v # x
      PROVE  AsksAt(d, v)' = AsksAt(d, v) /\ WaitsAt(d, v)' = WaitsAt(d, v)
  <2>1. Devices(v)' = Devices(v)
    BY DEF Devices
  <2>2. \A i \in AsksAt(d, v)' : i \in AsksAt(d, v)
    BY <1>1, <1>2, <1>3, <1>4, <2>1 DEF AsksAt
  <2>3. \A i \in AsksAt(d, v) : i \in AsksAt(d, v)'
    BY <1>1, <1>3, <2>1 DEF AsksAt
  <2> QED BY <1>1, <2>2, <2>3 DEF WaitsAt
<1>5. ASSUME NEW d \in Device
      PROVE  owner[d] # x /\ WaitsAt(d, x)' = {} /\ \A i \in AsksAt(d, x)' : i = Len(ready) + 1
  <2>1. owner[d] # x
    BY <1>1 DEF LockInv, Own, Has
  <2>2. WaitsAt(d, x)' = {}
    <3>1. waiters[d] \in Seq(Worker)
      BY DEF LockInv, LocksTypeOK
    <3>2. \A i \in 1 .. Len(waiters[d]) : waiters[d][i] # x
      BY <1>1 DEF LockInv, Wait
    <3> QED BY <1>1, <3>1, <3>2 DEF WaitsAt
  <2>3. \A i \in 1 .. Len(ready) : ready[i].op \in {"acquire_devices", "lock"} => ready[i].w # x
    BY <1>1 DEF LockInv, Calls, CallOK
  <2>4. \A i \in AsksAt(d, x)' : i = Len(ready) + 1
    BY <1>1, <1>3, <2>3 DEF AsksAt
  <2> QED BY <2>1, <2>2, <2>4
<1>6. \A d \in Device : \A v, w \in Worker : v # w /\ w # x /\ Before(d, v, w)' => Before(d, v, w)
  <2> SUFFICES ASSUME NEW d \in Device, NEW v \in Worker, NEW w \in Worker, v # w, w # x, Before(d, v, w)'
               PROVE  Before(d, v, w)
    OBVIOUS
  <2>1. v = x => ~Before(d, v, w)'
    <3>1. \A i \in AsksAt(d, w)' : i \in 1 .. Len(ready)
      BY <1>3, <1>4 DEF AsksAt
    <3>2. \A i \in AsksAt(d, w)' : ~(Len(ready) + 1 < i)
      BY <1>1, <3>1
    <3> QED BY <1>1, <1>5, <3>2 DEF Before
  <2> QED BY <1>1, <1>4, <2>1 DEF Before
<1>7. \A d \in Device : \A w \in Worker \ {x} : ~Before(d, x, w)'
  <2> SUFFICES ASSUME NEW d \in Device, NEW w \in Worker \ {x} PROVE ~Before(d, x, w)'
    OBVIOUS
  <2>1. \A i \in AsksAt(d, w)' : i \in 1 .. Len(ready)
    BY <1>3, <1>4 DEF AsksAt
  <2>2. \A i \in AsksAt(d, w)' : ~(Len(ready) + 1 < i)
    BY <1>1, <2>1
  <2> QED BY <1>1, <1>5, <2>2 DEF Before
<1> QED BY <1>6, <1>7, OrderLast

LEMMA GatherOrder ==
    ASSUME LockInv, SameOrder, NEW e, AcquireDevices(e) \/ ReleaseDevices(e)
    PROVE  SameOrder'
<1> DEFINE x == e.w
           task == IF e.op = "acquire_devices" THEN "lock" ELSE "unlock"
           tasks == [i \in DOMAIN Accels[x] |-> LockCall(task, x, Accels[x][i])]
<1>1. /\ ready # <<>> /\ e = Head(ready) /\ e.op \in {"acquire_devices", "release_devices"}
      /\ ready' = Tail(ready) \o tasks /\ owner' = owner /\ waiters' = waiters
  BY DEF AcquireDevices, ReleaseDevices, Gather, Runs
<1>2. /\ LocksTypeOK /\ ready \in Seq(Callback) /\ Tail(ready) \in Seq(Callback)
      /\ e \in Callback /\ CallOK(e) /\ e = ready[1]
      /\ \A i \in 1 .. Len(Tail(ready)) : /\ i + 1 \in 1 .. Len(ready) /\ Tail(ready)[i] = ready[i + 1]
                                        /\ Apart(Tail(ready)[i], e)
  BY <1>1, RestOK, TailElements DEF LockInv, LocksTypeOK
<1>3. x \in Worker /\ e.d = Nobody /\ pending[x] = Devices(x)
  BY <1>1, <1>2 DEF Callback, CallOK
<1>4. /\ tasks \in Seq(Callback) /\ \A i \in 1 .. Len(tasks) : tasks[i].w = x /\ tasks[i].op = task
  <2>1. Accels[x] \in Seq(Device)
    BY <1>3, DevicesType
  <2>2. DOMAIN tasks = 1 .. Len(Accels[x]) /\ Len(Accels[x]) \in Nat
    BY <2>1
  <2>3. \A i \in 1 .. Len(Accels[x]) : tasks[i] \in Callback /\ tasks[i].w = x /\ tasks[i].op = task
    BY <1>3, <2>1 DEF LockCall, Callback, Op
  <2>4. tasks \in Seq(Callback) /\ Len(tasks) = Len(Accels[x])
    <3>1. tasks = [i \in 1 .. Len(Accels[x]) |-> tasks[i]]
      BY <2>2
    <3> HIDE DEF tasks
    <3>2. tasks \in [1 .. Len(Accels[x]) -> Callback]
      BY <2>3, <3>1
    <3> QED BY <2>2, <3>2
  <2> QED BY <2>3, <2>4
<1> HIDE DEF tasks
<1> DEFINE n == Len(Tail(ready))
<1>5. /\ n \in Nat /\ ready' \in Seq(Callback)
      /\ \A i \in 1 .. Len(ready') : \/ i \in 1 .. n /\ ready'[i] = Tail(ready)[i]
                                     \/ i > n /\ ready'[i].w = x /\ ready'[i].op = task
  <2>1. /\ Tail(ready) \o tasks \in Seq(Callback) /\ n \in Nat /\ Len(tasks) \in Nat
        /\ \A i \in 1 .. Len(Tail(ready) \o tasks) :
              \/ i \in 1 .. n /\ (Tail(ready) \o tasks)[i] = Tail(ready)[i]
              \/ i - n \in 1 .. Len(tasks) /\ (Tail(ready) \o tasks)[i] = tasks[i - n]
    BY <1>2, <1>4, ConcatElements
  <2>2. \A i \in 1 .. Len(Tail(ready) \o tasks) : i - n \in 1 .. Len(tasks) => i > n
    BY <2>1
  <2> QED BY <1>1, <1>4, <2>1, <2>2
<1> HIDE DEF n, x, task
<1>6. CASE e.op = "release_devices"
  <2>1. Onward
    <3>1. task = "unlock"
      BY <1>6 DEF task
    <3> QED BY <1>1, <1>2, <1>5, <3>1 DEF Onward, n
  <2>2. \A d \in Device : \A v, w \in Worker : v # w /\ Before(d, v, w)' => Before(d, v, w)
    BY <1>1, <1>2, <2>1, OnwardElsewhere
  <2> QED BY <2>2, OrderKept
<1>7. CASE e.op = "acquire_devices"
  <2>1. ASSUME NEW d \in Device, NEW v \in Worker, v # x
        PROVE  /\ WaitsAt(d, v)' = WaitsAt(d, v)
               /\ \A j \in AsksAt(d, v)' : j \in 1 .. n /\ j + 1 \in AsksAt(d, v)
    <3>1. ASSUME NEW j \in AsksAt(d, v)' PROVE j \in 1 .. n /\ j + 1 \in AsksAt(d, v)
      <4>1. j \in 1 .. Len(ready') /\ ready'[j].w = v
        BY <1>5 DEF AsksAt
      <4>2. j \in 1 .. n /\ ready'[j] = ready[j + 1] /\ j + 1 \in 1 .. Len(ready)
        BY <1>2, <1>5, <2>1, <4>1 DEF n
      <4> QED BY <1>2, <4>2 DEF AsksAt, Devices
    <3> QED BY <1>1, <3>1 DEF WaitsAt
  <2>2. ASSUME NEW d \in Device
        PROVE  /\ d \in Devices(x) => owner[d] # x
               /\ WaitsAt(d, x)' = {} /\ \A i \in AsksAt(d, x)' : i \in Nat /\ i > n
    <3>1. wpc[x] = "acquiring" /\ \A i \in 1 .. Len(waiters[d]) : waiters[d][i] # x
      BY <1>2, <1>3, <1>7 DEF CallOK, x
    <3>2. WaitsAt(d, x)' = {}
      <4>1. waiters[d] \in Seq(Worker)
        BY <1>2 DEF LocksTypeOK
      <4> QED BY <1>1, <3>1, <4>1 DEF WaitsAt
    <3>3. d \in Devices(x) => owner[d] # x
      BY <1>3, <3>1 DEF LockInv, Own, Has
    <3>4. ASSUME NEW i \in AsksAt(d, x)' PROVE i \in Nat /\ i > n
      <4>1. i \in 1 .. Len(ready') /\ ready'[i].w = x
        BY <1>5 DEF AsksAt
      <4>2. i \in 1 .. n => Tail(ready)[i].w # x
        BY <1>2, <1>3 DEF Apart, x, n
      <4>3. (i \in 1 .. n /\ ready'[i] = Tail(ready)[i]) \/ i > n
        BY <1>5, <4>1
      <4>4. i \in Nat
        BY <1>5, <4>1
      <4> QED BY <4>1, <4>2, <4>3, <4>4
    <3> QED BY <3>2, <3>3, <3>4
  <2>3. ASSUME NEW d \in Device PROVE owner[d] # x
    BY <1>3, <1>7, <2>2, <1>2 DEF LockInv, Own, Has
  <2>4. ASSUME NEW d \in Device, NEW w \in Worker, w # x PROVE ~Before(d, x, w)'
    <3>1. ASSUME NEW i \in AsksAt(d, x)', NEW j \in AsksAt(d, w)', i < j PROVE FALSE
      <4>1. i \in Nat /\ i > n /\ j \in 1 .. n
        BY <2>1, <2>2, <2>4
      <4> QED BY <1>5, <3>1, <4>1
    <3> QED BY <1>1, <2>2, <2>3, <3>1 DEF Before
  <2>5. ASSUME NEW d \in Device, NEW v \in Worker, NEW w \in Worker, v # w, w # x, Before(d, v, w)'
        PROVE  Before(d, v, w)
    <3>1. v # x
      BY <2>4, <2>5
    <3>2. /\ WaitsAt(d, v)' = WaitsAt(d, v) /\ WaitsAt(d, w)' = WaitsAt(d, w)
          /\ \A j \in AsksAt(d, v)' : j \in 1 .. n /\ j + 1 \in AsksAt(d, v)
          /\ \A j \in AsksAt(d, w)' : j \in 1 .. n /\ j + 1 \in AsksAt(d, w)
      BY <2>1, <2>5, <3>1
    <3>3. ASSUME NEW i \in AsksAt(d, v)', NEW j \in AsksAt(d, w)', i < j PROVE Before(d, v, w)
      <4>1. i + 1 < j + 1 /\ i + 1 \in AsksAt(d, v) /\ j + 1 \in AsksAt(d, w)
        BY <1>5, <3>2, <3>3
      <4> QED BY <4>1 DEF Before
    <3>4. AsksAt(d, w)' # {} => AsksAt(d, w) # {}
      BY <3>2
    <3> QED BY <1>1, <2>5, <3>2, <3>3, <3>4 DEF Before
  <2> QED BY <1>3, <2>4, <2>5, OrderLast
<1> QED BY <1>1, <1>6, <1>7

\* The callbacks of one lock: its line moves on, or loses its first worker.
LEMMA TaskOnward ==
    ASSUME LockInv, NEW e, Runs(e, e.op), ready' = Tail(ready)
    PROVE  Onward
<1>1. /\ ready # <<>> /\ ready \in Seq(Callback)
  BY DEF Runs, LockInv, LocksTypeOK
<1> QED BY <1>1, TailElements DEF Onward

\* The first callback asks for the lock of d before all others.
LEMMA AsksFirst ==
    ASSUME LockInv, NEW e, Runs(e, "lock")
    PROVE  /\ e \in Callback /\ CallOK(e) /\ e.w \in Worker /\ e.d \in Device
           /\ 1 \in AsksAt(e.d, e.w) /\ owner[e.d] # e.w
<1>1. e \in Callback /\ CallOK(e) /\ e.op = "lock"
  BY RestOK DEF Runs
<1>2. e.w \in Worker /\ e.d \in Device /\ e.d \in Devices(e.w) /\ owner[e.d] # e.w
  BY <1>1, TaskFacts
<1>3. ready \in Seq(Callback) /\ ready # <<>> /\ e = ready[1]
  BY DEF Runs, LockInv, LocksTypeOK
<1> QED BY <1>1, <1>2, <1>3 DEF AsksAt

LEMMA LockOrder ==
    ASSUME LockInv, SameOrder, NEW e, Lock(e)
    PROVE  SameOrder'
<1>1. /\ Runs(e, "lock") /\ e.op = "lock" /\ ready' = Tail(ready)
  BY DEF Lock, Runs
<1>2. /\ e.w \in Worker /\ e.d \in Device /\ 1 \in AsksAt(e.d, e.w) /\ owner[e.d] # e.w
  BY <1>1, AsksFirst
<1>3. Onward /\ LocksTypeOK
  BY <1>1, TaskOnward DEF LockInv
<1>4. \A d \in Device, v \in Worker : \A j \in AsksAt(d, v)' : j \in Nat /\ j + 1 \in AsksAt(d, v) /\ j > 0
  <2>1. ready' \in Seq(Callback)
    BY <1>3 DEF Onward
  <2>2. \A d \in Device, v \in Worker : \A j \in AsksAt(d, v)' : j > 0
    BY <2>1 DEF AsksAt
  <2> QED BY <1>3, <2>2, OnwardAsks
<1>5. owner \in [Device -> Worker \cup {Nobody}] /\ waiters \in [Device -> Seq(Worker)]
  BY <1>3 DEF LocksTypeOK
<1>6. \A d \in Device \ {e.d} : owner'[d] = owner[d] /\ waiters'[d] = waiters[d]
  BY <1>5 DEF Lock
<1>7. ASSUME NEW d \in Device, NEW v \in Worker, NEW w \in Worker, v # w, Before(d, v, w)', d # e.d
      PROVE  Before(d, v, w)
  BY <1>3, <1>6, <1>7, OnwardElsewhere
<1>8. ASSUME NEW v \in Worker, NEW w \in Worker, v # w, Before(e.d, v, w)'
      PROVE  Before(e.d, v, w)
  <2> DEFINE d == e.d
  <2>1. AsksAt(d, w)' # {} => AsksAt(d, w) # {}
    BY <1>2, <1>4
  <2>2. ASSUME NEW i \in AsksAt(d, v)', NEW j \in AsksAt(d, w)', i < j PROVE Before(d, v, w)
    <3>1. i + 1 < j + 1 /\ i + 1 \in AsksAt(d, v) /\ j + 1 \in AsksAt(d, w)
      BY <1>2, <1>4, <2>2
    <3> QED BY <3>1 DEF Before
  <2>3. ASSUME v = e.w, AsksAt(d, w)' # {} PROVE Before(d, v, w)
    <3>1. PICK j \in AsksAt(d, w)' : TRUE
      BY <2>3
    <3>2. 1 < j + 1 /\ j + 1 \in AsksAt(d, w) /\ 1 \in AsksAt(d, v)
      BY <1>2, <1>4, <2>3
    <3> QED BY <3>2 DEF Before
  <2>4. CASE ~locked[d] /\ waiters[d] = <<>>
    <3>1. owner'[d] = e.w /\ waiters'[d] = <<>>
      BY <1>2, <1>5, <2>4 DEF Lock
    <3>2. WaitsAt(d, v)' = {} /\ WaitsAt(d, w)' = {}
      BY <3>1 DEF WaitsAt
    <3> QED BY <1>8, <2>2, <2>3, <3>1, <3>2 DEF Before
  <2>5. CASE ~(~locked[d] /\ waiters[d] = <<>>)
    <3>1. owner'[d] = owner[d] /\ waiters'[d] = Append(waiters[d], e.w)
      BY <1>2, <1>5, <2>5 DEF Lock
    <3> DEFINE m == Len(waiters[d])
    <3>2. /\ m \in Nat /\ DOMAIN waiters'[d] = 1 .. m + 1 /\ DOMAIN waiters[d] = 1 .. m
          /\ \A i \in 1 .. m : waiters'[d][i] = waiters[d][i]
          /\ waiters'[d][m + 1] = e.w
      BY <1>2, <1>5, <3>1
    <3> HIDE DEF m
    <3>3. ASSUME NEW u \in Worker, NEW i \in WaitsAt(d, u)'
          PROVE  i \in 1 .. m + 1 /\ (i \in WaitsAt(d, u) \/ (i = m + 1 /\ u = e.w))
      BY <3>2 DEF WaitsAt
    <3>4. e.w = w => AsksAt(d, w) # {}
      BY <1>2
    <3>5. WaitsAt(d, w)' # {} => WaitsAt(d, w) \cup AsksAt(d, w) # {}
      BY <3>3, <3>4
    <3>6. CASE owner'[d] = v /\ WaitsAt(d, w)' \cup AsksAt(d, w)' # {}
      BY <2>1, <3>1, <3>5, <3>6 DEF Before
    <3>7. CASE WaitsAt(d, v)' # {} /\ AsksAt(d, w)' # {}
      <4>1. v = e.w \/ WaitsAt(d, v) # {}
        BY <3>3, <3>7
      <4> QED BY <2>1, <2>3, <3>7, <4>1 DEF Before
    <3>8. ASSUME NEW i \in WaitsAt(d, v)', NEW j \in WaitsAt(d, w)', i < j PROVE Before(d, v, w)
      <4>1. i \in WaitsAt(d, v)
        BY <3>2, <3>3, <3>8
      <4>2. j \in WaitsAt(d, w) \/ w = e.w
        BY <3>3
      <4> QED BY <3>4, <3>8, <4>1, <4>2 DEF Before
    <3> QED BY <1>8, <2>2, <3>6, <3>7, <3>8 DEF Before
  <2> QED BY <2>4, <2>5
<1> QED BY <1>7, <1>8, OrderKept

LEMMA ResumeOrder ==
    ASSUME LockInv, SameOrder, NEW e, ResumeLock(e)
    PROVE  SameOrder'
<1>1. /\ Runs(e, e.op) /\ e.op = "resume" /\ ready' = Tail(ready) /\ ready # <<>> /\ e = Head(ready)
  BY DEF ResumeLock, Runs
<1>2. e \in Callback /\ CallOK(e)
  BY <1>1, RestOK
<1>3. e.w \in Worker /\ e.d \in Device
  BY <1>1, <1>2, TaskFacts
<1>4. Onward /\ LocksTypeOK
  BY <1>1, TaskOnward DEF LockInv
<1>5. owner \in [Device -> Worker \cup {Nobody}] /\ waiters \in [Device -> Seq(Worker)]
  BY <1>4 DEF LocksTypeOK
<1>6. waiters[e.d] # <<>> /\ Head(waiters[e.d]) = e.w
  BY <1>1, <1>2 DEF CallOK
<1>7. \A d \in Device \ {e.d} : owner'[d] = owner[d] /\ waiters'[d] = waiters[d]
  BY <1>5 DEF ResumeLock
<1>8. ASSUME NEW d \in Device, NEW v \in Worker, NEW w \in Worker, v # w, Before(d, v, w)', d # e.d
      PROVE  Before(d, v, w)
  BY <1>4, <1>7, <1>8, OnwardElsewhere
<1>9. ASSUME NEW v \in Worker, NEW w \in Worker, v # w, Before(e.d, v, w)'
      PROVE  Before(e.d, v, w)
  <2> DEFINE d == e.d
  <2>1. waiters'[d] = Tail(waiters[d]) /\ (owner'[d] = owner[d] \/ owner'[d] = e.w)
    BY <1>3, <1>5 DEF ResumeLock
  <2>2. \A u \in Worker : \A j \in AsksAt(d, u)' : j \in Nat /\ j + 1 \in AsksAt(d, u)
    BY <1>3, <1>4, OnwardAsks
  <2>3. waiters[d] \in Seq(Worker) /\ waiters[d][1] = e.w /\ 1 \in 1 .. Len(waiters[d])
    BY <1>3, <1>5, <1>6
  <2>4. ASSUME NEW u \in Worker, NEW i \in WaitsAt(d, u)' PROVE i \in Nat /\ i > 0 /\ i + 1 \in WaitsAt(d, u)
    <3>1. /\ Tail(waiters[d]) \in Seq(Worker)
          /\ \A k \in 1 .. Len(Tail(waiters[d])) :
                k + 1 \in 1 .. Len(waiters[d]) /\ Tail(waiters[d])[k] = waiters[d][k + 1]
      BY <1>6, <2>3, TailElements
    <3>2. i \in 1 .. Len(Tail(waiters[d])) /\ Tail(waiters[d])[i] = u
      BY <2>1, <3>1 DEF WaitsAt
    <3> QED BY <2>3, <3>1, <3>2 DEF WaitsAt
  <2>5. 1 \in WaitsAt(d, e.w)
    BY <2>3 DEF WaitsAt
  <2>6. AsksAt(d, w)' # {} => AsksAt(d, w) # {}
    BY <2>2
  <2>7. CASE owner'[d] = v /\ WaitsAt(d, w)' \cup AsksAt(d, w)' # {}
    <3>1. CASE owner'[d] = owner[d]
      <4>1. WaitsAt(d, w)' # {} => WaitsAt(d, w) # {}
        BY <2>4
      <4> QED BY <2>6, <2>7, <3>1, <4>1 DEF Before
    <3>2. CASE v = e.w
      <4>1. ASSUME NEW j \in WaitsAt(d, w)' PROVE Before(d, v, w)
        <5>1. 1 < j + 1 /\ j + 1 \in WaitsAt(d, w)
          BY <2>4
        <5> QED BY <2>5, <3>2, <5>1 DEF Before
      <4>2. CASE AsksAt(d, w)' # {}
        BY <2>5, <2>6, <3>2, <4>2 DEF Before
      <4> QED BY <2>7, <4>1, <4>2
    <3> QED BY <2>1, <2>7, <3>1, <3>2
  <2>8. CASE WaitsAt(d, v)' # {} /\ AsksAt(d, w)' # {}
    BY <2>4, <2>6, <2>8 DEF Before
  <2>9. ASSUME NEW i \in WaitsAt(d, v)', NEW j \in WaitsAt(d, w)', i < j PROVE Before(d, v, w)
    <3>1. i + 1 < j + 1 /\ i + 1 \in WaitsAt(d, v) /\ j + 1 \in WaitsAt(d, w)
      BY <2>4, <2>9
    <3> QED BY <3>1 DEF Before
  <2>10. ASSUME NEW i \in AsksAt(d, v)', NEW j \in AsksAt(d, w)', i < j PROVE Before(d, v, w)
    <3>1. i + 1 < j + 1 /\ i + 1 \in AsksAt(d, v) /\ j + 1 \in AsksAt(d, w)
      BY <2>2, <2>10
    <3> QED BY <3>1 DEF Before
  <2> QED BY <1>9, <2>7, <2>8, <2>9, <2>10 DEF Before
<1> QED BY <1>8, <1>9, OrderKept

LEMMA UnlockOrder ==
    ASSUME LockInv, SameOrder, NEW e, Unlock(e)
    PROVE  SameOrder'
<1>1. /\ ready # <<>> /\ e = Head(ready) /\ e.op = "unlock" /\ waiters' = waiters
  BY DEF Unlock, Runs
<1>2. /\ e \in Callback /\ CallOK(e) /\ Tail(ready) \in Seq(Callback) /\ ready \in Seq(Callback)
      /\ LocksTypeOK
  BY <1>1, RestOK DEF LockInv, LocksTypeOK
<1>3. e.w \in Worker /\ e.d \in Device
  BY <1>1, <1>2, TaskFacts
<1>4. owner \in [Device -> Worker \cup {Nobody}] /\ waiters[e.d] \in Seq(Worker)
  BY <1>2, <1>3 DEF LocksTypeOK
<1>5. \A d \in Device : owner'[d] = owner[d] \/ owner'[d] = Nobody
  BY <1>3, <1>4 DEF Unlock
<1> DEFINE new == LockCall("resume", Head(waiters[e.d]), e.d)
<1>6. waiters[e.d] # <<>> => new \in Callback /\ new.op = "resume"
  BY <1>3, <1>4 DEF LockCall, Callback, Op
<1>7. ready' = Tail(ready) \/ (waiters[e.d] # <<>> /\ ready' = Append(Tail(ready), new))
  BY DEF Unlock
<1> HIDE DEF new
<1>8. Onward
  <2>1. CASE ready' = Tail(ready)
    BY <1>1, <1>2, <2>1, TailElements DEF Onward
  <2>2. CASE waiters[e.d] # <<>> /\ ready' = Append(Tail(ready), new)
    <3>1. /\ Append(Tail(ready), new) \in Seq(Callback)
          /\ \A i \in 1 .. Len(Append(Tail(ready), new)) :
                \/ i \in 1 .. Len(Tail(ready)) /\ Append(Tail(ready), new)[i] = Tail(ready)[i]
                \/ Append(Tail(ready), new)[i] = new
      BY <1>2, <1>6, <2>2, AppendElements
    <3>2. \A i \in 1 .. Len(Tail(ready)) : i + 1 \in 1 .. Len(ready) /\ Tail(ready)[i] = ready[i + 1]
      BY <1>1, <1>2, TailElements
    <3> QED BY <1>1, <1>6, <2>2, <3>1, <3>2 DEF Onward
  <2> QED BY <1>7, <2>1, <2>2
<1>9. \A d \in Device : \A v, w \in Worker : v # w /\ Before(d, v, w)' => Before(d, v, w)
  BY <1>1, <1>2, <1>5, <1>8, OnwardElsewhere
<1> QED BY <1>9, OrderKept

\* Two workers stand in the same order before all locks that both want, so that they never wait for
\* each other, although the manager takes a worker's locks one by one and in no global order
\* (lock_manager.py:acquire_devices).
THEOREM SameOrderHolds == LocksSpec => []SameOrder
<1>1. LocksInit => SameOrder
  BY DEF LocksInit, SameOrder, Before, WaitsAt, AsksAt
<1>2. ASSUME LockInv, SameOrder, [LocksNext]_lockVars PROVE SameOrder'
  <2>1. ASSUME UNCHANGED <<owner, waiters, ready>> PROVE SameOrder'
    <3>1. \A d \in Device : \A v, w \in Worker : Before(d, v, w)' => Before(d, v, w)
      BY <2>1 DEF Before, WaitsAt, AsksAt, Devices
    <3> QED BY <1>2, <3>1, OrderKept
  <2>2. CASE UNCHANGED lockVars
    BY <2>1, <2>2 DEF lockVars
  <2>3. ASSUME NEW w \in Worker, AcquireLocks(w) \/ ReleaseLocks(w) PROVE SameOrder'
    BY <1>2, <2>3, AcquireOrder, ReleaseOrder
  <2>4. ASSUME NEW w \in Worker, Acquired(w) \/ Released(w) PROVE SameOrder'
    BY <2>1, <2>4 DEF Acquired, Released, Answered
  <2>5. ASSUME NEW e, AcquireDevices(e) \/ ReleaseDevices(e) PROVE SameOrder'
    BY <1>2, <2>5, GatherOrder
  <2>6. ASSUME NEW e, Lock(e) \/ ResumeLock(e) \/ Unlock(e) PROVE SameOrder'
    BY <1>2, <2>6, LockOrder, ResumeOrder, UnlockOrder
  <2> QED BY <1>2, <2>2, <2>3, <2>4, <2>5, <2>6 DEF LocksNext, EventLoop
<1> QED BY <1>1, <1>2, Invariant, PTL DEF LocksSpec
==============================================================================
