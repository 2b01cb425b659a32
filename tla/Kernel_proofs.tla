--------------------------- MODULE Kernel_proofs ---------------------------
(***************************************************************************)
(* The invariants of module Kernel, for every number of tasks, of          *)
(* priorities and of nested interrupts.                                    *)
(*                                                                         *)
(* The inductive invariant IInv has two parts.  Static is what the         *)
(* kernel's tables satisfy whenever no function is in the middle of        *)
(* changing them, whatever context runs; Context relates them to the       *)
(* running task.  A service call is a chain of functions that lead from a  *)
(* Static state to a Static state, and dispatcher, t_leave and i_leave     *)
(* reestablish Context from what the functions have reported.              *)
(***************************************************************************)
EXTENDS Kernel, TaskSched_proofs

KernelFields ==
  {"tstat", "tskatr", "ipriority", "bpriority", "priority", "actque", "wupque",
   "winfo", "tmevtb", "newbpri", "mutex_queue", "p_wobjcb", "wait_queue", "wobjatr",
   "free_tcb", "ready_queue", "ready_primap", "p_schedtsk", "p_runtsk", "reqflg",
   "disdsp", "ipmflg", "dspflg", "dspreq", "lock", "excpt_nest_count", "boot", "kerflg"}

Data(x) ==
  /\ KernelFields \subseteq DOMAIN x
  /\ SchedType(x)
  /\ x.ipriority \in [Task -> TPRI] /\ x.bpriority \in [Task -> TPRI]
  /\ x.tskatr \in [Task -> {"TA_NULL", "TA_NOEXS"}]
  /\ x.actque \in [Task -> BOOLEAN] /\ x.wupque \in [Task -> BOOLEAN]
  /\ x.winfo \in [Task -> Winfo] /\ x.tmevtb \in [Task -> Callback]
  /\ x.newbpri \in [Task -> [tskid : Task, pri : TPRI] \cup {NULL}]
  /\ x.free_tcb \in Seq(Task)
  /\ x.p_runtsk \in Task \cup {NULL}
  /\ x.reqflg \in BOOLEAN /\ x.disdsp \in BOOLEAN /\ x.ipmflg \in BOOLEAN
  /\ x.lock \in BOOLEAN /\ x.kerflg \in BOOLEAN
  /\ x.excpt_nest_count \in 0 .. MaxNest + 1
  /\ x.boot \in Nat

(* The three words of a task that describe its wait: tstat, winfo, tmevtb. *)
WaitOK(ts, w, m) ==
  /\ "RUNNABLE" \in ts => ts = {"RUNNABLE"}
  /\ "SLP" \in ts => "WAITING" \in ts
  /\ "WAITING" \in ts => w \in {"NULL", "p_tmevtb"}
  /\ m # "none" <=> "WAITING" \in ts /\ w = "p_tmevtb"
  /\ "WAITING" \notin ts /\ ts # {} => w \in {"none"} \cup Wercd
  /\ m = "wait_tmout_ok" <=> "DLY" \in ts

WaitsOK(x, S) == \A t \in S : WaitOK(x.tstat[t], x.winfo[t], x.tmevtb[t])

(* A TCB of the free list is marked, listed once and dormant. *)
FreeOK(x) ==
  /\ \A i \in 1 .. Len(x.free_tcb) : x.tskatr[x.free_tcb[i]] = "TA_NOEXS"
  /\ \A i, j \in 1 .. Len(x.free_tcb) : x.free_tcb[i] = x.free_tcb[j] => i = j
  /\ \A t \in Task : x.tskatr[t] = "TA_NOEXS" => t \in Range(atcb)

NoexsOK(x, S) == \A t \in S : x.tskatr[t] = "TA_NOEXS" => x.tstat[t] = {}

FlagOK(x) == x.dspflg <=> ~x.disdsp /\ x.ipmflg

Static(x) ==
  /\ Data(x) /\ ReadyQueueOK(x, Runnable(x)) /\ SchedtskOK(x)
  /\ WaitsOK(x, Task) /\ FreeOK(x) /\ NoexsOK(x, Task) /\ FlagOK(x)

(* Before start_dispatch nothing runs, and the tasks initialize_task has   *)
(* not come to are dormant.                                                *)
Boot(x) ==
  ~x.kerflg =>
    /\ x.p_runtsk = NULL /\ x.dspflg
    /\ x.boot >= 1
    /\ \A i \in 1 .. Len(torder) : i >= x.boot => x.tstat[torder[i]] = {}

Running(x) ==
  /\ x.p_runtsk # NULL => "RUNNABLE" \in x.tstat[x.p_runtsk]
  /\ x.p_runtsk = NULL => x.dspflg

Dispatched(x) ==
  x.kerflg =>
    /\ x.excpt_nest_count = 0 => x.p_runtsk # NULL
    /\ x.excpt_nest_count = 0 /\ x.dspflg => x.p_runtsk = x.p_schedtsk
    /\ x.excpt_nest_count > 0 /\ x.dspflg /\ x.p_runtsk # x.p_schedtsk => x.reqflg

Context(x) == ~x.dspreq /\ Boot(x) /\ Running(x) /\ Dispatched(x)

IInv(x) == Static(x) /\ Context(x)

(* The fields the functions on tasks leave alone. *)
ContextFields == {"p_runtsk", "reqflg", "disdsp", "ipmflg", "dspflg", "lock",
                  "excpt_nest_count", "boot", "kerflg"}

SameContext(j, r) ==
  /\ r.p_runtsk = j.p_runtsk /\ r.reqflg = j.reqflg /\ r.disdsp = j.disdsp
  /\ r.ipmflg = j.ipmflg /\ r.dspflg = j.dspflg /\ r.lock = j.lock
  /\ r.excpt_nest_count = j.excpt_nest_count /\ r.boot = j.boot /\ r.kerflg = j.kerflg

(* No task leaves the runnable state. *)
Keeps(j, r) == \A u \in Task : "RUNNABLE" \in j.tstat[u] => "RUNNABLE" \in r.tstat[u]

-----------------------------------------------------------------------------
(* ReadyQueueOK and SchedtskOK are about the tasks in the ready queue, and *)
(* p_schedtsk is one of them.                                              *)
LEMMA SchedFrame ==
  ASSUME NEW j, SchedType(j), NEW R \in SUBSET Task, ReadyQueueOK(j, R), SchedtskOK(j),
         NEW r, r.ready_queue = j.ready_queue, r.ready_primap = j.ready_primap,
         r.p_schedtsk = j.p_schedtsk, \A u \in R : r.priority[u] = j.priority[u]
  PROVE  /\ ReadyQueueOK(r, R) /\ SchedtskOK(r)
         /\ r.p_schedtsk # NULL => r.p_schedtsk \in R
<1>1. \A p \in TPRI : \A i \in 1 .. Len(r.ready_queue[p]) :
        r.ready_queue[p][i] \in R /\ r.priority[r.ready_queue[p][i]] = p
  BY DEF ReadyQueueOK
<1>2. \A p \in TPRI : \A i, n \in 1 .. Len(r.ready_queue[p]) :
        r.ready_queue[p][i] = r.ready_queue[p][n] => i = n
  BY DEF ReadyQueueOK
<1>3. \A t \in R : \E i \in 1 .. Len(r.ready_queue[r.priority[t]]) :
        r.ready_queue[r.priority[t]][i] = t
  BY DEF ReadyQueueOK
<1>4. \A p \in TPRI : p \in r.ready_primap <=> r.ready_queue[p] # <<>>
  BY DEF ReadyQueueOK
<1>5. ReadyQueueOK(r, R)
  BY <1>1, <1>2, <1>3, <1>4 DEF ReadyQueueOK
<1>6. ASSUME j.p_schedtsk # NULL
      PROVE  j.p_schedtsk \in R
  <2>1. PICK s \in Task : s = j.p_schedtsk
    BY <1>6 DEF SchedType
  <2>2. PICK p \in TPRI : p = j.priority[s]
    BY <2>1 DEF SchedType
  <2>3. p \in j.ready_primap /\ s = Head(j.ready_queue[p])
    BY <2>1, <2>2, <1>6 DEF SchedtskOK
  <2>4. j.ready_queue[p] # <<>>
    BY <2>3 DEF ReadyQueueOK
  <2>5. Head(j.ready_queue[p]) \in R
    BY <2>4, ReadyHead
  <2> QED BY <2>1, <2>3, <2>5
<1>7. SchedtskOK(r)
  <2>1. CASE j.p_schedtsk = NULL
    BY <2>1 DEF SchedtskOK
  <2>2. CASE j.p_schedtsk # NULL
    <3>1. PICK s \in R : s = j.p_schedtsk
      BY <2>2, <1>6
    <3>2. r.priority[s] = j.priority[s]
      OBVIOUS
    <3> QED BY <2>2, <3>1, <3>2 DEF SchedtskOK
  <2> QED BY <2>1, <2>2
<1> QED BY <1>5, <1>6, <1>7

ContextType(r) ==
  /\ r.p_runtsk \in Task \cup {NULL}
  /\ r.reqflg \in BOOLEAN /\ r.disdsp \in BOOLEAN /\ r.ipmflg \in BOOLEAN
  /\ r.dspflg \in BOOLEAN /\ r.dspreq \in BOOLEAN
  /\ r.lock \in BOOLEAN /\ r.kerflg \in BOOLEAN
  /\ r.excpt_nest_count \in 0 .. MaxNest + 1 /\ r.boot \in Nat

(* A step that changes only the context's fields keeps the tables. *)
LEMMA ContextChange ==
  ASSUME NEW j, Static(j), NEW r, Frame(j, r, ContextFields \cup {"dspreq"}),
         ContextType(r), FlagOK(r)
  PROVE  /\ Static(r) /\ r.tstat = j.tstat /\ r.p_schedtsk = j.p_schedtsk
         /\ r.p_schedtsk # NULL => "RUNNABLE" \in r.tstat[r.p_schedtsk]
<1>2. /\ KernelFields \subseteq DOMAIN r
      /\ \A f \in KernelFields \ (ContextFields \cup {"dspreq"}) : r[f] = j[f]
  BY DEF Frame, Static, Data
<1>3. /\ r.tstat = j.tstat /\ r.tskatr = j.tskatr /\ r.ipriority = j.ipriority
      /\ r.bpriority = j.bpriority /\ r.priority = j.priority /\ r.actque = j.actque
      /\ r.wupque = j.wupque /\ r.winfo = j.winfo /\ r.tmevtb = j.tmevtb
      /\ r.newbpri = j.newbpri /\ r.free_tcb = j.free_tcb /\ r.ready_queue = j.ready_queue
      /\ r.ready_primap = j.ready_primap /\ r.p_schedtsk = j.p_schedtsk
  BY <1>2 DEF KernelFields, ContextFields
<1>4. SchedType(r)
  BY <1>2, <1>3 DEF SchedType, Static, Data, ContextType, KernelFields
<1>5. Data(r)
  BY <1>2, <1>3, <1>4 DEF Data, Static, ContextType
<1>6. Runnable(r) = Runnable(j)
  BY <1>3 DEF Runnable, TSTAT_RUNNABLE
<1>7. /\ ReadyQueueOK(r, Runnable(r)) /\ SchedtskOK(r)
      /\ r.p_schedtsk # NULL => r.p_schedtsk \in Runnable(r)
  <2>1. Runnable(j) \in SUBSET Task /\ SchedType(j)
    BY DEF Runnable, Static, Data
  <2>2. ReadyQueueOK(j, Runnable(j)) /\ SchedtskOK(j)
    BY DEF Static
  <2> QED BY <2>1, <2>2, <1>3, <1>6, SchedFrame
<1>8. WaitsOK(r, Task) /\ FreeOK(r) /\ NoexsOK(r, Task)
  BY <1>3 DEF Static, WaitsOK, FreeOK, NoexsOK
<1> QED BY <1>3, <1>5, <1>7, <1>8 DEF Static, Runnable, TSTAT_RUNNABLE

(* dispatcher starts p_schedtsk, or the idle loop. *)
LEMMA Dispatcher ==
  ASSUME NEW j, Static(j), j.kerflg, j.dspflg, NEW r, r = dispatcher(j)
  PROVE  IInv(r)
<1>1. /\ r.p_runtsk = j.p_schedtsk
      /\ r.excpt_nest_count = IF j.p_schedtsk = NULL THEN 1 ELSE 0
      /\ r.lock = FALSE /\ r.dspreq = FALSE
      /\ r.reqflg = j.reqflg /\ r.disdsp = j.disdsp /\ r.ipmflg = j.ipmflg
      /\ r.dspflg = j.dspflg /\ r.boot = j.boot /\ r.kerflg = j.kerflg
      /\ Frame(j, r, ContextFields \cup {"dspreq"})
  BY DEF dispatcher, Static, Data, KernelFields, Frame, ContextFields
<1>2. ContextType(r)
  <2>1. r.excpt_nest_count \in 0 .. MaxNest + 1
    BY <1>1, MaxNestAssumption
  <2> QED BY <1>1, <2>1 DEF ContextType, Static, Data, SchedType
<1>3. FlagOK(r)
  BY <1>1 DEF FlagOK, Static
<1>4. /\ Static(r) /\ r.tstat = j.tstat /\ r.p_schedtsk = j.p_schedtsk
      /\ r.p_schedtsk # NULL => "RUNNABLE" \in r.tstat[r.p_schedtsk]
  BY <1>1, <1>2, <1>3, ContextChange
<1>5. Context(r)
  BY <1>1, <1>4 DEF Context, Boot, Running, Dispatched
<1> QED BY <1>4, <1>5 DEF IInv

(* if (dspreq) dispatch(): a service call of the running task. *)
LEMMA TaskLeave ==
  ASSUME NEW j, IInv(j), j.kerflg, j.excpt_nest_count = 0,
         NEW y, Static(y), SameContext(j, y), Reports(j, y),
         ~y.dspreq => "RUNNABLE" \in y.tstat[j.p_runtsk],
         NEW r, r = t_leave(y)
  PROVE  IInv(r)
<1>1. CASE y.dspreq
  <2>1. y.kerflg /\ y.dspflg /\ r = dispatcher(y)
    BY <1>1 DEF t_leave, SameContext, Reports, IInv, Context
  <2> QED BY <2>1, Dispatcher
<1>2. CASE ~y.dspreq
  <2>1. r = y
    BY <1>2 DEF t_leave
  <2>2. y.dspflg => y.p_schedtsk = j.p_schedtsk
    BY <1>2 DEF SameContext, Reports
  <2>3. Context(y)
    BY <1>2, <2>2 DEF Context, IInv, SameContext, Boot, Running, Dispatched
  <2> QED BY <2>1, <2>3 DEF IInv
<1> QED BY <1>1, <1>2

(* if (dspreq) reqflg = true: a service call of an interrupt handler. *)
LEMMA IntLeave ==
  ASSUME NEW j, IInv(j), j.kerflg, j.excpt_nest_count > 0,
         NEW y, Static(y), SameContext(j, y), Reports(j, y), Keeps(j, y),
         NEW r, r = i_leave(y)
  PROVE  IInv(r)
<1>1. /\ r.reqflg <=> y.reqflg \/ y.dspreq
      /\ r.reqflg \in BOOLEAN /\ r.dspreq = FALSE
      /\ r.p_runtsk = y.p_runtsk /\ r.disdsp = y.disdsp /\ r.ipmflg = y.ipmflg
      /\ r.dspflg = y.dspflg /\ r.boot = y.boot /\ r.kerflg = y.kerflg
      /\ r.lock = y.lock /\ r.excpt_nest_count = y.excpt_nest_count
      /\ Frame(y, r, ContextFields \cup {"dspreq"})
  BY DEF i_leave, Static, Data, KernelFields, Frame, ContextFields
<1>2. ContextType(r) /\ FlagOK(r)
  BY <1>1 DEF ContextType, Static, Data, SchedType, FlagOK
<1>3. /\ Static(r) /\ r.tstat = y.tstat /\ r.p_schedtsk = y.p_schedtsk
  BY <1>1, <1>2, ContextChange
<1>4. Running(r)
  BY <1>1, <1>3 DEF Running, IInv, Context, SameContext, Keeps, Static, Data
<1>5. Dispatched(r)
  BY <1>1, <1>3 DEF Dispatched, IInv, Context, SameContext, Reports
<1>6. Boot(r)
  BY <1>1 DEF Boot, SameContext
<1> QED BY <1>1, <1>3, <1>4, <1>5, <1>6 DEF IInv, Context

-----------------------------------------------------------------------------
TaskType(r) ==
  /\ r.bpriority \in [Task -> TPRI]
  /\ r.actque \in [Task -> BOOLEAN] /\ r.wupque \in [Task -> BOOLEAN]
  /\ r.winfo \in [Task -> Winfo] /\ r.tmevtb \in [Task -> Callback]
  /\ r.newbpri \in [Task -> [tskid : Task, pri : TPRI] \cup {NULL}]

(* The fields of a TCB and of the wait queues that calls on a task change. *)
TaskFields == {"tstat", "priority", "bpriority", "actque", "wupque", "winfo", "tmevtb",
               "newbpri", "wait_queue", "p_wobjcb", "mutex_queue"}

(* What remains to be shown of a call on a task. *)
LEMMA TaskChange ==
  ASSUME NEW j, Static(j), NEW r, Frame(j, r, TaskFields \cup ReadyFields),
         TaskType(r), SchedType(r), ReadyQueueOK(r, Runnable(r)), SchedtskOK(r),
         WaitsOK(r, Task), NoexsOK(r, Task)
  PROVE  Static(r) /\ SameContext(j, r)
<1>1. /\ KernelFields \subseteq DOMAIN r
      /\ \A f \in KernelFields \ (TaskFields \cup ReadyFields) : r[f] = j[f]
  BY DEF Frame, Static, Data
<1>2. /\ r.tskatr = j.tskatr /\ r.ipriority = j.ipriority /\ r.free_tcb = j.free_tcb
      /\ SameContext(j, r)
  BY <1>1 DEF KernelFields, TaskFields, ReadyFields, SameContext
<1>3. Data(r)
  BY <1>1, <1>2 DEF Data, Static, SameContext, TaskType
<1>4. FreeOK(r) /\ FlagOK(r)
  BY <1>2 DEF FreeOK, FlagOK, Static, SameContext
<1> QED BY <1>2, <1>3, <1>4 DEF Static

(* A call that leaves the ready queue alone. *)
LEMMA NoQueueChange ==
  ASSUME NEW j, Static(j), NEW r, Frame(j, r, TaskFields),
         TaskType(r), r.tstat \in [Task -> SUBSET TstatFlag], r.priority \in [Task -> TPRI],
         \A u \in Task : "RUNNABLE" \in r.tstat[u] <=> "RUNNABLE" \in j.tstat[u],
         \A u \in Task : "RUNNABLE" \in j.tstat[u] => r.priority[u] = j.priority[u],
         WaitsOK(r, Task), NoexsOK(r, Task)
  PROVE  Static(r) /\ SameContext(j, r) /\ Reports(j, r) /\ Keeps(j, r)
<1>1. /\ KernelFields \subseteq DOMAIN r /\ \A f \in KernelFields \ TaskFields : r[f] = j[f]
  BY DEF Frame, Static, Data
<1>2. /\ r.ready_queue = j.ready_queue /\ r.ready_primap = j.ready_primap
      /\ r.p_schedtsk = j.p_schedtsk /\ r.dspreq = j.dspreq /\ r.dspflg = j.dspflg
  BY <1>1 DEF KernelFields, TaskFields
<1>3. SchedType(r)
  BY <1>1, <1>2 DEF SchedType, Static, Data, KernelFields
<1>4. Runnable(r) = Runnable(j)
  BY DEF Runnable, TSTAT_RUNNABLE
<1>5. ReadyQueueOK(r, Runnable(r)) /\ SchedtskOK(r)
  <2>1. Runnable(j) \in SUBSET Task /\ SchedType(j)
    BY DEF Runnable, Static, Data
  <2>2. ReadyQueueOK(j, Runnable(j)) /\ SchedtskOK(j)
    BY DEF Static
  <2>3. \A u \in Runnable(j) : r.priority[u] = j.priority[u]
    BY DEF Runnable, TSTAT_RUNNABLE
  <2> QED BY <2>1, <2>2, <2>3, <1>2, <1>4, SchedFrame
<1>6. Frame(j, r, TaskFields \cup ReadyFields)
  BY DEF Frame
<1>7. Static(r) /\ SameContext(j, r)
  BY <1>3, <1>5, <1>6, TaskChange
<1> QED BY <1>2, <1>7 DEF Reports, Keeps

(* t enters the ready queue: its TCB is changed (y), then make_runnable is *)
(* called.                                                                 *)
LEMMA BecomeRunnable ==
  ASSUME NEW j, Static(j), NEW t \in Task, "RUNNABLE" \notin j.tstat[t],
         j.tskatr[t] # "TA_NOEXS",
         NEW y, Frame(j, y, TaskFields \ {"priority"}), TaskType(y),
         y.tstat \in [Task -> SUBSET TstatFlag],
         \A u \in Task \ {t} : /\ y.tstat[u] = j.tstat[u] /\ y.winfo[u] = j.winfo[u]
                               /\ y.tmevtb[u] = j.tmevtb[u],
         y.tstat[t] = {"RUNNABLE"}, y.winfo[t] \in {"none"} \cup Wercd, y.tmevtb[t] = "none",
         NEW r, r = make_runnable(y, t)
  PROVE  Static(r) /\ SameContext(j, r) /\ Reports(j, r) /\ Keeps(j, r)
<1>1. /\ KernelFields \subseteq DOMAIN y
      /\ \A f \in KernelFields \ (TaskFields \ {"priority"}) : y[f] = j[f]
  BY DEF Frame, Static, Data
<1>2. /\ y.ready_queue = j.ready_queue /\ y.ready_primap = j.ready_primap
      /\ y.p_schedtsk = j.p_schedtsk /\ y.dspreq = j.dspreq /\ y.dspflg = j.dspflg
      /\ y.priority = j.priority
  BY <1>1 DEF KernelFields, TaskFields
<1>3. SchedType(y)
  BY <1>1, <1>2 DEF SchedType, Static, Data, KernelFields
<1>4. PICK R \in SUBSET Task : R = Runnable(j)
  BY DEF Runnable
<1>5. ReadyQueueOK(y, R) /\ SchedtskOK(y)
  <2>1. SchedType(j) /\ ReadyQueueOK(j, R) /\ SchedtskOK(j)
    BY <1>4 DEF Static, Data
  <2>2. \A u \in R : y.priority[u] = j.priority[u]
    BY <1>2
  <2> QED BY <2>1, <2>2, <1>2, SchedFrame
<1>6. t \in Task \ R
  BY <1>4 DEF Runnable, TSTAT_RUNNABLE
<1>7. /\ SchedType(r) /\ ReadyQueueOK(r, R \cup {t}) /\ SchedtskOK(r)
      /\ Reports(y, r) /\ Frame(y, r, ReadyFields)
  BY <1>3, <1>5, <1>6, MakeRunnable
<1>8. /\ KernelFields \subseteq DOMAIN r /\ \A f \in KernelFields \ ReadyFields : r[f] = y[f]
  BY <1>1, <1>7 DEF Frame
<1>9. /\ r.tstat = y.tstat /\ r.winfo = y.winfo /\ r.tmevtb = y.tmevtb
      /\ r.bpriority = y.bpriority /\ r.actque = y.actque /\ r.wupque = y.wupque
      /\ r.newbpri = y.newbpri /\ r.tskatr = y.tskatr
  BY <1>8 DEF KernelFields, ReadyFields
<1>10. R \cup {t} = Runnable(r)
  BY <1>4, <1>9 DEF Runnable, TSTAT_RUNNABLE
<1>11. TaskType(r)
  BY <1>9 DEF TaskType
<1>12. WaitsOK(r, Task)
  <2>1. WaitOK({"RUNNABLE"}, y.winfo[t], "none")
    BY DEF WaitOK, Wercd
  <2>2. ASSUME NEW u \in Task \ {t}
        PROVE  WaitOK(y.tstat[u], y.winfo[u], y.tmevtb[u])
    BY DEF Static, WaitsOK
  <2> QED BY <2>1, <2>2, <1>9 DEF WaitsOK
<1>13. y.tskatr = j.tskatr
  BY <1>1 DEF KernelFields, TaskFields
<1>14. NoexsOK(r, Task)
  BY <1>9, <1>13 DEF NoexsOK, Static
<1>15. Frame(j, r, TaskFields \cup ReadyFields)
  BY <1>7 DEF Frame
<1>16. Static(r) /\ SameContext(j, r)
  BY <1>7, <1>10, <1>11, <1>12, <1>14, <1>15, TaskChange
<1>17. Reports(j, r)
  BY <1>2, <1>7 DEF Reports
<1>18. Keeps(j, r)
  BY <1>9 DEF Keeps
<1> QED BY <1>16, <1>17, <1>18

-----------------------------------------------------------------------------
(* The tables as make_dormant finds them: t has left the ready queue, the  *)
(* wait queue and the time event heap, and its tstat is still the old one. *)
StaticBut(x, t) ==
  /\ Data(x) /\ ReadyQueueOK(x, Runnable(x) \ {t}) /\ SchedtskOK(x)
  /\ WaitsOK(x, Task \ {t}) /\ x.tmevtb[t] = "none"
  /\ FreeOK(x) /\ NoexsOK(x, Task \ {t}) /\ FlagOK(x)

(* make_non_wait ends the wait of t, whose WINFO (y) holds an error code. *)
LEMMA MakeNonWait ==
  ASSUME NEW j, Static(j), NEW t \in Task, "WAITING" \in j.tstat[t],
         NEW y, Frame(j, y, {"winfo", "tmevtb", "wait_queue"}),
         y.winfo \in [Task -> Winfo], y.tmevtb \in [Task -> Callback],
         \A u \in Task \ {t} : y.winfo[u] = j.winfo[u] /\ y.tmevtb[u] = j.tmevtb[u],
         y.winfo[t] \in Wercd, y.tmevtb[t] = "none",
         NEW r, r = make_non_wait(y, t)
  PROVE  Static(r) /\ SameContext(j, r) /\ Reports(j, r) /\ Keeps(j, r)
<1>1. /\ KernelFields \subseteq DOMAIN y
      /\ \A f \in KernelFields \ {"winfo", "tmevtb", "wait_queue"} : y[f] = j[f]
  BY DEF Frame, Static, Data
<1>2. /\ y.tstat = j.tstat /\ y.bpriority = j.bpriority /\ y.actque = j.actque
      /\ y.wupque = j.wupque /\ y.newbpri = j.newbpri /\ y.priority = j.priority
      /\ y.tskatr = j.tskatr
  BY <1>1 DEF KernelFields
<1>3. /\ TaskType(y) /\ y.tstat \in [Task -> SUBSET TstatFlag]
      /\ y.priority \in [Task -> TPRI]
  BY <1>2 DEF TaskType, Static, Data, SchedType
<1>4. "RUNNABLE" \notin j.tstat[t] /\ j.tskatr[t] # "TA_NOEXS"
  BY DEF Static, WaitsOK, WaitOK, NoexsOK
<1>5. CASE "SUSPENDED" \in y.tstat[t]
  <2>1. r = [y EXCEPT !.tstat[t] = {"SUSPENDED"}]
    BY <1>5 DEF make_non_wait, TSTAT_SUSPENDED, TS_SUSPENDED
  <2>2. r.tstat = [j.tstat EXCEPT ![t] = {"SUSPENDED"}] /\ Frame(y, r, {"tstat"})
    BY <2>1, <1>1, <1>2 DEF KernelFields, Frame
  <2>3. /\ KernelFields \subseteq DOMAIN r /\ \A f \in KernelFields \ {"tstat"} : r[f] = y[f]
    BY <1>1, <2>2 DEF Frame
  <2>4. /\ r.winfo = y.winfo /\ r.tmevtb = y.tmevtb /\ r.priority = j.priority
        /\ r.bpriority = j.bpriority /\ r.actque = j.actque /\ r.wupque = j.wupque
        /\ r.newbpri = j.newbpri /\ r.tskatr = j.tskatr
    BY <2>3, <1>2 DEF KernelFields
  <2>5. r.tstat \in [Task -> SUBSET TstatFlag] /\ TaskType(r)
    BY <2>2, <2>4, <1>2, <1>3 DEF TaskType, TstatFlag
  <2>6. Frame(j, r, TaskFields)
    BY <2>2 DEF Frame, TaskFields
  <2>7. WaitsOK(r, Task)
    <3>1. WaitOK({"SUSPENDED"}, y.winfo[t], "none")
      BY DEF WaitOK, Wercd
    <3>2. ASSUME NEW u \in Task \ {t}
          PROVE  WaitOK(j.tstat[u], y.winfo[u], y.tmevtb[u])
      BY DEF Static, WaitsOK
    <3> QED BY <2>2, <2>4, <1>2, <1>3, <3>1, <3>2 DEF WaitsOK
  <2>8. NoexsOK(r, Task)
    BY <2>2, <2>4, <1>4, <1>2, <1>3 DEF NoexsOK, Static
  <2>9. /\ \A u \in Task : "RUNNABLE" \in r.tstat[u] <=> "RUNNABLE" \in j.tstat[u]
        /\ r.priority \in [Task -> TPRI] /\ \A u \in Task : r.priority[u] = j.priority[u]
    BY <2>2, <2>4, <1>2, <1>3, <1>4
  <2> QED BY <2>5, <2>6, <2>7, <2>8, <2>9, NoQueueChange
<1>6. CASE "SUSPENDED" \notin y.tstat[t]
  <2>1. PICK z : z = [y EXCEPT !.tstat[t] = {"RUNNABLE"}]
    OBVIOUS
  <2>2. r = make_runnable(z, t)
    BY <1>6, <2>1 DEF make_non_wait, TSTAT_SUSPENDED, TS_RUNNABLE
  <2>3. z.tstat = [j.tstat EXCEPT ![t] = {"RUNNABLE"}] /\ Frame(y, z, {"tstat"})
    BY <2>1, <1>1, <1>2 DEF KernelFields, Frame
  <2>4. /\ KernelFields \subseteq DOMAIN z /\ \A f \in KernelFields \ {"tstat"} : z[f] = y[f]
    BY <1>1, <2>3 DEF Frame
  <2>5. /\ z.winfo = y.winfo /\ z.tmevtb = y.tmevtb
        /\ z.bpriority = j.bpriority /\ z.actque = j.actque /\ z.wupque = j.wupque
        /\ z.newbpri = j.newbpri
    BY <2>4, <1>2 DEF KernelFields
  <2>6. z.tstat \in [Task -> SUBSET TstatFlag] /\ TaskType(z)
    BY <2>3, <2>5, <1>2, <1>3 DEF TaskType, TstatFlag
  <2>7. Frame(j, z, TaskFields \ {"priority"})
    BY <2>3 DEF Frame, TaskFields
  <2>8. /\ z.tstat[t] = {"RUNNABLE"} /\ z.winfo[t] \in {"none"} \cup Wercd
        /\ z.tmevtb[t] = "none"
        /\ \A u \in Task \ {t} : /\ z.tstat[u] = j.tstat[u] /\ z.winfo[u] = j.winfo[u]
                                 /\ z.tmevtb[u] = j.tmevtb[u]
    BY <2>3, <2>5, <1>2, <1>3
  <2> HIDE <2>1
  <2> QED BY <2>2, <2>6, <2>7, <2>8, <1>4, BecomeRunnable
<1> QED BY <1>5, <1>6

(* The ways a waiting task is taken out of the heap and of a wait queue. *)
Dequeued(j, t, y) ==
  \/ y = wait_dequeue_tmevtb(j, t)
  \/ y = wait_dequeue_tmevtb(wait_dequeue_wobj(j, t), t)
  \/ y = [j EXCEPT !.tmevtb[t] = "none"]
  \/ y = wait_dequeue_wobj([j EXCEPT !.tmevtb[t] = "none"], t)

(* The time event block of a waiting task leaves the heap. *)
LEMMA WaitDequeue ==
  ASSUME NEW j, Static(j), NEW t \in Task, "WAITING" \in j.tstat[t],
         NEW y, Dequeued(j, t, y)
  PROVE  /\ Frame(j, y, {"tmevtb", "wait_queue"})
         /\ y.tmevtb \in [Task -> Callback] /\ y.tmevtb[t] = "none"
         /\ \A u \in Task \ {t} : y.tmevtb[u] = j.tmevtb[u]
<1>1. /\ KernelFields \subseteq DOMAIN j /\ j.tmevtb \in [Task -> Callback]
      /\ j.winfo[t] \in {"NULL", "p_tmevtb"}
      /\ j.winfo[t] = "NULL" => j.tmevtb[t] = "none"
  BY DEF Static, Data, WaitsOK, WaitOK
<1>2. ASSUME NEW a, NEW b, KernelFields \subseteq DOMAIN a, a.tmevtb = j.tmevtb, a.winfo = j.winfo,
             b = wait_dequeue_tmevtb(a, t)
      PROVE  /\ Frame(a, b, {"tmevtb"}) /\ b.tmevtb \in [Task -> Callback]
             /\ b.tmevtb[t] = "none" /\ \A u \in Task \ {t} : b.tmevtb[u] = j.tmevtb[u]
  <2>1. CASE j.winfo[t] = "NULL"
    <3>1. b = a
      BY <2>1, <1>2 DEF wait_dequeue_tmevtb
    <3> QED BY <3>1, <2>1, <1>1, <1>2 DEF Frame
  <2>2. CASE j.winfo[t] = "p_tmevtb"
    <3>1. b = [a EXCEPT !.tmevtb[t] = "none"]
      BY <2>2, <1>2 DEF wait_dequeue_tmevtb
    <3>2. b.tmevtb = [j.tmevtb EXCEPT ![t] = "none"] /\ Frame(a, b, {"tmevtb"})
      BY <3>1, <1>2 DEF KernelFields, Frame
    <3> QED BY <3>2, <1>1 DEF Callback
  <2> QED BY <2>1, <2>2, <1>1
<1>3. ASSUME NEW a, NEW b, KernelFields \subseteq DOMAIN a, b = wait_dequeue_wobj(a, t)
      PROVE  Frame(a, b, {"wait_queue"}) /\ KernelFields \subseteq DOMAIN b
             /\ b.tmevtb = a.tmevtb /\ b.winfo = a.winfo
  BY <1>3 DEF wait_dequeue_wobj, Frame, KernelFields
<1>4. ASSUME NEW b, b = [j EXCEPT !.tmevtb[t] = "none"]
      PROVE  /\ Frame(j, b, {"tmevtb"}) /\ KernelFields \subseteq DOMAIN b
             /\ b.tmevtb \in [Task -> Callback] /\ b.tmevtb[t] = "none"
             /\ \A u \in Task \ {t} : b.tmevtb[u] = j.tmevtb[u]
  <2>1. b.tmevtb = [j.tmevtb EXCEPT ![t] = "none"] /\ Frame(j, b, {"tmevtb"})
    BY <1>1, <1>4 DEF KernelFields, Frame
  <2> QED BY <2>1, <1>1 DEF Callback, Frame
<1>5. CASE y = wait_dequeue_tmevtb(j, t)
  BY <1>1, <1>2, <1>5 DEF Frame
<1>6. CASE y = [j EXCEPT !.tmevtb[t] = "none"]
  BY <1>4, <1>6 DEF Frame
<1>7. CASE y = wait_dequeue_tmevtb(wait_dequeue_wobj(j, t), t)
  <2>1. PICK a : a = wait_dequeue_wobj(j, t)
    OBVIOUS
  <2>2. Frame(j, a, {"wait_queue"}) /\ KernelFields \subseteq DOMAIN a
        /\ a.tmevtb = j.tmevtb /\ a.winfo = j.winfo
    BY <2>1, <1>1, <1>3
  <2>3. y = wait_dequeue_tmevtb(a, t)
    BY <2>1, <1>7
  <2> HIDE <2>1, <1>7
  <2> QED BY <2>2, <2>3, <1>2 DEF Frame
<1>8. CASE y = wait_dequeue_wobj([j EXCEPT !.tmevtb[t] = "none"], t)
  <2>1. PICK a : a = [j EXCEPT !.tmevtb[t] = "none"]
    OBVIOUS
  <2>2. y = wait_dequeue_wobj(a, t)
    BY <2>1, <1>8
  <2>3. /\ Frame(j, a, {"tmevtb"}) /\ KernelFields \subseteq DOMAIN a
        /\ a.tmevtb \in [Task -> Callback] /\ a.tmevtb[t] = "none"
        /\ \A u \in Task \ {t} : a.tmevtb[u] = j.tmevtb[u]
    BY <2>1, <1>4
  <2>4. Frame(a, y, {"wait_queue"}) /\ KernelFields \subseteq DOMAIN y
        /\ y.tmevtb = a.tmevtb /\ y.winfo = a.winfo
    BY <2>2, <2>3, <1>3
  <2> HIDE <2>1, <2>2, <1>8
  <2> QED BY <2>3, <2>4 DEF Frame
<1> QED BY <1>5, <1>6, <1>7, <1>8 DEF Dequeued

(* The four ways a wait ends: completion, forced release, timeout, and the *)
(* end of a delay.                                                         *)
LEMMA WaitEnd ==
  ASSUME NEW j, Static(j), NEW t \in Task, "WAITING" \in j.tstat[t],
         NEW r, r \in {wait_complete(j, t), wait_release(j, t),
                       wait_tmout([j EXCEPT !.tmevtb[t] = "none"], t),
                       wait_tmout_ok([j EXCEPT !.tmevtb[t] = "none"], t)}
  PROVE  Static(r) /\ SameContext(j, r) /\ Reports(j, r) /\ Keeps(j, r)
<1>1. PICK y, e :
        /\ e \in Wercd /\ r = make_non_wait(set_wercd(y, t, e), t)
        /\ Dequeued(j, t, y)
  <2>1. CASE r = wait_complete(j, t)
    <3>1. PICK y : y = wait_dequeue_tmevtb(j, t)
      OBVIOUS
    <3>2. r = make_non_wait(set_wercd(y, t, "E_OK"), t) /\ "E_OK" \in Wercd
      BY <2>1, <3>1 DEF wait_complete, Wercd
    <3>3. Dequeued(j, t, y)
      BY <3>1 DEF Dequeued
    <3> HIDE <3>1
    <3> QED BY <3>2, <3>3
  <2>2. CASE r = wait_release(j, t)
    <3>1. PICK y : y = wait_dequeue_tmevtb(wait_dequeue_wobj(j, t), t)
      OBVIOUS
    <3>2. r = make_non_wait(set_wercd(y, t, "E_RLWAI"), t) /\ "E_RLWAI" \in Wercd
      BY <2>2, <3>1 DEF wait_release, Wercd
    <3>3. Dequeued(j, t, y)
      BY <3>1 DEF Dequeued
    <3> HIDE <3>1
    <3> QED BY <3>2, <3>3
  <2>3. CASE r = wait_tmout([j EXCEPT !.tmevtb[t] = "none"], t)
    <3>1. PICK y : y = wait_dequeue_wobj([j EXCEPT !.tmevtb[t] = "none"], t)
      OBVIOUS
    <3>2. r = make_non_wait(set_wercd(y, t, "E_TMOUT"), t) /\ "E_TMOUT" \in Wercd
      BY <2>3, <3>1 DEF wait_tmout, Wercd
    <3>3. Dequeued(j, t, y)
      BY <3>1 DEF Dequeued
    <3> HIDE <3>1
    <3> QED BY <3>2, <3>3
  <2>4. CASE r = wait_tmout_ok([j EXCEPT !.tmevtb[t] = "none"], t)
    <3>1. PICK y : y = [j EXCEPT !.tmevtb[t] = "none"]
      OBVIOUS
    <3>2. r = make_non_wait(set_wercd(y, t, "E_OK"), t) /\ "E_OK" \in Wercd
      BY <2>4, <3>1 DEF wait_tmout_ok, Wercd
    <3>3. Dequeued(j, t, y)
      BY <3>1 DEF Dequeued
    <3> HIDE <3>1
    <3> QED BY <3>2, <3>3
  <2> QED BY <2>1, <2>2, <2>3, <2>4
<1>2. /\ Frame(j, y, {"tmevtb", "wait_queue"})
      /\ y.tmevtb \in [Task -> Callback] /\ y.tmevtb[t] = "none"
      /\ \A u \in Task \ {t} : y.tmevtb[u] = j.tmevtb[u]
  BY <1>1, WaitDequeue
<1>3. KernelFields \subseteq DOMAIN y /\ y.winfo = j.winfo
  BY <1>2 DEF Frame, Static, Data, KernelFields
<1>4. PICK z : z = set_wercd(y, t, e)
  OBVIOUS
<1>5. z.winfo = [j.winfo EXCEPT ![t] = e] /\ z.tmevtb = y.tmevtb /\ Frame(y, z, {"winfo"})
  BY <1>3, <1>4 DEF set_wercd, Frame, KernelFields
<1>6. Frame(j, z, {"winfo", "tmevtb", "wait_queue"})
  BY <1>2, <1>5 DEF Frame
<1>7. /\ z.winfo \in [Task -> Winfo] /\ z.winfo[t] \in Wercd
      /\ \A u \in Task \ {t} : z.winfo[u] = j.winfo[u] /\ z.tmevtb[u] = j.tmevtb[u]
      /\ z.tmevtb \in [Task -> Callback] /\ z.tmevtb[t] = "none"
  BY <1>1, <1>2, <1>5 DEF Static, Data, Winfo
<1>8. r = make_non_wait(z, t)
  BY <1>1, <1>4
<1> HIDE <1>1, <1>4
<1> QED BY <1>6, <1>7, <1>8, MakeNonWait

(* make_active for a dormant task that exists. *)
LEMMA MakeActive ==
  ASSUME NEW j, Static(j), NEW t \in Task, j.tstat[t] = {}, j.tskatr[t] # "TA_NOEXS",
         NEW r, r = make_active(j, t)
  PROVE  Static(r) /\ SameContext(j, r) /\ Reports(j, r) /\ Keeps(j, r)
<1>1. PICK y : y = [activate_context(j, t) EXCEPT !.tstat[t] = {"RUNNABLE"}]
  OBVIOUS
<1>2. r = make_runnable(y, t)
  BY <1>1 DEF make_active, TS_RUNNABLE
<1>3. /\ y.tstat = [j.tstat EXCEPT ![t] = {"RUNNABLE"}]
      /\ y.winfo = [j.winfo EXCEPT ![t] = "none"]
      /\ y.newbpri = [j.newbpri EXCEPT ![t] = NULL]
      /\ Frame(j, y, {"tstat", "winfo", "newbpri"})
  BY <1>1 DEF activate_context, Frame, Static, Data, KernelFields
<1>4. /\ y.tmevtb = j.tmevtb /\ y.bpriority = j.bpriority /\ y.actque = j.actque
      /\ y.wupque = j.wupque
  BY <1>3 DEF Frame, Static, Data, KernelFields
<1>5. TaskType(y) /\ y.tstat \in [Task -> SUBSET TstatFlag]
  <2>1. y.tstat \in [Task -> SUBSET TstatFlag]
    BY <1>3 DEF Static, Data, SchedType, TstatFlag
  <2>2. y.winfo \in [Task -> Winfo]
    BY <1>3 DEF Static, Data, Winfo
  <2>3. y.newbpri \in [Task -> [tskid : Task, pri : TPRI] \cup {NULL}]
    BY <1>3 DEF Static, Data
  <2> QED BY <2>1, <2>2, <2>3, <1>4 DEF TaskType, Static, Data
<1>6. Frame(j, y, TaskFields \ {"priority"})
  BY <1>3 DEF Frame, TaskFields
<1>7. y.tmevtb[t] = "none"
  BY <1>4 DEF Static, WaitsOK, WaitOK
<1>8. /\ \A u \in Task \ {t} : /\ y.tstat[u] = j.tstat[u] /\ y.winfo[u] = j.winfo[u]
                               /\ y.tmevtb[u] = j.tmevtb[u]
      /\ y.tstat[t] = {"RUNNABLE"} /\ y.winfo[t] \in {"none"} \cup Wercd
  BY <1>3, <1>4 DEF Static, Data, SchedType
<1> HIDE <1>1
<1> QED BY <1>2, <1>5, <1>6, <1>7, <1>8, BecomeRunnable

(* make_dormant completes the removal of a task. *)
LEMMA MakeDormant ==
  ASSUME NEW j, NEW t \in Task, StaticBut(j, t), NEW r, r = make_dormant(j, t)
  PROVE  /\ Static(r) /\ r.tstat = [j.tstat EXCEPT ![t] = {}]
         /\ Frame(j, r, {"tstat", "bpriority", "priority", "wupque"})
<1>1. /\ r.tstat = [j.tstat EXCEPT ![t] = {}]
      /\ r.bpriority = [j.bpriority EXCEPT ![t] = j.ipriority[t]]
      /\ r.priority = [j.priority EXCEPT ![t] = j.ipriority[t]]
      /\ r.wupque = [j.wupque EXCEPT ![t] = FALSE]
      /\ Frame(j, r, {"tstat", "bpriority", "priority", "wupque"})
  BY DEF make_dormant, TS_DORMANT, Frame, StaticBut, Data, KernelFields
<1>2. /\ KernelFields \subseteq DOMAIN r
      /\ \A f \in KernelFields \ {"tstat", "bpriority", "priority", "wupque"} : r[f] = j[f]
  BY <1>1 DEF Frame, StaticBut, Data
<1>3. /\ r.tskatr = j.tskatr /\ r.ipriority = j.ipriority /\ r.actque = j.actque
      /\ r.winfo = j.winfo /\ r.tmevtb = j.tmevtb /\ r.newbpri = j.newbpri
      /\ r.free_tcb = j.free_tcb /\ r.ready_queue = j.ready_queue
      /\ r.ready_primap = j.ready_primap /\ r.p_schedtsk = j.p_schedtsk
      /\ r.dspreq = j.dspreq /\ SameContext(j, r)
  BY <1>2 DEF KernelFields, SameContext
<1>4. /\ r.tstat \in [Task -> SUBSET TstatFlag] /\ r.priority \in [Task -> TPRI]
      /\ r.bpriority \in [Task -> TPRI] /\ r.wupque \in [Task -> BOOLEAN]
  BY <1>1, SMTT(60) DEF StaticBut, Data, SchedType
<1>5. SchedType(r)
  BY <1>2, <1>3, <1>4 DEF SchedType, StaticBut, Data, KernelFields, SameContext
<1>6. Data(r)
  BY <1>2, <1>3, <1>4, <1>5 DEF Data, StaticBut, SameContext
<1>7. PICK R \in SUBSET Task : R = Runnable(j) \ {t}
  BY DEF Runnable
<1>8. Runnable(r) = R
  BY <1>1, <1>7 DEF Runnable, TSTAT_RUNNABLE, StaticBut, Data, SchedType
<1>9. ReadyQueueOK(r, R) /\ SchedtskOK(r)
  <2>1. SchedType(j) /\ ReadyQueueOK(j, R) /\ SchedtskOK(j)
    BY <1>7 DEF StaticBut, Data
  <2>2. \A u \in R : r.priority[u] = j.priority[u]
    BY <1>1, <1>7 DEF StaticBut, Data, SchedType
  <2> QED BY <2>1, <2>2, <1>3, SchedFrame
<1>10. WaitsOK(r, Task)
  <2>1. WaitOK({}, j.winfo[t], "none")
    BY DEF WaitOK
  <2>2. ASSUME NEW u \in Task \ {t}
        PROVE  WaitOK(j.tstat[u], j.winfo[u], j.tmevtb[u])
    BY DEF StaticBut, WaitsOK
  <2>3. r.tstat[t] = {} /\ \A u \in Task \ {t} : r.tstat[u] = j.tstat[u]
    BY <1>1 DEF StaticBut, Data, SchedType
  <2>4. j.tmevtb[t] = "none"
    BY DEF StaticBut
  <2> QED BY <2>1, <2>2, <2>3, <2>4, <1>3 DEF WaitsOK
<1>11. FreeOK(r) /\ FlagOK(r)
  BY <1>3 DEF FreeOK, FlagOK, StaticBut, SameContext
<1>12. NoexsOK(r, Task)
  BY <1>1, <1>3 DEF NoexsOK, StaticBut, Data, SchedType
<1> QED BY <1>1, <1>6, <1>8, <1>9, <1>10, <1>11, <1>12 DEF Static

(* change_priority, on a state whose base priority the call has set. *)
LEMMA ChangePriority ==
  ASSUME NEW j, Static(j), NEW t \in Task, NEW newpri \in TPRI,
         NEW mtxmode \in BOOLEAN, NEW r, r = change_priority(j, t, newpri, mtxmode)
  PROVE  Static(r) /\ SameContext(j, r) /\ Reports(j, r) /\ Keeps(j, r)
<1>1. CASE "RUNNABLE" \in j.tstat[t]
  <2>1. r = change_ready(j, t, newpri, mtxmode)
    BY <1>1 DEF change_priority, TSTAT_RUNNABLE
  <2>2. PICK R \in SUBSET Task : R = Runnable(j)
    BY DEF Runnable
  <2>3. SchedType(j) /\ ReadyQueueOK(j, R) /\ SchedtskOK(j) /\ t \in R
    BY <1>1, <2>2 DEF Static, Data, Runnable, TSTAT_RUNNABLE
  <2>5. /\ SchedType(r) /\ ReadyQueueOK(r, R) /\ SchedtskOK(r)
        /\ Reports(j, r) /\ Frame(j, r, ReadyFields \cup {"priority"})
    BY <2>1, <2>3, ChangeReady
  <2>6. /\ r.tstat = j.tstat /\ r.winfo = j.winfo /\ r.tmevtb = j.tmevtb
        /\ r.bpriority = j.bpriority /\ r.actque = j.actque /\ r.wupque = j.wupque
        /\ r.newbpri = j.newbpri /\ r.tskatr = j.tskatr
    BY <2>5 DEF Frame, Static, Data, KernelFields, ReadyFields
  <2>7. Frame(j, r, TaskFields \cup ReadyFields)
    BY <2>5 DEF Frame, TaskFields
  <2>8. Runnable(r) = R
    BY <2>2, <2>6 DEF Runnable, TSTAT_RUNNABLE
  <2>9. TaskType(r) /\ WaitsOK(r, Task) /\ NoexsOK(r, Task)
    BY <2>6 DEF TaskType, WaitsOK, NoexsOK, Static, Data
  <2>10. Static(r) /\ SameContext(j, r)
    BY <2>5, <2>7, <2>8, <2>9, TaskChange
  <2> QED BY <2>5, <2>6, <2>10 DEF Keeps
<1>2. CASE "RUNNABLE" \notin j.tstat[t]
  <2>1. PICK y : y = [j EXCEPT !.priority[t] = newpri]
    OBVIOUS
  <2>2. y.priority = [j.priority EXCEPT ![t] = newpri] /\ Frame(j, y, {"priority"})
    BY <2>1 DEF Frame, Static, Data, KernelFields
  <2>3. r = y \/ \E o : r = wobj_change_priority(y, o, t)
    BY <1>2, <2>1 DEF change_priority, TSTAT_RUNNABLE
  <2>4. KernelFields \subseteq DOMAIN y
    BY <2>2 DEF Frame, Static, Data
  <2>5. Frame(y, r, {"wait_queue"})
    BY <2>3, <2>4 DEF wobj_change_priority, Frame, KernelFields
  <2>6. r.priority = [j.priority EXCEPT ![t] = newpri] /\ Frame(j, r, {"priority", "wait_queue"})
    BY <2>2, <2>4, <2>5 DEF Frame, KernelFields
  <2>7. /\ r.tstat = j.tstat /\ r.winfo = j.winfo /\ r.tmevtb = j.tmevtb
        /\ r.bpriority = j.bpriority /\ r.actque = j.actque /\ r.wupque = j.wupque
        /\ r.newbpri = j.newbpri /\ r.tskatr = j.tskatr
    BY <2>6 DEF Frame, Static, Data, KernelFields
  <2>8. /\ TaskType(r) /\ WaitsOK(r, Task) /\ NoexsOK(r, Task)
        /\ r.tstat \in [Task -> SUBSET TstatFlag]
    BY <2>7 DEF TaskType, WaitsOK, NoexsOK, Static, Data, SchedType
  <2>9. /\ r.priority \in [Task -> TPRI]
        /\ \A u \in Task : "RUNNABLE" \in j.tstat[u] => r.priority[u] = j.priority[u]
    BY <1>2, <2>6, ZenonT(60) DEF Static, Data, SchedType
  <2>10. Frame(j, r, TaskFields)
    BY <2>6 DEF Frame, TaskFields
  <2> QED BY <2>7, <2>8, <2>9, <2>10, NoQueueChange
<1> QED BY <1>1, <1>2

LeftReady(j, y, t, r) ==
  /\ SchedType(r) /\ ReadyQueueOK(r, Runnable(r) \ {t}) /\ SchedtskOK(r)
  /\ r.tstat = y.tstat /\ Frame(j, r, {"tstat"} \cup ReadyFields) /\ Reports(j, r)
  /\ j.p_schedtsk # t => r.p_schedtsk = j.p_schedtsk

(* t leaves the ready queue and makes no dispatch: the call goes on to     *)
(* change t's state.                                                       *)
LEMMA LeaveReady ==
  ASSUME NEW j, Static(j), NEW t \in Task, "RUNNABLE" \in j.tstat[t],
         NEW y, Frame(j, y, {"tstat"}), y.tstat \in [Task -> SUBSET TstatFlag],
         \A u \in Task \ {t} : y.tstat[u] = j.tstat[u],
         NEW r, r = make_non_runnable(y, t)
  PROVE  LeftReady(j, y, t, r)
<1>1. /\ KernelFields \subseteq DOMAIN y /\ \A f \in KernelFields \ {"tstat"} : y[f] = j[f]
  BY DEF Frame, Static, Data
<1>2. /\ y.priority = j.priority /\ y.ready_queue = j.ready_queue
      /\ y.ready_primap = j.ready_primap /\ y.p_schedtsk = j.p_schedtsk
      /\ y.dspflg = j.dspflg /\ y.dspreq = j.dspreq
  BY <1>1 DEF KernelFields
<1>3. SchedType(y)
  BY <1>1, <1>2 DEF SchedType, Static, Data, KernelFields
<1>4. PICK R \in SUBSET Task : R = Runnable(j)
  BY DEF Runnable
<1>5. t \in R /\ ReadyQueueOK(y, R) /\ SchedtskOK(y)
  <2>1. SchedType(j) /\ ReadyQueueOK(j, R) /\ SchedtskOK(j)
    BY <1>4 DEF Static, Data
  <2>2. \A u \in R : y.priority[u] = j.priority[u]
    BY <1>2
  <2>3. ReadyQueueOK(y, R) /\ SchedtskOK(y)
    BY <2>1, <2>2, <1>2, SchedFrame
  <2> QED BY <1>4, <2>3 DEF Runnable, TSTAT_RUNNABLE
<1>6. /\ SchedType(r) /\ ReadyQueueOK(r, R \ {t}) /\ SchedtskOK(r)
      /\ Reports(y, r) /\ Frame(y, r, ReadyFields)
      /\ y.p_schedtsk # t => r.p_schedtsk = y.p_schedtsk
  BY <1>3, <1>5, MakeNonRunnable
<1>7. r.tstat = y.tstat
  BY <1>1, <1>6 DEF Frame, KernelFields, ReadyFields
<1>8. R \ {t} = Runnable(r) \ {t}
  BY <1>4, <1>7 DEF Runnable, TSTAT_RUNNABLE
<1>9. Reports(j, r)
  BY <1>2, <1>6 DEF Reports
<1>10. Frame(j, r, {"tstat"} \cup ReadyFields)
  BY <1>6 DEF Frame
<1> QED BY <1>2, <1>6, <1>7, <1>8, <1>9, <1>10 DEF LeftReady

-----------------------------------------------------------------------------
(***************************************************************************)
(* Without mutexes every mutex_queue stays empty, so that the functions of *)
(* module MutexHooks are not called.                                       *)
(***************************************************************************)
NoMutex(x) == "mutex_queue" \in DOMAIN x /\ x.mutex_queue = [t \in Task |-> <<>>]

(* The functions of the ready queue leave mutex_queue alone. *)
LEMMA NoMutexReady ==
  ASSUME NEW j, NoMutex(j), NEW t, NEW p, NEW mode
  PROVE  /\ NoMutex(make_runnable(j, t)) /\ NoMutex(make_non_runnable(j, t))
         /\ NoMutex(change_priority(j, t, p, mode)) /\ NoMutex(rotate_ready_queue(j, p))
<1>1. NoMutex(make_runnable(j, t)) /\ NoMutex(rotate_ready_queue(j, p))
  BY DEF NoMutex, make_runnable, rotate_ready_queue
<1>2. NoMutex(make_non_runnable(j, t))
  BY DEF NoMutex, make_non_runnable, ready_delete
<1>3. NoMutex(change_ready(j, t, p, mode))
  BY DEF NoMutex, change_ready, ready_delete
<1>4. NoMutex(change_priority(j, t, p, mode))
  BY <1>3 DEF NoMutex, change_priority, wobj_change_priority
<1> QED BY <1>1, <1>2, <1>4

(* So do the functions of the task states. *)
LEMMA NoMutexTask ==
  ASSUME NEW j, NoMutex(j), NEW t
  PROVE  /\ NoMutex(make_dormant(j, t)) /\ NoMutex(make_active(j, t))
         /\ NoMutex(make_non_wait(j, t)) /\ NoMutex(wait_dequeue_wobj(j, t))
         /\ NoMutex(wait_dequeue_tmevtb(j, t))
<1>1. /\ NoMutex(make_dormant(j, t)) /\ NoMutex(wait_dequeue_wobj(j, t))
      /\ NoMutex(wait_dequeue_tmevtb(j, t))
  BY DEF NoMutex, make_dormant, wait_dequeue_wobj, wait_dequeue_tmevtb
<1>2. /\ NoMutex([activate_context(j, t) EXCEPT !.tstat[t] = TS_RUNNABLE])
      /\ NoMutex([j EXCEPT !.tstat[t] = TS_RUNNABLE])
      /\ NoMutex([j EXCEPT !.tstat[t] = TS_SUSPENDED])
  BY DEF NoMutex, activate_context
<1> QED BY <1>1, <1>2, NoMutexReady DEF make_active, make_non_wait

(* So do the dispatcher and the ends of the service calls. *)
LEMMA NoMutexLeave ==
  ASSUME NEW j, NoMutex(j), NEW i
  PROVE  /\ NoMutex(dispatcher(j)) /\ NoMutex(t_leave(j)) /\ NoMutex(i_leave(j))
         /\ NoMutex(Void(i, j))
BY DEF NoMutex, dispatcher, t_leave, i_leave, Void

(* So do the functions that start a wait. *)
LEMMA NoMutexWait ==
  ASSUME NEW j, NoMutex(j), NEW x
  PROVE  NoMutex(make_wait(j)) /\ NoMutex(make_wait_tmevtb(j, x))
<1>1. NoMutex(Void(j, make_non_runnable(j, j.p_runtsk)))
  BY NoMutexReady, NoMutexLeave
<1> QED BY <1>1 DEF NoMutex, make_wait, make_wait_tmevtb

(* So do the functions that end a wait. *)
LEMMA NoMutexRelease ==
  ASSUME NEW j, NoMutex(j), NEW t
  PROVE  /\ NoMutex(wait_complete(j, t)) /\ NoMutex(wait_release(j, t))
         /\ NoMutex(wait_tmout(j, t)) /\ NoMutex(wait_tmout_ok(j, t))
<1>1. ASSUME NEW y, NoMutex(y), NEW e PROVE NoMutex(set_wercd(y, t, e))
  BY <1>1 DEF NoMutex, set_wercd
<1> QED BY <1>1, NoMutexTask DEF wait_complete, wait_release, wait_tmout, wait_tmout_ok

(* end_task and the locked part of chg_pri as they are without mutexes. *)
LEMMA NoMutexEnd ==
  ASSUME NEW j, NoMutex(j), NEW t \in Task, NEW d, d = make_dormant(j, t)
  PROVE  /\ end_task(j, t) = IF d.actque[t] THEN make_active([d EXCEPT !.actque[t] = FALSE], t)
                             ELSE d
         /\ NoMutex(end_task(j, t))
<1>1. j.mutex_queue[t] = <<>>
  BY DEF NoMutex
<1>2. end_task(j, t) = IF d.actque[t] THEN make_active([d EXCEPT !.actque[t] = FALSE], t)
                       ELSE d
  BY <1>1 DEF end_task
<1>3. NoMutex(d)
  BY NoMutexTask
<1>4. NoMutex([d EXCEPT !.actque[t] = FALSE])
  BY <1>3 DEF NoMutex
<1> QED BY <1>2, <1>3, <1>4, NoMutexTask

(* chg_pri for a task without mutexes is change_priority. *)
LEMMA NoMutexChgPri ==
  ASSUME NEW j, NoMutex(j), NEW t \in Task, NEW p
  PROVE  /\ \/ chg_pri_locked(j, t, p) = j
            \/ chg_pri_locked(j, t, p)
                 = t_leave(change_priority([j EXCEPT !.bpriority[t] = p], t, p, FALSE))
         /\ NoMutex(chg_pri_locked(j, t, p))
<1>1. j.mutex_queue[t] = <<>>
  BY DEF NoMutex
<1>2. \/ chg_pri_locked(j, t, p) = j
      \/ chg_pri_locked(j, t, p)
           = t_leave(change_priority([j EXCEPT !.bpriority[t] = p], t, p, FALSE))
  BY <1>1 DEF chg_pri_locked
<1>3. NoMutex([j EXCEPT !.bpriority[t] = p])
  BY DEF NoMutex
<1> QED BY <1>2, <1>3, NoMutexReady, NoMutexLeave

(* The end of ext_tsk and ter_tsk once the task's mutexes are released: it *)
(* becomes dormant (d) and restarts for a queued activation request.       *)
LEMMA DormantRestart ==
  ASSUME NEW j, NEW t \in Task, StaticBut(j, t), j.tskatr[t] # "TA_NOEXS",
         NEW d, d = make_dormant(j, t),
         NEW r, r = IF d.actque[t] THEN make_active([d EXCEPT !.actque[t] = FALSE], t)
                    ELSE d
  PROVE  /\ Static(r) /\ SameContext(j, r) /\ Reports(j, r)
         /\ \A u \in Task \ {t} : "RUNNABLE" \in j.tstat[u] => "RUNNABLE" \in r.tstat[u]
<1>2. /\ Static(d) /\ d.tstat = [j.tstat EXCEPT ![t] = {}]
      /\ Frame(j, d, {"tstat", "bpriority", "priority", "wupque"})
  BY MakeDormant
<1>3. /\ SameContext(j, d) /\ d.tskatr = j.tskatr /\ d.dspreq = j.dspreq
      /\ d.p_schedtsk = j.p_schedtsk
  BY <1>2 DEF Frame, StaticBut, Data, KernelFields, SameContext
<1>4. d.tstat[t] = {} /\ \A u \in Task \ {t} : d.tstat[u] = j.tstat[u]
  BY <1>2 DEF StaticBut, Data, SchedType
<1>6. Reports(j, d)
  BY <1>3 DEF Reports
<1>7. CASE ~d.actque[t]
  <2>1. r = d
    BY <1>7
  <2> QED BY <2>1, <1>2, <1>3, <1>4, <1>6
<1>8. CASE d.actque[t]
  <2>1. PICK y : y = [d EXCEPT !.actque[t] = FALSE]
    OBVIOUS
  <2>2. r = make_active(y, t)
    BY <1>8, <2>1
  <2>3. y.actque = [d.actque EXCEPT ![t] = FALSE] /\ Frame(d, y, {"actque"})
    BY <2>1, <1>2 DEF Frame, Static, Data, KernelFields
  <2>4. /\ y.tstat = d.tstat /\ y.winfo = d.winfo /\ y.tmevtb = d.tmevtb
        /\ y.bpriority = d.bpriority /\ y.wupque = d.wupque /\ y.priority = d.priority
        /\ y.newbpri = d.newbpri /\ y.tskatr = d.tskatr /\ y.dspreq = d.dspreq
    BY <2>3, <1>2 DEF Frame, Static, Data, KernelFields
  <2>5. /\ TaskType(y) /\ WaitsOK(y, Task) /\ NoexsOK(y, Task)
        /\ y.tstat \in [Task -> SUBSET TstatFlag] /\ y.priority \in [Task -> TPRI]
    <3>1. Data(d) /\ WaitsOK(d, Task) /\ NoexsOK(d, Task)
      BY <1>2 DEF Static
    <3>2. y.actque \in [Task -> BOOLEAN]
      BY <3>1, <2>3 DEF Data
    <3>3. TaskType(y)
      BY <3>1, <3>2, <2>4 DEF TaskType, Data
    <3>4. WaitsOK(y, Task) /\ NoexsOK(y, Task)
      BY <3>1, <2>4, Zenon DEF WaitsOK, NoexsOK
    <3>5. y.tstat \in [Task -> SUBSET TstatFlag] /\ y.priority \in [Task -> TPRI]
      BY <3>1, <2>4 DEF Data, SchedType
    <3> QED BY <3>3, <3>4, <3>5
  <2>6. Frame(d, y, TaskFields)
    BY <2>3 DEF Frame, TaskFields
  <2>7. Static(y) /\ SameContext(d, y) /\ Reports(d, y)
    BY <2>4, <2>5, <2>6, <1>2, NoQueueChange
  <2>8. y.tstat[t] = {} /\ y.tskatr[t] # "TA_NOEXS"
    BY <2>4, <1>3, <1>4
  <2> HIDE <2>1
  <2>9. Static(r) /\ SameContext(y, r) /\ Reports(y, r) /\ Keeps(y, r)
    BY <2>2, <2>7, <2>8, MakeActive
  <2>10. SameContext(j, r)
    BY <2>7, <2>9, <1>3 DEF SameContext
  <2>11. Reports(j, r)
    BY <2>7, <2>9, <1>3, <1>6 DEF Reports, SameContext
  <2>12. \A u \in Task \ {t} : "RUNNABLE" \in j.tstat[u] => "RUNNABLE" \in r.tstat[u]
    BY ONLY <2>4, <2>9, <1>4 DEF Keeps
  <2> QED BY <2>9, <2>10, <2>11, <2>12
<1> QED BY <1>7, <1>8

(* The end of ext_tsk and ter_tsk, without mutexes. *)
LEMMA EndTask ==
  ASSUME NEW j, NEW t \in Task, StaticBut(j, t), NoMutex(j),
         j.tskatr[t] # "TA_NOEXS", NEW r, r = end_task(j, t)
  PROVE  /\ Static(r) /\ SameContext(j, r) /\ Reports(j, r)
         /\ \A u \in Task \ {t} : "RUNNABLE" \in j.tstat[u] => "RUNNABLE" \in r.tstat[u]
<1>1. PICK d : d = make_dormant(j, t)
  OBVIOUS
<1>2. r = IF d.actque[t] THEN make_active([d EXCEPT !.actque[t] = FALSE], t) ELSE d
  BY <1>1, NoMutexEnd
<1> QED BY <1>1, <1>2, DormantRestart

(* The state, WINFO and callback of a wait that makes j into r. *)
Waits(j, t, r, kind, x, w, m) ==
  /\ x = [j EXCEPT !.tstat[t] = {"WAITING", kind}]
  /\ \/ kind \in WaitKind \ {"DLY"} /\ w = "NULL" /\ m = "none"
     \/ kind \in WaitKind \ {"DLY"} /\ w = "p_tmevtb" /\ m = "wait_tmout"
     \/ kind = "DLY" /\ w = "p_tmevtb" /\ m = "wait_tmout_ok"
  /\ \/ w = "NULL" /\ r = make_wait(x)
     \/ w = "p_tmevtb" /\ r = make_wait_tmevtb(x, m)

StartsWait(j, r, t, kind) == r.tstat = [j.tstat EXCEPT ![t] = {"WAITING", kind}]

(* The running task starts to wait: begin_wait, then make_wait (w = NULL)  *)
(* or make_wait_tmevtb (w = p_tmevtb).                                     *)
LEMMA WaitStarts ==
  ASSUME NEW j, Static(j), NEW t \in Task, t = j.p_runtsk, "RUNNABLE" \in j.tstat[t],
         NEW r, NEW kind, NEW x, NEW w, NEW m, Waits(j, t, r, kind, x, w, m)
  PROVE  /\ Static(r) /\ SameContext(j, r) /\ StartsWait(j, r, t, kind)
         /\ Frame(j, r, {"tstat", "winfo", "tmevtb"} \cup ReadyFields)
<1>1. /\ x = [j EXCEPT !.tstat[t] = {"WAITING", kind}]
      /\ kind # "RUNNABLE" /\ {"WAITING", kind} \subseteq TstatFlag
      /\ \/ kind # "DLY" /\ w = "NULL" /\ m = "none"
         \/ kind # "DLY" /\ w = "p_tmevtb" /\ m = "wait_tmout"
         \/ kind = "DLY" /\ w = "p_tmevtb" /\ m = "wait_tmout_ok"
      /\ \/ w = "NULL" /\ r = make_wait(x)
         \/ w = "p_tmevtb" /\ r = make_wait_tmevtb(x, m)
  BY DEF Waits, TstatFlag, WaitKind, WobjKind, WobjcbKind
<1>2. x.tstat = [j.tstat EXCEPT ![t] = {"WAITING", kind}] /\ Frame(j, x, {"tstat"})
  BY <1>1 DEF Frame, Static, Data, KernelFields
<1>3. x.p_runtsk = t
  BY <1>2 DEF Frame, Static, Data, KernelFields
<1>4. /\ x.tstat \in [Task -> SUBSET TstatFlag]
      /\ x.tstat[t] = {"WAITING", kind} /\ \A u \in Task \ {t} : x.tstat[u] = j.tstat[u]
  BY <1>1, <1>2 DEF Static, Data, SchedType
<1>5. PICK n : n = make_non_runnable(x, t)
  OBVIOUS
<1>6. /\ SchedType(n) /\ ReadyQueueOK(n, Runnable(n) \ {t}) /\ SchedtskOK(n)
      /\ n.tstat = x.tstat /\ Frame(j, n, {"tstat"} \cup ReadyFields)
  <2>1. /\ Static(j) /\ "RUNNABLE" \in j.tstat[t] /\ t \in Task /\ Frame(j, x, {"tstat"})
        /\ x.tstat \in [Task -> SUBSET TstatFlag]
        /\ \A u \in Task \ {t} : x.tstat[u] = j.tstat[u]
    BY <1>2, <1>4
  <2>2. LeftReady(j, x, t, n)
    BY ONLY <2>1, <1>5, LeaveReady
  <2> QED BY <2>2 DEF LeftReady
<1>7. /\ KernelFields \subseteq DOMAIN n
      /\ \A f \in KernelFields \ ({"tstat"} \cup ReadyFields) : n[f] = j[f]
  BY <1>6 DEF Frame, Static, Data
<1>8. /\ n.winfo = j.winfo /\ n.tmevtb = j.tmevtb /\ n.bpriority = j.bpriority
      /\ n.actque = j.actque /\ n.wupque = j.wupque /\ n.newbpri = j.newbpri
      /\ n.tskatr = j.tskatr
  BY <1>7 DEF KernelFields, ReadyFields
<1>9. j.tmevtb[t] = "none" /\ j.tskatr[t] # "TA_NOEXS"
  BY DEF Static, WaitsOK, WaitOK, NoexsOK
<1>10. x.dspreq = j.dspreq /\ j.dspreq \in BOOLEAN
  BY <1>2 DEF Frame, Static, Data, KernelFields, SchedType
<1>11. /\ r.winfo = [j.winfo EXCEPT ![t] = w] /\ r.tmevtb[t] = m
       /\ r.tmevtb \in [Task -> Callback]
       /\ \A u \in Task \ {t} : r.tmevtb[u] = j.tmevtb[u]
       /\ r.dspreq = j.dspreq
       /\ Frame(n, r, {"winfo", "tmevtb", "dspreq"})
  <2>1. CASE w = "NULL"
    <3>1. r = [n EXCEPT !.dspreq = j.dspreq, !.winfo[t] = "NULL"] /\ m = "none"
      BY <2>1, <1>1, <1>3, <1>5, <1>10 DEF make_wait, Void
    <3>2. /\ r.winfo = [j.winfo EXCEPT ![t] = w] /\ r.tmevtb = j.tmevtb
          /\ r.dspreq = j.dspreq /\ Frame(n, r, {"winfo", "tmevtb", "dspreq"})
      BY <2>1, <3>1, <1>7, <1>8 DEF KernelFields, Frame
    <3> QED BY <3>1, <3>2, <1>9 DEF Static, Data
  <2>2. CASE w = "p_tmevtb"
    <3>1. r = [n EXCEPT !.dspreq = j.dspreq, !.winfo[t] = "p_tmevtb", !.tmevtb[t] = m]
      BY <2>2, <1>1, <1>3, <1>5, <1>10 DEF make_wait_tmevtb, Void
    <3>2. /\ r.winfo = [j.winfo EXCEPT ![t] = w] /\ r.tmevtb = [j.tmevtb EXCEPT ![t] = m]
          /\ r.dspreq = j.dspreq /\ Frame(n, r, {"winfo", "tmevtb", "dspreq"})
      BY <2>2, <3>1, <1>7, <1>8 DEF KernelFields, Frame
    <3> QED BY <3>2, <1>1 DEF Static, Data, Callback
  <2> QED BY <2>1, <2>2, <1>1
<1>12. /\ r.tstat = x.tstat /\ r.bpriority = j.bpriority /\ r.actque = j.actque
       /\ r.wupque = j.wupque /\ r.newbpri = j.newbpri /\ r.tskatr = j.tskatr
       /\ r.priority = n.priority /\ r.ready_queue = n.ready_queue
       /\ r.ready_primap = n.ready_primap /\ r.p_schedtsk = n.p_schedtsk
       /\ r.dspflg = n.dspflg /\ DOMAIN r = DOMAIN n
  BY <1>6, <1>7, <1>8, <1>11 DEF Frame, KernelFields
<1> HIDE <1>1, <1>5
<1>13. SchedType(r)
  BY <1>6, <1>10, <1>11, <1>12 DEF SchedType
<1>14. PICK R \in SUBSET Task : R = Runnable(n) \ {t}
  BY DEF Runnable
<1>15. Runnable(r) = R
  BY <1>4, <1>6, <1>12, <1>14, <1>1 DEF Runnable, TSTAT_RUNNABLE
<1>16. ReadyQueueOK(r, R) /\ SchedtskOK(r)
  <2>1. ReadyQueueOK(n, R) /\ \A u \in R : r.priority[u] = n.priority[u]
    BY <1>6, <1>12, <1>14
  <2> QED BY <2>1, <1>6, <1>12, SchedFrame
<1>17. TaskType(r)
  BY <1>1, <1>11, <1>12 DEF TaskType, Static, Data, Winfo
<1>18. WaitsOK(r, Task)
  <2>1. WaitOK({"WAITING", kind}, w, m)
    BY <1>1 DEF WaitOK
  <2>2. ASSUME NEW u \in Task \ {t}
        PROVE  WaitOK(j.tstat[u], j.winfo[u], j.tmevtb[u])
    BY DEF Static, WaitsOK
  <2>3. /\ r.winfo[t] = w /\ r.tmevtb[t] = m /\ r.tstat[t] = {"WAITING", kind}
        /\ \A u \in Task \ {t} : /\ r.winfo[u] = j.winfo[u] /\ r.tmevtb[u] = j.tmevtb[u]
                                 /\ r.tstat[u] = j.tstat[u]
    BY <1>4, <1>11, <1>12 DEF Static, Data
  <2> QED BY <2>1, <2>2, <2>3 DEF WaitsOK
<1>19. NoexsOK(r, Task)
  BY <1>4, <1>9, <1>12 DEF NoexsOK, Static
<1>20. Frame(j, r, TaskFields \cup ReadyFields)
  BY <1>6, <1>11 DEF Frame, TaskFields, ReadyFields
<1>21. Frame(j, r, {"tstat", "winfo", "tmevtb"} \cup ReadyFields)
  BY <1>6, <1>11 DEF Frame, ReadyFields
<1>22. StartsWait(j, r, t, kind)
  BY <1>2, <1>12 DEF StartsWait
<1> QED BY <1>13, <1>15, <1>16, <1>17, <1>18, <1>19, <1>20, <1>21, <1>22, TaskChange

(* The waits of slp_tsk, tslp_tsk and dly_tsk. *)
LEMMA StartWait ==
  ASSUME NEW j, Static(j), NEW t \in Task, t = j.p_runtsk, "RUNNABLE" \in j.tstat[t],
         NEW y, y = [j EXCEPT !.tstat[t] = TS_WAITING("SLP")],
         NEW z, z = [j EXCEPT !.tstat[t] = TS_WAITING("DLY")],
         NEW r, \/ r = make_wait(y)
                \/ r = make_wait_tmevtb(y, "wait_tmout")
                \/ r = make_wait_tmevtb(z, "wait_tmout_ok")
  PROVE  Static(r) /\ SameContext(j, r)
<1>0. PICK kind, x, w, m : Waits(j, t, r, kind, x, w, m)
  <2>1. CASE r = make_wait(y)
    <3>1. y = [j EXCEPT !.tstat[t] = {"WAITING", "SLP"}]
      BY DEF TS_WAITING
    <3> WITNESS "SLP", y, "NULL", "none"
    <3> QED BY <2>1, <3>1 DEF Waits, WaitKind
  <2>2. CASE r = make_wait_tmevtb(y, "wait_tmout")
    <3>1. y = [j EXCEPT !.tstat[t] = {"WAITING", "SLP"}]
      BY DEF TS_WAITING
    <3> WITNESS "SLP", y, "p_tmevtb", "wait_tmout"
    <3> QED BY <2>2, <3>1 DEF Waits, WaitKind
  <2>3. CASE r = make_wait_tmevtb(z, "wait_tmout_ok")
    <3>1. z = [j EXCEPT !.tstat[t] = {"WAITING", "DLY"}]
      BY DEF TS_WAITING
    <3> WITNESS "DLY", z, "p_tmevtb", "wait_tmout_ok"
    <3> QED BY <2>3, <3>1 DEF Waits
  <2> QED BY <2>1, <2>2, <2>3
<1> QED BY <1>0, WaitStarts

-----------------------------------------------------------------------------
(* A chain of functions after which no running task has been taken away. *)
Call(j, r) == Static(r) /\ SameContext(j, r) /\ Reports(j, r) /\ Keeps(j, r)

MinorFields == {"actque", "wupque", "newbpri", "bpriority", "mutex_queue"}

(* A call that changes only fields the scheduler does not look at. *)
LEMMA Minor ==
  ASSUME NEW j, Static(j), NEW r, Frame(j, r, MinorFields), TaskType(r)
  PROVE  Call(j, r) /\ r.tstat = j.tstat /\ r.dspreq = j.dspreq /\ r.tskatr = j.tskatr
<1>1. /\ KernelFields \subseteq DOMAIN r /\ \A f \in KernelFields \ MinorFields : r[f] = j[f]
  BY DEF Frame, Static, Data
<1>2. /\ r.tstat = j.tstat /\ r.winfo = j.winfo /\ r.tmevtb = j.tmevtb
      /\ r.priority = j.priority /\ r.tskatr = j.tskatr /\ r.dspreq = j.dspreq
  BY <1>1 DEF KernelFields, MinorFields
<1>3. /\ WaitsOK(r, Task) /\ NoexsOK(r, Task)
      /\ r.tstat \in [Task -> SUBSET TstatFlag] /\ r.priority \in [Task -> TPRI]
  BY <1>2 DEF WaitsOK, NoexsOK, Static, Data, SchedType
<1>4. Frame(j, r, TaskFields)
  BY DEF Frame, TaskFields, MinorFields
<1>5. Static(r) /\ SameContext(j, r) /\ Reports(j, r) /\ Keeps(j, r)
  BY <1>2, <1>3, <1>4, NoQueueChange
<1> QED BY <1>2, <1>5 DEF Call

(* A chain of functions called by a task, with the dispatch it asks for,   *)
(* reestablishes the invariant.                                            *)
LEMMA CallTaskLeave ==
  ASSUME NEW j, IInv(j), j.kerflg, j.excpt_nest_count = 0, NEW y, Call(j, y),
         NEW r, r = t_leave(y)
  PROVE  IInv(r)
<1>1. j.p_runtsk \in Task /\ "RUNNABLE" \in j.tstat[j.p_runtsk]
  BY DEF IInv, Context, Dispatched, Running, Static, Data
<1>2. "RUNNABLE" \in y.tstat[j.p_runtsk]
  BY <1>1 DEF Call, Keeps
<1> QED BY <1>2, TaskLeave DEF Call

(* The same for a call that asks for no dispatch. *)
LEMMA CallReturn ==
  ASSUME NEW j, IInv(j), j.kerflg, j.excpt_nest_count = 0, NEW y, Call(j, y),
         y.dspreq = j.dspreq
  PROVE  IInv(y)
<1>1. y = t_leave(y)
  BY DEF t_leave, IInv, Context
<1> QED BY <1>1, CallTaskLeave

(* The same for a handler, which leaves the dispatch to ret_int. *)
LEMMA CallIntLeave ==
  ASSUME NEW j, IInv(j), j.kerflg, j.excpt_nest_count > 0, NEW y, Call(j, y),
         NEW r, r = i_leave(y)
  PROVE  IInv(r)
BY IntLeave DEF Call

(* What holds when a task makes a service call. *)
LEMMA TaskContext ==
  ASSUME IInv(k), TSKCTX
  PROVE  /\ Static(k) /\ k.kerflg /\ k.excpt_nest_count = 0 /\ k.p_runtsk \in Task
         /\ "RUNNABLE" \in k.tstat[k.p_runtsk] /\ ~k.dspreq
         /\ k.dspflg => k.p_runtsk = k.p_schedtsk
         /\ k.tskatr[k.p_runtsk] # "TA_NOEXS"
BY DEF IInv, TSKCTX, Context, Dispatched, Running, Static, Data, NoexsOK

(* act_tsk and iact_tsk. *)
LEMMA Activate ==
  ASSUME IInv(k), NEW t \in Task, can_activate(t)
  PROVE  Call(k, activate(t))
<1>1. PICK r : r = activate(t)
  OBVIOUS
<1>2. Static(k)
  BY DEF IInv
<1>3. CASE k.tstat[t] = {}
  <2>1. r = make_active(k, t) /\ k.tskatr[t] # "TA_NOEXS"
    BY <1>1, <1>3 DEF activate, TSTAT_DORMANT, TS_DORMANT, can_activate, exists
  <2>2. Call(k, r)
    BY <2>1, <1>2, <1>3, MakeActive DEF Call
  <2> QED BY <2>2, <1>1
<1>4. CASE k.tstat[t] # {}
  <2>1. r = [k EXCEPT !.actque[t] = TRUE]
    BY <1>1, <1>4 DEF activate, TSTAT_DORMANT, TS_DORMANT
  <2>2. r.actque = [k.actque EXCEPT ![t] = TRUE] /\ Frame(k, r, {"actque"})
    BY <2>1, <1>2 DEF Frame, Static, Data, KernelFields
  <2>3. /\ r.bpriority = k.bpriority /\ r.wupque = k.wupque /\ r.winfo = k.winfo
        /\ r.tmevtb = k.tmevtb /\ r.newbpri = k.newbpri
    BY <2>2, <1>2 DEF Frame, Static, Data, KernelFields
  <2>4. TaskType(r) /\ Frame(k, r, MinorFields)
    BY <2>2, <2>3, <1>2 DEF TaskType, Static, Data, Frame, MinorFields
  <2>5. Call(k, r)
    BY <2>4, <1>2, Minor
  <2> QED BY <2>5, <1>1
<1> QED BY <1>3, <1>4

(* wup_tsk and iwup_tsk. *)
LEMMA Wakeup ==
  ASSUME IInv(k), NEW t \in Task, can_wakeup(t)
  PROVE  Call(k, wakeup(t))
<1>1. PICK r : r = wakeup(t)
  OBVIOUS
<1>2. Static(k)
  BY DEF IInv
<1>3. CASE "SLP" \in k.tstat[t]
  <2>1. r = wait_complete(k, t)
    BY <1>1, <1>3 DEF wakeup, TSTAT_WAIT
  <2>2. "WAITING" \in k.tstat[t]
    BY <1>2, <1>3 DEF Static, WaitsOK, WaitOK
  <2>3. Call(k, r)
    BY <2>1, <2>2, <1>2, WaitEnd DEF Call
  <2> QED BY <2>3, <1>1
<1>4. CASE "SLP" \notin k.tstat[t]
  <2>1. r = [k EXCEPT !.wupque[t] = TRUE]
    BY <1>1, <1>4 DEF wakeup, TSTAT_WAIT
  <2>2. r.wupque = [k.wupque EXCEPT ![t] = TRUE] /\ Frame(k, r, {"wupque"})
    BY <2>1, <1>2 DEF Frame, Static, Data, KernelFields
  <2>3. /\ r.bpriority = k.bpriority /\ r.actque = k.actque /\ r.winfo = k.winfo
        /\ r.tmevtb = k.tmevtb /\ r.newbpri = k.newbpri
    BY <2>2, <1>2 DEF Frame, Static, Data, KernelFields
  <2>4. TaskType(r) /\ Frame(k, r, MinorFields)
    BY <2>2, <2>3, <1>2 DEF TaskType, Static, Data, Frame, MinorFields
  <2>5. Call(k, r)
    BY <2>4, <1>2, Minor
  <2> QED BY <2>5, <1>1
<1> QED BY <1>3, <1>4

(* rot_rdq and irot_rdq. *)
LEMMA Rotate ==
  ASSUME IInv(k), NEW pri \in TPRI
  PROVE  Call(k, rotate_ready_queue(k, pri))
<1>1. PICK r : r = rotate_ready_queue(k, pri)
  OBVIOUS
<1>2. PICK R \in SUBSET Task : R = Runnable(k)
  BY DEF Runnable
<1>3. SchedType(k) /\ ReadyQueueOK(k, R) /\ SchedtskOK(k) /\ Static(k)
  BY <1>2 DEF IInv, Static, Data
<1>4. /\ SchedType(r) /\ ReadyQueueOK(r, R) /\ SchedtskOK(r)
      /\ Reports(k, r) /\ Frame(k, r, ReadyFields)
  BY <1>1, <1>3, RotateReadyQueue
<1>5. /\ r.tstat = k.tstat /\ r.winfo = k.winfo /\ r.tmevtb = k.tmevtb
      /\ r.bpriority = k.bpriority /\ r.actque = k.actque /\ r.wupque = k.wupque
      /\ r.newbpri = k.newbpri /\ r.tskatr = k.tskatr
  BY <1>3, <1>4 DEF Frame, Static, Data, KernelFields, ReadyFields
<1>6. Runnable(r) = R /\ Frame(k, r, TaskFields \cup ReadyFields)
  BY <1>2, <1>4, <1>5 DEF Runnable, TSTAT_RUNNABLE, Frame
<1>7. TaskType(r) /\ WaitsOK(r, Task) /\ NoexsOK(r, Task)
  BY <1>3, <1>5 DEF TaskType, WaitsOK, NoexsOK, Static, Data
<1>8. Static(r) /\ SameContext(k, r)
  BY <1>3, <1>4, <1>6, <1>7, TaskChange
<1>9. Call(k, r)
  BY <1>4, <1>5, <1>8 DEF Call, Keeps
<1> QED BY <1>1, <1>9

(* sus_tsk. *)
LEMMA Suspend ==
  ASSUME IInv(k), NEW t \in Task, sus_tsk(t)
  PROVE  IInv(k')
<1>1. /\ Static(k) /\ k.kerflg /\ k.excpt_nest_count = 0 /\ k.p_runtsk \in Task
      /\ "RUNNABLE" \in k.tstat[k.p_runtsk] /\ ~k.dspreq
      /\ k.dspflg => k.p_runtsk = k.p_schedtsk
  BY TaskContext DEF sus_tsk, CHECK_TSKCTX_UNL
<1>2. /\ t = k.p_runtsk => k.dspflg
      /\ k.tstat[t] # {} /\ "SUSPENDED" \notin k.tstat[t] /\ k.tskatr[t] # "TA_NOEXS"
  BY DEF sus_tsk, TSTAT_DORMANT, TS_DORMANT, TSTAT_SUSPENDED, exists
<1>3. CASE "RUNNABLE" \in k.tstat[t]
  <2>1. PICK y : y = [k EXCEPT !.tstat[t] = {"SUSPENDED"}]
    OBVIOUS
  <2>2. PICK r : r = make_non_runnable(y, t)
    OBVIOUS
  <2>3. k' = t_leave(r)
    BY <1>3, <2>1, <2>2 DEF sus_tsk, TSTAT_RUNNABLE, TS_SUSPENDED
  <2>4. y.tstat = [k.tstat EXCEPT ![t] = {"SUSPENDED"}] /\ Frame(k, y, {"tstat"})
    BY <2>1, <1>1 DEF Frame, Static, Data, KernelFields
  <2>5. /\ y.tstat \in [Task -> SUBSET TstatFlag] /\ y.tstat[t] = {"SUSPENDED"}
        /\ \A u \in Task \ {t} : y.tstat[u] = k.tstat[u]
    BY <2>4, <1>1, SMTT(60) DEF Static, Data, SchedType, TstatFlag
  <2>6. LeftReady(k, y, t, r)
    BY <2>2, <2>4, <2>5, <1>1, <1>3, LeaveReady
  <2>7. /\ r.winfo = k.winfo /\ r.tmevtb = k.tmevtb /\ r.bpriority = k.bpriority
        /\ r.actque = k.actque /\ r.wupque = k.wupque /\ r.newbpri = k.newbpri
        /\ r.tskatr = k.tskatr
    BY <2>6, <1>1 DEF LeftReady, Frame, Static, Data, KernelFields, ReadyFields
  <2>8. TaskType(r) /\ NoexsOK(r, Task)
    BY <2>5, <2>6, <2>7, <1>1, <1>2 DEF LeftReady, TaskType, NoexsOK, Static, Data
  <2>9. WaitsOK(r, Task)
    <3>1. WaitOK({"SUSPENDED"}, k.winfo[t], k.tmevtb[t])
      <4>1. WaitOK(k.tstat[t], k.winfo[t], k.tmevtb[t])
        BY <1>1 DEF Static, WaitsOK
      <4> QED BY <4>1, <1>3 DEF WaitOK
    <3>2. ASSUME NEW u \in Task \ {t}
          PROVE  WaitOK(k.tstat[u], k.winfo[u], k.tmevtb[u])
      BY <1>1 DEF Static, WaitsOK
    <3> QED BY <3>1, <3>2, <2>5, <2>6, <2>7 DEF WaitsOK, LeftReady
  <2>10. Runnable(r) \ {t} = Runnable(r)
    BY <2>5, <2>6 DEF LeftReady, Runnable, TSTAT_RUNNABLE
  <2>11. /\ SchedType(r) /\ ReadyQueueOK(r, Runnable(r)) /\ SchedtskOK(r)
         /\ Frame(k, r, TaskFields \cup ReadyFields) /\ Reports(k, r)
    BY <2>6, <2>10 DEF LeftReady, Frame, TaskFields
  <2>12. Static(r) /\ SameContext(k, r)
    BY <2>8, <2>9, <2>11, <1>1, TaskChange
  <2>13. ASSUME ~r.dspreq PROVE "RUNNABLE" \in r.tstat[k.p_runtsk]
    <3>1. t # k.p_runtsk
      <4>1. ASSUME t = k.p_runtsk PROVE FALSE
        <5>1. k.dspflg /\ k.p_schedtsk = t
          BY <4>1, <1>1, <1>2
        <5>2. r.p_schedtsk = t
          BY <5>1, <2>11, <2>13 DEF Reports
        <5>3. r.p_schedtsk \in Runnable(r)
          <6>1. r.p_schedtsk # NULL
            BY <5>2, NullAssumption
          <6>2. Runnable(r) \in SUBSET Task
            BY DEF Runnable
          <6>3. \A u \in Runnable(r) : r.priority[u] = r.priority[u]
            OBVIOUS
          <6> QED BY <6>1, <6>2, <6>3, <2>11, SchedFrame
        <5> QED BY <5>2, <5>3, <2>10
      <4> QED BY <4>1
    <3> QED BY <3>1, <2>5, <2>6, <1>1 DEF LeftReady
  <2> HIDE <2>1, <2>2
  <2> QED BY <2>3, <2>11, <2>12, <2>13, <1>1, TaskLeave
<1>4. CASE "RUNNABLE" \notin k.tstat[t]
  <2>1. PICK r : r = k'
    OBVIOUS
  <2>2. r = [k EXCEPT !.tstat[t] = @ \cup {"SUSPENDED"}]
    BY <1>4, <2>1 DEF sus_tsk, TSTAT_RUNNABLE, TS_SUSPENDED
  <2>3. /\ r.tstat = [k.tstat EXCEPT ![t] = @ \cup {"SUSPENDED"}]
        /\ Frame(k, r, {"tstat"})
    BY <2>2, <1>1 DEF Frame, Static, Data, KernelFields
  <2>4. /\ r.winfo = k.winfo /\ r.tmevtb = k.tmevtb /\ r.bpriority = k.bpriority
        /\ r.actque = k.actque /\ r.wupque = k.wupque /\ r.newbpri = k.newbpri
        /\ r.tskatr = k.tskatr /\ r.priority = k.priority /\ r.dspreq = k.dspreq
    BY <2>3, <1>1 DEF Frame, Static, Data, KernelFields
  <2>5. /\ r.tstat \in [Task -> SUBSET TstatFlag]
        /\ r.tstat[t] = k.tstat[t] \cup {"SUSPENDED"}
        /\ \A u \in Task \ {t} : r.tstat[u] = k.tstat[u]
    BY <2>3, <1>1 DEF Static, Data, SchedType, TstatFlag
  <2>6. TaskType(r) /\ NoexsOK(r, Task)
    BY <2>4, <2>5, <1>1, <1>2, SMTT(60) DEF TaskType, NoexsOK, Static, Data
  <2>7. WaitsOK(r, Task)
    <3>1. WaitOK(k.tstat[t] \cup {"SUSPENDED"}, k.winfo[t], k.tmevtb[t])
      <4>1. WaitOK(k.tstat[t], k.winfo[t], k.tmevtb[t])
        BY <1>1 DEF Static, WaitsOK
      <4> QED BY <4>1, <1>2, <1>4 DEF WaitOK
    <3>2. ASSUME NEW u \in Task \ {t}
          PROVE  WaitOK(k.tstat[u], k.winfo[u], k.tmevtb[u])
      BY <1>1 DEF Static, WaitsOK
    <3> QED BY <3>1, <3>2, <2>4, <2>5 DEF WaitsOK
  <2>8. /\ \A u \in Task : "RUNNABLE" \in r.tstat[u] <=> "RUNNABLE" \in k.tstat[u]
        /\ r.priority \in [Task -> TPRI] /\ Frame(k, r, TaskFields)
    BY <2>3, <2>4, <2>5, <1>1, <1>4, SMTT(60) DEF Frame, TaskFields, Static, Data, SchedType
  <2>9. Call(k, r)
    BY <2>4, <2>5, <2>6, <2>7, <2>8, <1>1, NoQueueChange DEF Call
  <2>10. IInv(r)
    BY <2>4, <2>9, <1>1, CallReturn
  <2> QED BY <2>1, <2>10
<1> QED BY <1>3, <1>4

(* rsm_tsk. *)
LEMMA Resume ==
  ASSUME IInv(k), NEW t \in Task, rsm_tsk(t)
  PROVE  IInv(k')
<1>1. /\ Static(k) /\ k.kerflg /\ k.excpt_nest_count = 0
  BY TaskContext DEF rsm_tsk, CHECK_TSKCTX_UNL
<1>2. "SUSPENDED" \in k.tstat[t] /\ k.tskatr[t] # "TA_NOEXS"
  BY DEF rsm_tsk, TSTAT_SUSPENDED, exists
<1>3. WaitOK(k.tstat[t], k.winfo[t], k.tmevtb[t]) /\ "RUNNABLE" \notin k.tstat[t]
  BY <1>1, <1>2 DEF Static, WaitsOK, WaitOK
<1>4. CASE "WAITING" \in k.tstat[t]
  <2>1. PICK r : r = k'
    OBVIOUS
  <2>2. r = [k EXCEPT !.tstat[t] = @ \ {"SUSPENDED"}]
    BY <1>4, <2>1 DEF rsm_tsk, TSTAT_WAITING, TS_SUSPENDED
  <2>3. /\ r.tstat = [k.tstat EXCEPT ![t] = @ \ {"SUSPENDED"}]
        /\ Frame(k, r, {"tstat"})
    BY <2>2, <1>1 DEF Frame, Static, Data, KernelFields
  <2>4. /\ r.winfo = k.winfo /\ r.tmevtb = k.tmevtb /\ r.bpriority = k.bpriority
        /\ r.actque = k.actque /\ r.wupque = k.wupque /\ r.newbpri = k.newbpri
        /\ r.tskatr = k.tskatr /\ r.priority = k.priority /\ r.dspreq = k.dspreq
    BY <2>3, <1>1 DEF Frame, Static, Data, KernelFields
  <2>5. /\ r.tstat \in [Task -> SUBSET TstatFlag]
        /\ r.tstat[t] = k.tstat[t] \ {"SUSPENDED"}
        /\ \A u \in Task \ {t} : r.tstat[u] = k.tstat[u]
    BY <2>3, <1>1, SMTT(60) DEF Static, Data, SchedType
  <2>6. TaskType(r) /\ NoexsOK(r, Task)
    BY <2>4, <2>5, <1>1, <1>2, SMTT(60) DEF TaskType, NoexsOK, Static, Data
  <2>7. WaitsOK(r, Task)
    <3>1. WaitOK(k.tstat[t] \ {"SUSPENDED"}, k.winfo[t], k.tmevtb[t])
      BY <1>3, <1>4 DEF WaitOK
    <3>2. ASSUME NEW u \in Task \ {t}
          PROVE  WaitOK(k.tstat[u], k.winfo[u], k.tmevtb[u])
      BY <1>1 DEF Static, WaitsOK
    <3> QED BY <3>1, <3>2, <2>4, <2>5 DEF WaitsOK
  <2>8. /\ \A u \in Task : "RUNNABLE" \in r.tstat[u] <=> "RUNNABLE" \in k.tstat[u]
        /\ r.priority \in [Task -> TPRI] /\ Frame(k, r, TaskFields)
    BY <2>3, <2>4, <2>5, <1>1 DEF Frame, TaskFields, Static, Data, SchedType
  <2>9. Call(k, r)
    BY <2>4, <2>5, <2>6, <2>7, <2>8, <1>1, NoQueueChange DEF Call
  <2>10. IInv(r)
    BY <2>4, <2>9, <1>1, CallReturn
  <2> QED BY <2>1, <2>10
<1>5. CASE "WAITING" \notin k.tstat[t]
  <2>1. PICK y : y = [k EXCEPT !.tstat[t] = {"RUNNABLE"}]
    OBVIOUS
  <2>2. PICK r : r = make_runnable(y, t)
    OBVIOUS
  <2>3. k' = t_leave(r)
    BY <1>5, <2>1, <2>2 DEF rsm_tsk, TSTAT_WAITING, TS_RUNNABLE
  <2>4. y.tstat = [k.tstat EXCEPT ![t] = {"RUNNABLE"}] /\ Frame(k, y, {"tstat"})
    BY <2>1, <1>1 DEF Frame, Static, Data, KernelFields
  <2>5. /\ y.winfo = k.winfo /\ y.tmevtb = k.tmevtb /\ y.bpriority = k.bpriority
        /\ y.actque = k.actque /\ y.wupque = k.wupque /\ y.newbpri = k.newbpri
    BY <2>4, <1>1 DEF Frame, Static, Data, KernelFields
  <2>6. /\ y.tstat \in [Task -> SUBSET TstatFlag] /\ y.tstat[t] = {"RUNNABLE"}
        /\ \A u \in Task \ {t} : y.tstat[u] = k.tstat[u]
    BY <2>4, <1>1 DEF Static, Data, SchedType, TstatFlag
  <2>7. TaskType(y) /\ Frame(k, y, TaskFields \ {"priority"})
    BY <2>4, <2>5, <1>1 DEF TaskType, Static, Data, Frame, TaskFields
  <2>8. y.winfo[t] \in {"none"} \cup Wercd /\ y.tmevtb[t] = "none"
    BY <2>5, <1>2, <1>3, <1>5 DEF WaitOK
  <2>9. \A u \in Task \ {t} : /\ y.tstat[u] = k.tstat[u] /\ y.winfo[u] = k.winfo[u]
                              /\ y.tmevtb[u] = k.tmevtb[u]
    BY <2>5, <2>6
  <2> HIDE <2>1
  <2>10. Call(k, r)
    BY <2>2, <2>6, <2>7, <2>8, <2>9, <1>1, <1>2, <1>3, BecomeRunnable DEF Call
  <2> QED BY <2>3, <2>10, <1>1, CallTaskLeave
<1> QED BY <1>4, <1>5

(* t has left the ready queue, or its wait: make_dormant may follow. *)
LEMMA Removed ==
  ASSUME NEW j, Static(j), NEW t \in Task,
         NEW y, Frame(j, y, {"tmevtb", "wait_queue"} \cup ReadyFields), SchedType(y),
         ReadyQueueOK(y, Runnable(y) \ {t}), SchedtskOK(y),
         y.tmevtb \in [Task -> Callback], y.tmevtb[t] = "none",
         \A u \in Task \ {t} : y.tmevtb[u] = j.tmevtb[u]
  PROVE  /\ StaticBut(y, t) /\ SameContext(j, y) /\ y.tskatr = j.tskatr /\ y.tstat = j.tstat
<1>1. /\ KernelFields \subseteq DOMAIN y
      /\ \A f \in KernelFields \ ({"tmevtb", "wait_queue"} \cup ReadyFields) : y[f] = j[f]
  BY DEF Frame, Static, Data
<1>2. /\ SameContext(j, y) /\ y.tskatr = j.tskatr /\ y.tstat = j.tstat
      /\ y.ipriority = j.ipriority /\ y.bpriority = j.bpriority /\ y.actque = j.actque
      /\ y.wupque = j.wupque /\ y.winfo = j.winfo /\ y.newbpri = j.newbpri
      /\ y.free_tcb = j.free_tcb
  BY <1>1 DEF KernelFields, ReadyFields, SameContext
<1>3. Data(y)
  BY <1>1, <1>2 DEF Data, Static, SameContext
<1>4. WaitsOK(y, Task \ {t}) /\ FreeOK(y) /\ NoexsOK(y, Task \ {t}) /\ FlagOK(y)
  BY <1>2 DEF WaitsOK, FreeOK, NoexsOK, FlagOK, Static, SameContext
<1> QED BY <1>2, <1>3, <1>4 DEF StaticBut

(* A runnable task is taken out of the ready queue to become dormant. *)
LEMMA RemovedReady ==
  ASSUME NEW j, Static(j), NEW t \in Task, "RUNNABLE" \in j.tstat[t],
         NEW n, n = make_non_runnable(j, t)
  PROVE  /\ LeftReady(j, j, t, n)
         /\ StaticBut(n, t) /\ SameContext(j, n) /\ n.tskatr = j.tskatr /\ n.tstat = j.tstat
<1>1. PICK y : y = j
  OBVIOUS
<1>2. /\ Frame(j, y, {"tstat"}) /\ y.tstat \in [Task -> SUBSET TstatFlag]
      /\ \A u \in Task \ {t} : y.tstat[u] = j.tstat[u]
      /\ n = make_non_runnable(y, t)
  BY <1>1 DEF Frame, Static, Data, SchedType
<1>3. LeftReady(j, y, t, n)
  <2> QED BY ONLY Static(j), t \in Task, "RUNNABLE" \in j.tstat[t], <1>2, LeaveReady
<1>4. LeftReady(j, j, t, n)
  BY <1>1, <1>3
<1>5. Frame(j, n, {"tmevtb", "wait_queue"} \cup ReadyFields)
  BY <1>4 DEF LeftReady, Frame
<1>6. n.tmevtb = j.tmevtb
  BY <1>4 DEF LeftReady, Frame, Static, Data, KernelFields, ReadyFields
<1>7. j.tmevtb[t] = "none"
  BY DEF Static, WaitsOK, WaitOK
<1>8. /\ SchedType(n) /\ ReadyQueueOK(n, Runnable(n) \ {t}) /\ SchedtskOK(n)
      /\ n.tmevtb \in [Task -> Callback] /\ n.tmevtb[t] = "none"
      /\ \A u \in Task \ {t} : n.tmevtb[u] = j.tmevtb[u]
  BY <1>4, <1>6, <1>7 DEF LeftReady, Static, Data
<1>9. StaticBut(n, t) /\ SameContext(j, n) /\ n.tskatr = j.tskatr /\ n.tstat = j.tstat
  BY ONLY Static(j), t \in Task, <1>5, <1>8, Removed
<1> QED BY <1>4, <1>9

(* t leaves the ready queue, or its wait queue and the time event heap. *)
TerRemoved(t) ==
  IF "RUNNABLE" \in k.tstat[t] THEN Void(k, make_non_runnable(k, t))
  ELSE IF "WAITING" \in k.tstat[t] THEN wait_dequeue_tmevtb(wait_dequeue_wobj(k, t), t)
  ELSE k

(* The first part of ter_tsk. *)
LEMMA TerRemove ==
  ASSUME IInv(k), NEW t \in Task, ter_tsk(t), NEW y, y = TerRemoved(t)
  PROVE  /\ StaticBut(y, t) /\ SameContext(k, y) /\ y.tskatr = k.tskatr /\ y.tstat = k.tstat
         /\ y.dspreq = k.dspreq
         /\ k.dspflg => y.p_schedtsk = k.p_schedtsk
<1>1. /\ Static(k) /\ k.kerflg /\ k.excpt_nest_count = 0 /\ k.p_runtsk \in Task
      /\ "RUNNABLE" \in k.tstat[k.p_runtsk] /\ ~k.dspreq
      /\ k.dspflg => k.p_runtsk = k.p_schedtsk
  BY TaskContext DEF ter_tsk, CHECK_TSKCTX_UNL
<1>2. t # k.p_runtsk /\ k.tskatr[t] # "TA_NOEXS" /\ k.tstat[t] # {}
  BY DEF ter_tsk, exists, TSTAT_DORMANT, TS_DORMANT
<1>3. y = IF "RUNNABLE" \in k.tstat[t] THEN Void(k, make_non_runnable(k, t))
          ELSE IF "WAITING" \in k.tstat[t]
               THEN wait_dequeue_tmevtb(wait_dequeue_wobj(k, t), t)
               ELSE k
  BY DEF TerRemoved
<1>4. CASE "RUNNABLE" \in k.tstat[t]
  <2>1. PICK n : n = make_non_runnable(k, t)
    OBVIOUS
  <2>2. y = [n EXCEPT !.dspreq = k.dspreq]
    BY <1>4, <2>1, <1>3 DEF Void
  <2>3. /\ LeftReady(k, k, t, n)
        /\ StaticBut(n, t) /\ SameContext(k, n) /\ n.tskatr = k.tskatr /\ n.tstat = k.tstat
    BY <2>1, <1>4, <1>1, RemovedReady
  <2>4. y.dspreq = k.dspreq /\ Frame(n, y, {"dspreq"})
    BY <2>2, <2>3 DEF StaticBut, Data, KernelFields, Frame
  <2>5. /\ KernelFields \subseteq DOMAIN y /\ \A f \in KernelFields \ {"dspreq"} : y[f] = n[f]
    BY <2>3, <2>4 DEF StaticBut, Data, Frame
  <2>6. /\ y.tstat = n.tstat /\ y.tskatr = n.tskatr /\ y.ipriority = n.ipriority
        /\ y.bpriority = n.bpriority /\ y.priority = n.priority /\ y.actque = n.actque
        /\ y.wupque = n.wupque /\ y.winfo = n.winfo /\ y.tmevtb = n.tmevtb
        /\ y.newbpri = n.newbpri /\ y.free_tcb = n.free_tcb
        /\ y.ready_queue = n.ready_queue /\ y.ready_primap = n.ready_primap
        /\ y.p_schedtsk = n.p_schedtsk /\ SameContext(n, y)
    BY <2>5 DEF KernelFields, SameContext
  <2>7. SchedType(y)
    <3>1. SchedType(n) /\ SchedType(k)
      BY <2>3, <1>1 DEF StaticBut, Static, Data
    <3>2. y.dspreq \in BOOLEAN
      BY <3>1, <2>4 DEF SchedType
    <3>3. y.dspflg = n.dspflg
      BY <2>6 DEF SameContext
    <3>4. {"tstat", "priority", "ready_queue", "ready_primap", "p_schedtsk", "dspflg",
           "dspreq"} \subseteq DOMAIN y
      BY <2>5 DEF KernelFields
    <3> QED BY <3>1, <3>2, <3>3, <3>4, <2>6 DEF SchedType
  <2>8. Data(y)
    BY <2>3, <2>5, <2>6, <2>7 DEF StaticBut, Data, SameContext
  <2>9. Runnable(y) = Runnable(n) /\ Runnable(n) \ {t} \in SUBSET Task
    BY <2>6 DEF Runnable, TSTAT_RUNNABLE
  <2>10. ReadyQueueOK(y, Runnable(y) \ {t}) /\ SchedtskOK(y)
    <3>1. SchedType(n) /\ ReadyQueueOK(n, Runnable(n) \ {t}) /\ SchedtskOK(n)
      BY <2>3 DEF StaticBut, Data
    <3>2. \A u \in Runnable(n) \ {t} : y.priority[u] = n.priority[u]
      BY <2>6
    <3> QED BY <3>1, <3>2, <2>6, <2>9, SchedFrame
  <2>11. /\ WaitsOK(y, Task \ {t}) /\ FreeOK(y) /\ NoexsOK(y, Task \ {t}) /\ FlagOK(y)
         /\ y.tmevtb[t] = "none"
    BY <2>3, <2>6 DEF StaticBut, WaitsOK, FreeOK, NoexsOK, FlagOK, SameContext
  <2>12. k.dspflg => y.p_schedtsk = k.p_schedtsk
    BY <2>3, <2>6, <1>1, <1>2 DEF LeftReady
  <2>13. SameContext(k, y)
    BY <2>3, <2>6 DEF SameContext
  <2> QED BY <2>3, <2>4, <2>6, <2>8, <2>10, <2>11, <2>12, <2>13 DEF StaticBut
<1>5. CASE "RUNNABLE" \notin k.tstat[t]
  <2>1. /\ Frame(k, y, {"tmevtb", "wait_queue"})
        /\ y.tmevtb \in [Task -> Callback] /\ y.tmevtb[t] = "none"
        /\ \A u \in Task \ {t} : y.tmevtb[u] = k.tmevtb[u]
    <3>1. CASE "WAITING" \in k.tstat[t]
      <4>1. Dequeued(k, t, y)
        BY <3>1, <1>5, <1>3 DEF Dequeued
      <4> QED BY <4>1, <3>1, <1>1, WaitDequeue
    <3>2. CASE "WAITING" \notin k.tstat[t]
      <4>1. y = k
        BY <3>2, <1>5, <1>3
      <4>2. k.tmevtb[t] = "none" /\ k.tmevtb \in [Task -> Callback]
        BY <3>2, <1>1 DEF Static, WaitsOK, WaitOK, Data
      <4> QED BY <4>1, <4>2 DEF Frame
    <3> QED BY <3>1, <3>2
  <2>2. /\ y.tstat = k.tstat /\ y.priority = k.priority /\ y.ready_queue = k.ready_queue
        /\ y.ready_primap = k.ready_primap /\ y.p_schedtsk = k.p_schedtsk
        /\ y.dspreq = k.dspreq /\ y.dspflg = k.dspflg /\ DOMAIN y = DOMAIN k
    BY <2>1, <1>1 DEF Frame, Static, Data, KernelFields
  <2>3. SchedType(y) /\ SchedType(k)
    BY <2>2, <1>1 DEF Static, Data, SchedType
  <2>4. PICK R \in SUBSET Task : R = Runnable(k)
    BY DEF Runnable
  <2>5. R = Runnable(y) \ {t}
    BY <1>5, <2>2, <2>4 DEF Runnable, TSTAT_RUNNABLE
  <2>6. ReadyQueueOK(y, R) /\ SchedtskOK(y)
    <3>1. ReadyQueueOK(k, R) /\ SchedtskOK(k) /\ \A u \in R : y.priority[u] = k.priority[u]
      BY <2>2, <2>4, <1>1 DEF Static
    <3> QED BY <3>1, <2>2, <2>3, SchedFrame
  <2>7. Frame(k, y, {"tmevtb", "wait_queue"} \cup ReadyFields)
    BY <2>1 DEF Frame
  <2> HIDE <1>3
  <2>8. StaticBut(y, t) /\ SameContext(k, y) /\ y.tskatr = k.tskatr /\ y.tstat = k.tstat
    BY <2>1, <2>3, <2>5, <2>6, <2>7, <1>1, Removed, SMTT(60)
  <2> QED BY <2>2, <2>8
<1> QED BY <1>4, <1>5

(* ter_tsk. *)
LEMMA Terminate ==
  ASSUME IInv(k), NoMutex(k), NEW t \in Task, ter_tsk(t)
  PROVE  IInv(k')
<1>1. /\ Static(k) /\ k.kerflg /\ k.excpt_nest_count = 0 /\ k.p_runtsk \in Task
      /\ "RUNNABLE" \in k.tstat[k.p_runtsk] /\ ~k.dspreq
      /\ k.dspflg => k.p_runtsk = k.p_schedtsk
  BY TaskContext DEF ter_tsk, CHECK_TSKCTX_UNL
<1>2. t # k.p_runtsk /\ k.tskatr[t] # "TA_NOEXS" /\ k.tstat[t] # {}
  BY DEF ter_tsk, exists, TSTAT_DORMANT, TS_DORMANT
<1>3. PICK y : y = TerRemoved(t)
  OBVIOUS
<1>4. k' = t_leave(end_task(y, t))
  BY <1>3 DEF ter_tsk, TSTAT_RUNNABLE, TSTAT_WAITING, TerRemoved
<1>5. /\ StaticBut(y, t) /\ SameContext(k, y) /\ y.tskatr = k.tskatr /\ y.tstat = k.tstat
      /\ y.dspreq = k.dspreq
      /\ k.dspflg => y.p_schedtsk = k.p_schedtsk
  BY <1>3, TerRemove
<1>6. PICK r : r = end_task(y, t)
  OBVIOUS
<1>m. NoMutex(y)
  BY <1>3, NoMutexReady, NoMutexTask, NoMutexLeave DEF TerRemoved
<1> HIDE <1>3
<1>7. /\ Static(r) /\ SameContext(y, r) /\ Reports(y, r)
      /\ \A u \in Task \ {t} : "RUNNABLE" \in y.tstat[u] => "RUNNABLE" \in r.tstat[u]
  BY <1>2, <1>5, <1>6, <1>m, EndTask
<1>8. SameContext(k, r) /\ Reports(k, r) /\ "RUNNABLE" \in r.tstat[k.p_runtsk]
  BY <1>1, <1>2, <1>5, <1>7 DEF SameContext, Reports
<1>9. k' = t_leave(r)
  BY <1>4, <1>6
<1> HIDE <1>6
<1> QED BY <1>1, <1>7, <1>8, <1>9, TaskLeave

(* ext_tsk. *)
LEMMA Exit ==
  ASSUME IInv(k), NoMutex(k), ext_tsk
  PROVE  IInv(k')
<1>1. /\ Static(k) /\ k.kerflg /\ k.p_runtsk \in Task
      /\ "RUNNABLE" \in k.tstat[k.p_runtsk] /\ k.tskatr[k.p_runtsk] # "TA_NOEXS"
  BY TaskContext DEF ext_tsk
<1>2. PICK t \in Task : t = k.p_runtsk
  BY <1>1
<1>3. PICK j : j = [k EXCEPT !.disdsp = FALSE, !.ipmflg = TRUE, !.dspflg = TRUE]
  OBVIOUS
<1>4. PICK n : n = make_non_runnable(j, t)
  OBVIOUS
<1>5. PICK r : r = end_task(n, t)
  OBVIOUS
<1>6. k' = dispatcher(r)
  BY <1>2, <1>3, <1>4, <1>5 DEF ext_tsk
<1>7. /\ j.disdsp = FALSE /\ j.ipmflg = TRUE /\ j.dspflg = TRUE
      /\ j.p_runtsk = k.p_runtsk /\ j.reqflg = k.reqflg /\ j.lock = k.lock
      /\ j.excpt_nest_count = k.excpt_nest_count /\ j.boot = k.boot /\ j.kerflg = k.kerflg
      /\ j.dspreq = k.dspreq /\ j.tskatr = k.tskatr
      /\ Frame(k, j, ContextFields \cup {"dspreq"})
  BY <1>1, <1>3 DEF Static, Data, KernelFields, Frame, ContextFields
<1>8. ContextType(j) /\ FlagOK(j)
  BY <1>1, <1>7 DEF ContextType, FlagOK, Static, Data, SchedType
<1>m. NoMutex(j) /\ NoMutex(n)
  <2>1. NoMutex(j)
    BY <1>3 DEF NoMutex
  <2> QED BY <2>1, <1>4, NoMutexReady
<1> HIDE <1>3
<1>9. Static(j) /\ j.tstat = k.tstat
  BY <1>1, <1>7, <1>8, ContextChange
<1>10. "RUNNABLE" \in j.tstat[t] /\ j.tskatr[t] # "TA_NOEXS"
  BY <1>1, <1>2, <1>7, <1>9
<1> HIDE <1>2
<1>11. StaticBut(n, t) /\ SameContext(j, n) /\ n.tskatr = j.tskatr
  BY <1>4, <1>9, <1>10, RemovedReady
<1> HIDE <1>4
<1>12. Static(r) /\ SameContext(n, r)
  BY <1>5, <1>10, <1>11, <1>m, EndTask
<1> HIDE <1>5
<1>13. r.kerflg /\ r.dspflg
  BY <1>1, <1>7, <1>11, <1>12 DEF SameContext
<1> QED BY <1>6, <1>12, <1>13, Dispatcher

WithBase(j, t, p) == [j EXCEPT !.bpriority[t] = p]

(* The assignment of chg_pri to the base priority. *)
LEMMA SetBase ==
  ASSUME NEW j, IInv(j), j.kerflg, j.excpt_nest_count = 0, NEW t \in Task,
         NEW newbpri \in TPRI, NEW y, y = WithBase(j, t, newbpri)
  PROVE  IInv(y) /\ y.kerflg /\ y.excpt_nest_count = 0
<1>1. y = [j EXCEPT !.bpriority[t] = newbpri]
  BY DEF WithBase
<1>4. Static(j)
  BY DEF IInv
<1>5. y.bpriority = [j.bpriority EXCEPT ![t] = newbpri] /\ Frame(j, y, {"bpriority"})
  BY <1>1, <1>4 DEF Static, Data, KernelFields, Frame
<1>6. /\ y.actque = j.actque /\ y.wupque = j.wupque /\ y.winfo = j.winfo
      /\ y.tmevtb = j.tmevtb /\ y.newbpri = j.newbpri
  BY <1>4, <1>5 DEF Static, Data, KernelFields, Frame
<1>7. TaskType(y) /\ Frame(j, y, MinorFields)
  BY <1>4, <1>5, <1>6 DEF TaskType, Static, Data, Frame, MinorFields
<1>8. Call(j, y) /\ y.dspreq = j.dspreq
  BY <1>4, <1>7, Minor
<1>9. IInv(y)
  BY <1>8, CallReturn
<1> QED BY <1>8, <1>9 DEF Call, SameContext

(* The locked part of chg_pri, without mutexes. *)
LEMMA ChgPriLocked ==
  ASSUME NEW j, IInv(j), NoMutex(j), j.kerflg, j.excpt_nest_count = 0, NEW t \in Task,
         NEW newbpri \in TPRI,
         NEW r, r = chg_pri_locked(j, t, newbpri)
  PROVE  IInv(r)
<1>1. PICK y : y = WithBase(j, t, newbpri)
  OBVIOUS
<1>2. PICK z : z = change_priority(y, t, newbpri, FALSE)
  OBVIOUS
<1>3. r = j \/ r = t_leave(z)
  BY <1>1, <1>2, NoMutexChgPri DEF WithBase
<1>4. IInv(y) /\ y.kerflg /\ y.excpt_nest_count = 0
  BY <1>1, SetBase
<1>5. Call(y, z)
  BY <1>2, <1>4, ChangePriority DEF IInv, Call
<1>6. CASE r = t_leave(z)
  BY <1>4, <1>5, <1>6, CallTaskLeave
<1> QED BY <1>3, <1>6

(* chg_pri. *)
LEMMA ChgPri ==
  ASSUME IInv(k), NoMutex(k), NEW t \in Task, NEW p \in TPRI, chg_pri(t, p)
  PROVE  IInv(k')
<1>1. k.kerflg /\ k.excpt_nest_count = 0
  BY TaskContext DEF chg_pri, CHECK_TSKCTX_UNL
<1>2. k' = chg_pri_locked(k, t, p)
  BY DEF chg_pri
<1> QED BY <1>1, <1>2, ChgPriLocked

NewbpriUsed == [k EXCEPT !.newbpri[k.p_runtsk] = NULL]

(* The second step of chg_pri(t, TPRI_INI) uses up the value of newbpri. *)
LEMMA IniLocked ==
  ASSUME IInv(k), chg_pri_ini_lock, NEW y, y = NewbpriUsed
  PROVE  /\ IInv(y) /\ y.kerflg /\ y.excpt_nest_count = 0
         /\ \E t \in Task, p \in TPRI : k' = chg_pri_locked(y, t, p)
<1>1. Static(k) /\ k.kerflg /\ k.excpt_nest_count = 0 /\ k.p_runtsk \in Task
  BY TaskContext DEF chg_pri_ini_lock
<1>2. PICK c \in [tskid : Task, pri : TPRI] : c = k.newbpri[k.p_runtsk]
  BY <1>1 DEF chg_pri_ini_lock, Static, Data
<1>3. y = [k EXCEPT !.newbpri[k.p_runtsk] = NULL]
  BY DEF NewbpriUsed
<1>4. k' = chg_pri_locked(y, c.tskid, c.pri)
  BY <1>2, <1>3 DEF chg_pri_ini_lock
<1>5. y.newbpri = [k.newbpri EXCEPT ![k.p_runtsk] = NULL] /\ Frame(k, y, {"newbpri"})
  BY <1>1, <1>3 DEF Static, Data, KernelFields, Frame
<1>6. /\ y.actque = k.actque /\ y.wupque = k.wupque /\ y.winfo = k.winfo
      /\ y.tmevtb = k.tmevtb /\ y.bpriority = k.bpriority
  BY <1>1, <1>5 DEF Static, Data, KernelFields, Frame
<1>7. TaskType(y) /\ Frame(k, y, MinorFields)
  BY <1>1, <1>5, <1>6 DEF TaskType, Static, Data, Frame, MinorFields
<1> HIDE <1>3
<1>8. Call(k, y) /\ y.dspreq = k.dspreq
  BY <1>1, <1>7, Minor
<1>9. IInv(y)
  BY <1>1, <1>8, CallReturn
<1>10. y.kerflg /\ y.excpt_nest_count = 0
  BY <1>1, <1>8 DEF Call, SameContext
<1>11. c.tskid \in Task /\ c.pri \in TPRI
  BY <1>2
<1> QED BY <1>4, <1>9, <1>10, <1>11

(* The second step of chg_pri(t, TPRI_INI), without mutexes. *)
LEMMA ChgPriIniLock ==
  ASSUME IInv(k), NoMutex(k), chg_pri_ini_lock
  PROVE  IInv(k')
<1>1. PICK y : y = NewbpriUsed
  OBVIOUS
<1>2. IInv(y) /\ y.kerflg /\ y.excpt_nest_count = 0
  BY <1>1, IniLocked
<1>3. PICK t \in Task, p \in TPRI : k' = chg_pri_locked(y, t, p)
  BY <1>1, IniLocked
<1>4. NoMutex(y)
  BY <1>1 DEF NoMutex, NewbpriUsed
<1> HIDE <1>1
<1> QED BY <1>2, <1>3, <1>4, ChgPriLocked

(* acre_tsk: a TCB leaves the free list. *)
LEMMA Create ==
  ASSUME IInv(k), NEW ipri \in TPRI, NEW ta_act \in BOOLEAN, acre_tsk(ipri, ta_act)
  PROVE  IInv(k')
<1>1. Static(k) /\ k.kerflg /\ k.excpt_nest_count = 0
  BY TaskContext DEF acre_tsk, CHECK_TSKCTX_UNL
<1>2. PICK q \in Seq(Task) : q = k.free_tcb
  BY <1>1 DEF Static, Data
<1>3. q # <<>>
  BY <1>2 DEF acre_tsk
<1>4. PICK t : t = Head(q)
  OBVIOUS
<1>5. t \in Task /\ t = q[1] /\ 1 \in 1 .. Len(q)
  BY <1>3, <1>4
<1>6. PICK y : y = [k EXCEPT !.free_tcb = Tail(@), !.tskatr[t] = "TA_NULL",
                             !.ipriority[t] = ipri, !.actque[t] = FALSE,
                             !.mutex_queue[t] = <<>>]
  OBVIOUS
<1>7. PICK d : d = make_dormant(y, t)
  OBVIOUS
<1>8. k' = t_leave(IF ta_act THEN make_active(d, t) ELSE d)
  BY <1>2, <1>4, <1>6, <1>7 DEF acre_tsk
<1>9. PICK f \in Seq(Task) : f = Tail(q) /\ Len(f) = Len(q) - 1
                             /\ \A i \in 1 .. Len(f) : f[i] = q[i + 1]
  <2>1. PICK f : f = Tail(q)
    OBVIOUS
  <2>2. f \in Seq(Task) /\ Len(f) = Len(q) - 1 /\ \A i \in 1 .. Len(f) : f[i] = q[i + 1]
    BY <2>1, <1>3, HeadTailProperties
  <2> QED BY <2>1, <2>2
<1>10. /\ y.free_tcb = f /\ y.tskatr = [k.tskatr EXCEPT ![t] = "TA_NULL"]
       /\ y.ipriority = [k.ipriority EXCEPT ![t] = ipri]
       /\ y.actque = [k.actque EXCEPT ![t] = FALSE]
       /\ Frame(k, y, {"free_tcb", "tskatr", "ipriority", "actque", "mutex_queue"})
  BY <1>1, <1>2, <1>6, <1>9 DEF Static, Data, KernelFields, Frame
<1> HIDE <1>6
<1>11. /\ KernelFields \subseteq DOMAIN y
       /\ y.tstat = k.tstat /\ y.bpriority = k.bpriority /\ y.priority = k.priority
       /\ y.wupque = k.wupque /\ y.winfo = k.winfo /\ y.tmevtb = k.tmevtb
       /\ y.newbpri = k.newbpri /\ y.ready_queue = k.ready_queue
       /\ y.ready_primap = k.ready_primap /\ y.p_schedtsk = k.p_schedtsk
       /\ y.dspreq = k.dspreq /\ SameContext(k, y)
  BY <1>1, <1>10 DEF Static, Data, KernelFields, Frame, SameContext
<1>12. k.tskatr[t] = "TA_NOEXS" /\ k.tstat[t] = {} /\ k.tmevtb[t] = "none"
  BY <1>1, <1>2, <1>5 DEF Static, FreeOK, NoexsOK, WaitsOK, WaitOK
<1>13. SchedType(y) /\ SchedType(k)
  BY <1>1, <1>11 DEF SchedType, Static, Data, SameContext, KernelFields
<1>14. Data(y)
  BY <1>1, <1>5, <1>10, <1>11, <1>13 DEF Data, Static, SameContext
<1>15. ReadyQueueOK(y, Runnable(y) \ {t}) /\ SchedtskOK(y)
  <2>1. PICK R \in SUBSET Task : R = Runnable(k)
    BY DEF Runnable
  <2>2. Runnable(y) \ {t} = R
    BY <2>1, <1>11, <1>12 DEF Runnable, TSTAT_RUNNABLE
  <2>3. ReadyQueueOK(k, R) /\ SchedtskOK(k) /\ \A u \in R : y.priority[u] = k.priority[u]
    BY <2>1, <1>1, <1>11 DEF Static
  <2>4. ReadyQueueOK(y, R) /\ SchedtskOK(y)
    BY <2>3, <1>11, <1>13, SchedFrame
  <2> QED BY <2>2, <2>4
<1>16. FreeOK(y)
  <2>1. /\ \A i \in 1 .. Len(q) : k.tskatr[q[i]] = "TA_NOEXS"
        /\ \A a, b \in 1 .. Len(q) : q[a] = q[b] => a = b
        /\ \A u \in Task : k.tskatr[u] = "TA_NOEXS" => u \in Range(atcb)
    BY <1>1, <1>2 DEF Static, FreeOK
  <2>2. /\ y.tskatr[t] = "TA_NULL" /\ \A u \in Task \ {t} : y.tskatr[u] = k.tskatr[u]
    BY <1>1, <1>5, <1>10 DEF Static, Data
  <2>3. ASSUME NEW i \in 1 .. Len(f)
        PROVE  f[i] \in Task \ {t} /\ k.tskatr[f[i]] = "TA_NOEXS"
    <3>1. i + 1 \in 1 .. Len(q) /\ i + 1 # 1 /\ f[i] = q[i + 1]
      BY <1>9
    <3>2. q[i + 1] # q[1]
      BY <3>1, <2>1, <1>5
    <3> QED BY <3>1, <3>2, <2>1, <1>5
  <2>4. ASSUME NEW a \in 1 .. Len(f), NEW b \in 1 .. Len(f), f[a] = f[b]
        PROVE  a = b
    <3>1. /\ a + 1 \in 1 .. Len(q) /\ f[a] = q[a + 1]
          /\ b + 1 \in 1 .. Len(q) /\ f[b] = q[b + 1]
      BY <1>9
    <3>2. a + 1 = b + 1
      BY <3>1, <2>1, <2>4
    <3> QED BY <3>2
  <2>5. \A u \in Task : y.tskatr[u] = "TA_NOEXS" => u \in Range(atcb)
    BY <2>1, <2>2
  <2> QED BY <2>2, <2>3, <2>4, <2>5, <1>10 DEF FreeOK
<1>17. StaticBut(y, t)
  <2>1. WaitsOK(y, Task \ {t}) /\ FlagOK(y) /\ y.tmevtb[t] = "none"
    BY <1>1, <1>11, <1>12 DEF Static, WaitsOK, FlagOK, SameContext
  <2>2. NoexsOK(y, Task \ {t})
    BY <1>1, <1>10, <1>11 DEF Static, Data, NoexsOK
  <2> QED BY <2>1, <2>2, <1>14, <1>15, <1>16 DEF StaticBut
<1>18. /\ Static(d) /\ d.tstat = [y.tstat EXCEPT ![t] = {}]
       /\ Frame(y, d, {"tstat", "bpriority", "priority", "wupque"})
  BY <1>5, <1>7, <1>17, MakeDormant
<1> HIDE <1>7
<1>19. /\ SameContext(k, d) /\ d.tskatr = y.tskatr /\ d.dspreq = k.dspreq
       /\ d.p_schedtsk = k.p_schedtsk
  BY <1>11, <1>18, SMTT(60) DEF Frame, KernelFields, SameContext
<1>20. Keeps(k, d) /\ d.tstat[t] = {}
  <2>1. y.tstat \in [Task -> SUBSET TstatFlag] /\ y.tstat = k.tstat
    BY <1>11, <1>13 DEF SchedType
  <2>2. d.tstat[t] = {} /\ \A u \in Task \ {t} : d.tstat[u] = y.tstat[u]
    BY <2>1, <1>5, <1>18
  <2> QED BY <2>1, <2>2, <1>12 DEF Keeps
<1>21. Call(k, d)
  BY <1>18, <1>19, <1>20 DEF Call, Reports
<1>22. CASE ~ta_act
  <2>1. k' = t_leave(d)
    BY <1>8, <1>22
  <2> QED BY <2>1, <1>1, <1>21, CallTaskLeave
<1>23. CASE ta_act
  <2>1. PICK r : r = make_active(d, t)
    OBVIOUS
  <2>2. k' = t_leave(r)
    BY <1>8, <1>23, <2>1
  <2>3. d.tskatr[t] # "TA_NOEXS"
    BY <1>1, <1>5, <1>10, <1>19 DEF Static, Data
  <2>4. Static(r) /\ SameContext(d, r) /\ Reports(d, r) /\ Keeps(d, r)
    BY <2>1, <2>3, <1>5, <1>18, <1>20, MakeActive
  <2>5. SameContext(k, r)
    BY <2>4, <1>19 DEF SameContext
  <2>6. Reports(k, r)
    BY <2>4, <1>19 DEF Reports, SameContext
  <2>7. Keeps(k, r)
    BY <2>4, <1>20 DEF Keeps
  <2>8. Call(k, r)
    BY <2>4, <2>5, <2>6, <2>7 DEF Call
  <2> HIDE <2>1
  <2> QED BY <2>2, <2>8, <1>1, CallTaskLeave
<1> QED BY <1>22, <1>23

(* del_tsk: a dormant task returns to the free list. *)
LEMMA Delete ==
  ASSUME IInv(k), NEW t \in Task, del_tsk(t)
  PROVE  IInv(k')
<1>1. Static(k) /\ k.kerflg /\ k.excpt_nest_count = 0
  BY TaskContext DEF del_tsk, CHECK_TSKCTX_UNL
<1>2. k.tskatr[t] # "TA_NOEXS" /\ k.tstat[t] = {} /\ t \in Range(atcb)
  BY DEF del_tsk, exists, TSTAT_DORMANT, TS_DORMANT
<1>3. PICK q \in Seq(Task) : q = k.free_tcb
  BY <1>1 DEF Static, Data
<1>4. PICK f : f = Append(q, t)
  OBVIOUS
<1>5. /\ f \in Seq(Task) /\ Len(f) = Len(q) + 1
      /\ \A i \in 1 .. Len(q) : f[i] = q[i]
      /\ f[Len(q) + 1] = t
  BY <1>4, AppendProperties
<1>6. PICK r : r = k'
  OBVIOUS
<1>7. /\ r.free_tcb = f /\ r.tskatr = [k.tskatr EXCEPT ![t] = "TA_NOEXS"]
      /\ Frame(k, r, {"free_tcb", "tskatr"})
  BY <1>1, <1>3, <1>4, <1>6 DEF del_tsk, Static, Data, KernelFields, Frame
<1> HIDE <1>4
<1>8. /\ KernelFields \subseteq DOMAIN r
      /\ r.tstat = k.tstat /\ r.bpriority = k.bpriority /\ r.priority = k.priority
      /\ r.ipriority = k.ipriority /\ r.actque = k.actque
      /\ r.wupque = k.wupque /\ r.winfo = k.winfo /\ r.tmevtb = k.tmevtb
      /\ r.newbpri = k.newbpri /\ r.ready_queue = k.ready_queue
      /\ r.ready_primap = k.ready_primap /\ r.p_schedtsk = k.p_schedtsk
      /\ r.dspreq = k.dspreq /\ SameContext(k, r)
  BY <1>1, <1>7 DEF Static, Data, KernelFields, Frame, SameContext
<1>9. SchedType(r) /\ SchedType(k)
  BY <1>1, <1>8 DEF SchedType, Static, Data, SameContext, KernelFields
<1>10. Data(r)
  BY <1>1, <1>5, <1>7, <1>8, <1>9 DEF Data, Static, SameContext
<1>11. ReadyQueueOK(r, Runnable(r)) /\ SchedtskOK(r)
  <2>1. PICK R \in SUBSET Task : R = Runnable(k)
    BY DEF Runnable
  <2>2. Runnable(r) = R
    BY <2>1, <1>8 DEF Runnable, TSTAT_RUNNABLE
  <2>3. ReadyQueueOK(k, R) /\ SchedtskOK(k) /\ \A u \in R : r.priority[u] = k.priority[u]
    BY <2>1, <1>1, <1>8 DEF Static
  <2> QED BY <2>2, <2>3, <1>8, <1>9, SchedFrame
<1>12. /\ r.tskatr[t] = "TA_NOEXS" /\ \A u \in Task \ {t} : r.tskatr[u] = k.tskatr[u]
  BY <1>1, <1>7 DEF Static, Data
<1>13. FreeOK(r)
  <2>1. /\ \A i \in 1 .. Len(q) : k.tskatr[q[i]] = "TA_NOEXS"
        /\ \A a, b \in 1 .. Len(q) : q[a] = q[b] => a = b
        /\ \A u \in Task : k.tskatr[u] = "TA_NOEXS" => u \in Range(atcb)
    BY <1>1, <1>3 DEF Static, FreeOK
  <2>2. ASSUME NEW i \in 1 .. Len(q)
        PROVE  q[i] \in Task \ {t} /\ f[i] = q[i]
    BY <2>1, <1>2, <1>5
  <2>3. ASSUME NEW i \in 1 .. Len(f)
        PROVE  i \in 1 .. Len(q) \/ i = Len(q) + 1
    BY <1>5
  <2>4. ASSUME NEW i \in 1 .. Len(f)
        PROVE  r.tskatr[f[i]] = "TA_NOEXS"
    BY <2>1, <2>2, <2>3, <1>5, <1>12
  <2>5. ASSUME NEW a \in 1 .. Len(f), NEW b \in 1 .. Len(f), f[a] = f[b]
        PROVE  a = b
    BY <2>1, <2>2, <2>3, <2>5, <1>5
  <2>6. \A u \in Task : r.tskatr[u] = "TA_NOEXS" => u \in Range(atcb)
    BY <2>1, <1>2, <1>12
  <2> QED BY <2>4, <2>5, <2>6, <1>7 DEF FreeOK
<1>14. WaitsOK(r, Task) /\ NoexsOK(r, Task) /\ FlagOK(r)
  BY <1>1, <1>2, <1>8, <1>12 DEF Static, WaitsOK, NoexsOK, FlagOK, SameContext
<1>15. Call(k, r)
  BY <1>8, <1>10, <1>11, <1>13, <1>14 DEF Call, Static, Keeps, Reports
<1>16. IInv(r)
  BY <1>1, <1>8, <1>15, CallReturn
<1> QED BY <1>6, <1>16

(* can_act, can_wup and the first step of chg_pri(t, TPRI_INI). *)
LEMMA MinorCalls ==
  ASSUME IInv(k), NEW t \in Task, can_act(t) \/ can_wup(t) \/ chg_pri_ini(t)
  PROVE  IInv(k')
<1>1. Static(k) /\ k.kerflg /\ k.excpt_nest_count = 0 /\ k.p_runtsk \in Task
  BY TaskContext DEF can_act, can_wup, chg_pri_ini, CHECK_TSKCTX_UNL
<1>2. PICK r : r = k'
  OBVIOUS
<1>3. TaskType(r) /\ Frame(k, r, MinorFields)
  <2>1. CASE can_act(t)
    <3>1. r.actque = [k.actque EXCEPT ![t] = FALSE] /\ Frame(k, r, {"actque"})
      BY <1>1, <1>2, <2>1 DEF can_act, Static, Data, KernelFields, Frame
    <3>2. /\ r.bpriority = k.bpriority /\ r.wupque = k.wupque /\ r.winfo = k.winfo
          /\ r.tmevtb = k.tmevtb /\ r.newbpri = k.newbpri
      BY <1>1, <3>1 DEF Static, Data, KernelFields, Frame
    <3> QED BY <1>1, <3>1, <3>2 DEF TaskType, Static, Data, Frame, MinorFields
  <2>2. CASE can_wup(t)
    <3>1. r.wupque = [k.wupque EXCEPT ![t] = FALSE] /\ Frame(k, r, {"wupque"})
      BY <1>1, <1>2, <2>2 DEF can_wup, Static, Data, KernelFields, Frame
    <3>2. /\ r.bpriority = k.bpriority /\ r.actque = k.actque /\ r.winfo = k.winfo
          /\ r.tmevtb = k.tmevtb /\ r.newbpri = k.newbpri
      BY <1>1, <3>1 DEF Static, Data, KernelFields, Frame
    <3> QED BY <1>1, <3>1, <3>2 DEF TaskType, Static, Data, Frame, MinorFields
  <2>3. CASE chg_pri_ini(t)
    <3>1. PICK c : c = [tskid |-> t, pri |-> k.ipriority[t]]
      OBVIOUS
    <3>2. c \in [tskid : Task, pri : TPRI]
      BY <1>1, <3>1 DEF Static, Data
    <3>3. /\ r.newbpri = [k.newbpri EXCEPT ![k.p_runtsk] = c]
          /\ Frame(k, r, {"newbpri"})
      BY <1>1, <1>2, <2>3, <3>1 DEF chg_pri_ini, Static, Data, KernelFields, Frame
    <3>4. /\ r.bpriority = k.bpriority /\ r.actque = k.actque /\ r.winfo = k.winfo
          /\ r.tmevtb = k.tmevtb /\ r.wupque = k.wupque
      BY <1>1, <3>3 DEF Static, Data, KernelFields, Frame
    <3> HIDE <3>1
    <3> QED BY <1>1, <3>2, <3>3, <3>4 DEF TaskType, Static, Data, Frame, MinorFields
  <2> QED BY <2>1, <2>2, <2>3
<1>4. Call(k, r) /\ r.dspreq = k.dspreq
  BY <1>1, <1>3, Minor
<1>5. IInv(r)
  BY <1>1, <1>4, CallReturn
<1> QED BY <1>2, <1>5

(* slp_tsk, tslp_tsk and dly_tsk. *)
LEMMA Waiting ==
  ASSUME IInv(k), (\E b \in BOOLEAN : slp_tsk(b)) \/ dly_tsk
  PROVE  IInv(k')
<1>1. /\ Static(k) /\ k.kerflg /\ k.excpt_nest_count = 0 /\ k.p_runtsk \in Task
      /\ "RUNNABLE" \in k.tstat[k.p_runtsk] /\ k.dspflg
  BY TaskContext DEF slp_tsk, dly_tsk, CHECK_DISPATCH, CHECK_TSKCTX_UNL
<1>2. PICK t \in Task : t = k.p_runtsk
  BY <1>1
<1>3. CASE k.wupque[t] /\ \E b \in BOOLEAN : slp_tsk(b)
  <2>1. PICK r : r = k'
    OBVIOUS
  <2>2. r = [k EXCEPT !.wupque[t] = FALSE]
    BY <1>2, <1>3, <2>1 DEF slp_tsk
  <2>3. r.wupque = [k.wupque EXCEPT ![t] = FALSE] /\ Frame(k, r, {"wupque"})
    BY <1>1, <2>2 DEF Static, Data, KernelFields, Frame
  <2>4. /\ r.bpriority = k.bpriority /\ r.actque = k.actque /\ r.winfo = k.winfo
        /\ r.tmevtb = k.tmevtb /\ r.newbpri = k.newbpri
    BY <1>1, <2>3 DEF Static, Data, KernelFields, Frame
  <2>5. TaskType(r) /\ Frame(k, r, MinorFields)
    BY <1>1, <2>3, <2>4 DEF TaskType, Static, Data, Frame, MinorFields
  <2>6. Call(k, r) /\ r.dspreq = k.dspreq
    BY <1>1, <2>5, Minor
  <2>7. IInv(r)
    BY <1>1, <2>6, CallReturn
  <2> QED BY <2>1, <2>7
<1>4. CASE ~(k.wupque[t] /\ \E b \in BOOLEAN : slp_tsk(b))
  <2>1. PICK y : y = [k EXCEPT !.tstat[t] = TS_WAITING("SLP")]
    OBVIOUS
  <2>2. PICK z : z = [k EXCEPT !.tstat[t] = TS_WAITING("DLY")]
    OBVIOUS
  <2>3. PICK r : /\ k' = dispatcher(r)
                 /\ \/ r = make_wait(y)
                    \/ r = make_wait_tmevtb(y, "wait_tmout")
                    \/ r = make_wait_tmevtb(z, "wait_tmout_ok")
    <3>1. CASE dly_tsk
      BY <3>1, <1>2, <2>2 DEF dly_tsk, begin_wait
    <3>2. CASE \E b \in BOOLEAN : slp_tsk(b)
      <4>1. PICK b \in BOOLEAN : slp_tsk(b)
        BY <3>2
      <4>2. k' = dispatcher(make_wait_tmout(y, b))
        BY <3>2, <4>1, <1>2, <1>4, <2>1 DEF slp_tsk, begin_wait
      <4>3. CASE b
        BY <4>2, <4>3 DEF make_wait_tmout
      <4>4. CASE ~b
        BY <4>2, <4>4 DEF make_wait_tmout
      <4> QED BY <4>3, <4>4
    <3> QED BY <3>1, <3>2
  <2>4. "RUNNABLE" \in k.tstat[t]
    BY <1>1, <1>2
  <2>5. Static(r) /\ SameContext(k, r)
    BY <1>1, <1>2, <2>1, <2>2, <2>3, <2>4, StartWait
  <2>6. r.kerflg /\ r.dspflg
    BY <1>1, <2>5 DEF SameContext
  <2>7. k' = dispatcher(r)
    BY <2>3
  <2> HIDE <2>1, <2>2, <2>3
  <2> QED BY <2>5, <2>6, <2>7, Dispatcher
<1> QED BY <1>3, <1>4

(* The error code of a wait is taken, by the task that waited. *)
LEMMA WaitReturned ==
  ASSUME IInv(k), Resuming, NEW r, r = [k EXCEPT !.winfo[k.p_runtsk] = "none"]
  PROVE  IInv(r)
<1>1. /\ Static(k) /\ k.kerflg /\ k.excpt_nest_count = 0 /\ k.p_runtsk \in Task
      /\ "RUNNABLE" \in k.tstat[k.p_runtsk]
  BY DEF IInv, Resuming, Context, Dispatched, Running, Static, Data
<1>2. PICK t \in Task : t = k.p_runtsk
  BY <1>1
<1>4. r.winfo = [k.winfo EXCEPT ![t] = "none"] /\ Frame(k, r, {"winfo"})
  BY <1>1, <1>2 DEF Static, Data, KernelFields, Frame
<1>5. /\ r.tstat = k.tstat /\ r.tmevtb = k.tmevtb /\ r.bpriority = k.bpriority
      /\ r.actque = k.actque /\ r.wupque = k.wupque /\ r.newbpri = k.newbpri
      /\ r.tskatr = k.tskatr /\ r.priority = k.priority /\ r.dspreq = k.dspreq
  BY <1>1, <1>4 DEF Static, Data, KernelFields, Frame
<1>6. /\ TaskType(r) /\ NoexsOK(r, Task) /\ Frame(k, r, TaskFields)
      /\ r.tstat \in [Task -> SUBSET TstatFlag] /\ r.priority \in [Task -> TPRI]
  <2>1. r.winfo \in [Task -> Winfo]
    BY <1>1, <1>4 DEF Static, Data, Winfo
  <2>2. TaskType(r)
    BY <2>1, <1>1, <1>5 DEF TaskType, Static, Data
  <2>3. NoexsOK(r, Task) /\ Frame(k, r, TaskFields)
    BY <1>1, <1>4, <1>5 DEF NoexsOK, Static, Frame, TaskFields
  <2> QED BY <2>2, <2>3, <1>1, <1>5 DEF Static, Data, SchedType
<1>7. WaitsOK(r, Task)
  <2>1. WaitOK(k.tstat[t], "none", k.tmevtb[t])
    <3>1. WaitOK(k.tstat[t], k.winfo[t], k.tmevtb[t])
      BY <1>1 DEF Static, WaitsOK
    <3> QED BY <3>1, <1>1, <1>2 DEF WaitOK
  <2>2. ASSUME NEW u \in Task \ {t}
        PROVE  WaitOK(k.tstat[u], k.winfo[u], k.tmevtb[u])
    BY <1>1 DEF Static, WaitsOK
  <2>3. r.winfo[t] = "none" /\ \A u \in Task \ {t} : r.winfo[u] = k.winfo[u]
    BY <1>1, <1>4 DEF Static, Data
  <2> QED BY <2>1, <2>2, <2>3, <1>5 DEF WaitsOK
<1>8. Call(k, r)
  BY <1>1, <1>5, <1>6, <1>7, NoQueueChange DEF Call
<1> QED BY <1>1, <1>5, <1>8, CallReturn

(* The return from dispatch() inside a waiting call. *)
LEMMA WaitReturn ==
  ASSUME IInv(k), wait_return
  PROVE  IInv(k')
BY WaitReturned DEF wait_return

-----------------------------------------------------------------------------
(* The calls of a task and of a handler that end with t_leave and i_leave. *)
LEMMA SimpleCalls ==
  ASSUME IInv(k), NEW t \in Task,
         \/ act_tsk(t) \/ iact_tsk(t) \/ wup_tsk(t) \/ iwup_tsk(t)
         \/ rel_wai(t) \/ irel_wai(t)
  PROVE  IInv(k')
<1>1. PICK y : /\ Call(k, y)
               /\ \/ CHECK_TSKCTX_UNL /\ k' = t_leave(y)
                  \/ CHECK_INTCTX_UNL /\ k' = i_leave(y)
  <2>1. CASE act_tsk(t) \/ iact_tsk(t)
    BY <2>1, Activate DEF act_tsk, iact_tsk
  <2>2. CASE wup_tsk(t) \/ iwup_tsk(t)
    BY <2>2, Wakeup DEF wup_tsk, iwup_tsk
  <2>3. CASE rel_wai(t) \/ irel_wai(t)
    <3>1. PICK y : y = wait_release(k, t)
      OBVIOUS
    <3>2. Static(k) /\ "WAITING" \in k.tstat[t]
      BY <2>3 DEF IInv, rel_wai, irel_wai, TSTAT_WAITING
    <3>3. Call(k, y)
      BY <3>1, <3>2, WaitEnd DEF Call
    <3> QED BY <2>3, <3>1, <3>3 DEF rel_wai, irel_wai
  <2> QED BY <2>1, <2>2, <2>3
<1>2. CASE CHECK_TSKCTX_UNL /\ k' = t_leave(y)
  <2>1. k.kerflg /\ k.excpt_nest_count = 0
    BY <1>2 DEF CHECK_TSKCTX_UNL, TSKCTX
  <2> QED BY <1>1, <1>2, <2>1, CallTaskLeave
<1>3. CASE CHECK_INTCTX_UNL /\ k' = i_leave(y)
  <2>1. k.kerflg /\ k.excpt_nest_count > 0
    BY <1>3 DEF CHECK_INTCTX_UNL, INTCTX
  <2> QED BY <1>1, <1>3, <2>1, CallIntLeave
<1> QED BY <1>1, <1>2, <1>3

(* rot_rdq and irot_rdq as actions. *)
LEMMA RotateCalls ==
  ASSUME IInv(k), NEW p \in TPRI, rot_rdq(p) \/ irot_rdq(p)
  PROVE  IInv(k')
<1>1. PICK y : y = rotate_ready_queue(k, p)
  OBVIOUS
<1>2. Call(k, y)
  BY <1>1, Rotate
<1>3. CASE rot_rdq(p)
  <2>1. k.kerflg /\ k.excpt_nest_count = 0 /\ k' = t_leave(y)
    BY <1>1, <1>3 DEF rot_rdq, CHECK_TSKCTX_UNL, TSKCTX
  <2> QED BY <1>2, <2>1, CallTaskLeave
<1>4. CASE irot_rdq(p)
  <2>1. k.kerflg /\ k.excpt_nest_count > 0 /\ k' = i_leave(y)
    BY <1>1, <1>4 DEF irot_rdq, CHECK_INTCTX_UNL, INTCTX
  <2> QED BY <1>2, <2>1, CallIntLeave
<1> QED BY <1>3, <1>4

(* One expiry of a waiting task's time event block. *)
LEMMA SignalTime ==
  ASSUME IInv(k), NEW t \in Task, signal_time(t)
  PROVE  IInv(k')
<1>1. Static(k) /\ k.kerflg /\ k.excpt_nest_count > 0 /\ k.tmevtb[t] # "none"
  BY DEF IInv, signal_time, CHECK_INTCTX_UNL, INTCTX
<1>2. "WAITING" \in k.tstat[t]
  BY <1>1 DEF Static, WaitsOK, WaitOK
<1>3. PICK y : /\ k' = i_leave(y)
               /\ y \in {wait_tmout([k EXCEPT !.tmevtb[t] = "none"], t),
                         wait_tmout_ok([k EXCEPT !.tmevtb[t] = "none"], t)}
  BY DEF signal_time
<1>4. Call(k, y)
  BY <1>1, <1>2, <1>3, WaitEnd DEF Call
<1> QED BY <1>1, <1>3, <1>4, CallIntLeave

-----------------------------------------------------------------------------
(* A step that changes the context's fields and not the running task. *)
LEMMA ContextStep ==
  ASSUME NEW j, IInv(j), NEW r, Frame(j, r, ContextFields), ContextType(r), FlagOK(r),
         r.kerflg, r.p_runtsk = j.p_runtsk, r.p_runtsk = NULL => r.dspflg,
         r.excpt_nest_count = 0 => r.p_runtsk # NULL,
         r.excpt_nest_count = 0 /\ r.dspflg => r.p_runtsk = j.p_schedtsk,
         r.excpt_nest_count > 0 /\ r.dspflg /\ r.p_runtsk # j.p_schedtsk => r.reqflg
  PROVE  IInv(r)
<1>1. Frame(j, r, ContextFields \cup {"dspreq"}) /\ Static(j)
  BY DEF Frame, IInv
<1>2. Static(r) /\ r.tstat = j.tstat /\ r.p_schedtsk = j.p_schedtsk
  BY <1>1, ContextChange
<1>3. r.dspreq = j.dspreq
  BY <1>1 DEF Frame, ContextFields, Static, Data, KernelFields
<1>4. Dispatched(r)
  BY <1>2 DEF Dispatched
<1> QED BY <1>2, <1>3, <1>4 DEF IInv, Context, Running, Boot

(* loc_cpu, unl_cpu, iloc_cpu and iunl_cpu. *)
LEMMA LockCalls ==
  ASSUME IInv(k), loc_cpu \/ unl_cpu \/ iloc_cpu \/ iunl_cpu
  PROVE  IInv(k')
<1>1. Static(k) /\ k.kerflg
  BY DEF IInv, loc_cpu, unl_cpu, iloc_cpu, iunl_cpu, TSKCTX, INTCTX
<1>2. PICK b \in BOOLEAN : k' = [k EXCEPT !.lock = b]
  BY DEF loc_cpu, unl_cpu, iloc_cpu, iunl_cpu
<1>3. PICK r : r = k'
  OBVIOUS
<1>4. /\ r.lock = b /\ r.p_runtsk = k.p_runtsk /\ r.disdsp = k.disdsp
      /\ r.ipmflg = k.ipmflg /\ r.dspflg = k.dspflg /\ r.boot = k.boot
      /\ r.kerflg = k.kerflg /\ r.reqflg = k.reqflg /\ r.dspreq = k.dspreq
      /\ r.excpt_nest_count = k.excpt_nest_count /\ Frame(k, r, ContextFields)
  BY <1>1, <1>2, <1>3 DEF Static, Data, KernelFields, Frame, ContextFields
<1>5. ContextType(r) /\ FlagOK(r)
  BY <1>1, <1>4 DEF ContextType, Static, Data, SchedType, FlagOK
<1>6. IInv(r)
  BY <1>1, <1>4, <1>5, ContextStep DEF IInv, Context, Running, Dispatched
<1> QED BY <1>3, <1>6

(* enable_dispatch makes the dispatch that was not made before. *)
LEMMA EnableDispatch ==
  ASSUME IInv(k), TSKCTX, NEW y, Frame(k, y, {"disdsp", "ipmflg"}),
         y.disdsp = FALSE, y.ipmflg = TRUE, NEW r, r = enable_dispatch(y)
  PROVE  IInv(r)
<1>1. /\ Static(k) /\ k.kerflg /\ k.excpt_nest_count = 0 /\ k.p_runtsk \in Task
      /\ KernelFields \subseteq DOMAIN k
  BY TaskContext DEF Static, Data
<1>2. PICK z : z = [y EXCEPT !.dspflg = TRUE]
  OBVIOUS
<1>3. KernelFields \subseteq DOMAIN y /\ \A f \in KernelFields \ {"disdsp", "ipmflg"} : y[f] = k[f]
  BY <1>1 DEF Frame
<1>4. /\ z.lock = k.lock /\ z.p_runtsk = k.p_runtsk /\ z.disdsp = FALSE
      /\ z.ipmflg = TRUE /\ z.dspflg = TRUE /\ z.boot = k.boot
      /\ z.kerflg = k.kerflg /\ z.reqflg = k.reqflg /\ z.dspreq = k.dspreq
      /\ z.excpt_nest_count = k.excpt_nest_count /\ Frame(k, z, ContextFields)
      /\ z.p_schedtsk = k.p_schedtsk
  BY <1>1, <1>2, <1>3 DEF KernelFields, Frame, ContextFields
<1>5. ContextType(z) /\ FlagOK(z)
  BY <1>1, <1>4 DEF ContextType, Static, Data, SchedType, FlagOK
<1>6. r = IF z.p_runtsk # z.p_schedtsk THEN dispatcher(z) ELSE z
  BY <1>2 DEF enable_dispatch
<1>7. CASE z.p_runtsk # z.p_schedtsk
  <2>1. Frame(k, z, ContextFields \cup {"dspreq"})
    BY <1>4 DEF Frame
  <2>2. Static(z)
    BY <1>1, <1>5, <2>1, ContextChange
  <2> HIDE <1>2
  <2>3. z.kerflg /\ z.dspflg /\ r = dispatcher(z)
    BY <1>1, <1>4, <1>6, <1>7
  <2> QED BY <2>2, <2>3, Dispatcher
<1>8. CASE z.p_runtsk = z.p_schedtsk
  <2> HIDE <1>2
  <2>1. IInv(z)
    BY <1>1, <1>4, <1>5, <1>8, NullAssumption, ContextStep
  <2> QED BY <1>6, <1>8, <2>1
<1> QED BY <1>7, <1>8

(* dis_dsp, ena_dsp and chg_ipm. *)
LEMMA DispatchCalls ==
  ASSUME IInv(k), dis_dsp \/ ena_dsp \/ \E b \in BOOLEAN : chg_ipm(b)
  PROVE  IInv(k')
<1>1. /\ TSKCTX /\ Static(k) /\ k.kerflg /\ k.excpt_nest_count = 0 /\ k.p_runtsk \in Task
      /\ KernelFields \subseteq DOMAIN k
  <2>1. TSKCTX
    BY DEF dis_dsp, ena_dsp, chg_ipm, CHECK_TSKCTX_UNL
  <2> QED BY <2>1, TaskContext DEF Static, Data
<1>2. PICK r : r = k'
  OBVIOUS
<1>3. \/ \E y : /\ Frame(k, y, {"disdsp", "ipmflg"}) /\ y.disdsp = FALSE /\ y.ipmflg = TRUE
                /\ r = enable_dispatch(y)
      \/ \E d, i \in BOOLEAN : /\ d \/ ~i
                               /\ r = [k EXCEPT !.disdsp = d, !.ipmflg = i, !.dspflg = FALSE]
  <2>1. /\ k.disdsp \in BOOLEAN /\ k.ipmflg \in BOOLEAN /\ k.dspflg \in BOOLEAN
        /\ k.dspflg <=> ~k.disdsp /\ k.ipmflg
    BY <1>1 DEF Static, Data, SchedType, FlagOK
  <2>2. CASE dis_dsp
    <3>1. r = [k EXCEPT !.disdsp = TRUE, !.ipmflg = k.ipmflg, !.dspflg = FALSE]
      BY <1>1, <1>2, <2>2 DEF dis_dsp, KernelFields
    <3> QED BY <2>1, <3>1
  <2>3. CASE ena_dsp /\ k.ipmflg
    <3>1. PICK y : y = [k EXCEPT !.disdsp = FALSE]
      OBVIOUS
    <3>2. r = enable_dispatch(y)
      BY <1>2, <2>3, <3>1 DEF ena_dsp
    <3>3. Frame(k, y, {"disdsp", "ipmflg"}) /\ y.disdsp = FALSE /\ y.ipmflg = TRUE
      BY <1>1, <2>1, <2>3, <3>1 DEF KernelFields, Frame
    <3> QED BY <3>2, <3>3
  <2>4. CASE ena_dsp /\ ~k.ipmflg
    <3>1. r = [k EXCEPT !.disdsp = FALSE, !.ipmflg = FALSE, !.dspflg = FALSE]
      BY <1>1, <1>2, <2>1, <2>4 DEF ena_dsp, KernelFields
    <3> QED BY <3>1
  <2>5. CASE chg_ipm(FALSE)
    <3>1. r = [k EXCEPT !.disdsp = k.disdsp, !.ipmflg = FALSE, !.dspflg = FALSE]
      BY <1>1, <1>2, <2>1, <2>5 DEF chg_ipm, KernelFields
    <3> QED BY <2>1, <3>1
  <2>6. CASE chg_ipm(TRUE) /\ k.disdsp
    <3>1. r = [k EXCEPT !.disdsp = TRUE, !.ipmflg = TRUE, !.dspflg = FALSE]
      BY <1>1, <1>2, <2>1, <2>6 DEF chg_ipm, KernelFields
    <3> QED BY <2>1, <3>1
  <2>7. CASE chg_ipm(TRUE) /\ ~k.disdsp
    <3>1. PICK y : y = [k EXCEPT !.ipmflg = TRUE]
      OBVIOUS
    <3>2. r = enable_dispatch(y)
      BY <1>2, <2>7, <3>1 DEF chg_ipm
    <3>3. Frame(k, y, {"disdsp", "ipmflg"}) /\ y.disdsp = FALSE /\ y.ipmflg = TRUE
      BY <1>1, <2>1, <2>7, <3>1 DEF KernelFields, Frame
    <3> QED BY <3>2, <3>3
  <2> QED BY <2>2, <2>3, <2>4, <2>5, <2>6, <2>7
<1>4. CASE \E y : /\ Frame(k, y, {"disdsp", "ipmflg"}) /\ y.disdsp = FALSE /\ y.ipmflg = TRUE
                  /\ r = enable_dispatch(y)
  <2>1. IInv(r)
    BY <1>1, <1>4, EnableDispatch
  <2> QED BY <2>1, <1>2
<1>5. CASE \E d, i \in BOOLEAN : /\ d \/ ~i
                                 /\ r = [k EXCEPT !.disdsp = d, !.ipmflg = i, !.dspflg = FALSE]
  <2>1. PICK d, i \in BOOLEAN : /\ d \/ ~i
                                /\ r = [k EXCEPT !.disdsp = d, !.ipmflg = i, !.dspflg = FALSE]
    BY <1>5
  <2>2. /\ r.lock = k.lock /\ r.p_runtsk = k.p_runtsk /\ r.disdsp = d
        /\ r.ipmflg = i /\ r.dspflg = FALSE /\ r.boot = k.boot
        /\ r.kerflg = k.kerflg /\ r.reqflg = k.reqflg /\ r.dspreq = k.dspreq
        /\ r.excpt_nest_count = k.excpt_nest_count /\ Frame(k, r, ContextFields)
    BY <1>1, <2>1 DEF KernelFields, Frame, ContextFields
  <2>3. ContextType(r) /\ FlagOK(r)
    BY <1>1, <2>1, <2>2 DEF ContextType, Static, Data, SchedType, FlagOK
  <2>4. IInv(r)
    BY <1>1, <2>2, <2>3, NullAssumption, ContextStep
  <2> QED BY <2>4, <1>2
<1> QED BY <1>3, <1>4, <1>5

(* int_entry. *)
LEMMA IntEntry ==
  ASSUME IInv(k), int_entry
  PROVE  IInv(k')
<1>1. /\ Static(k) /\ k.kerflg /\ KernelFields \subseteq DOMAIN k
      /\ k.excpt_nest_count \in 0 .. MaxNest + 1
  BY DEF IInv, int_entry, Static, Data
<1>2. PICK r : r = k'
  OBVIOUS
<1>3. /\ r.lock = k.lock /\ r.p_runtsk = k.p_runtsk /\ r.disdsp = k.disdsp
      /\ r.ipmflg = k.ipmflg /\ r.dspflg = k.dspflg /\ r.boot = k.boot
      /\ r.kerflg = k.kerflg /\ r.reqflg = k.reqflg /\ r.dspreq = k.dspreq
      /\ r.excpt_nest_count = k.excpt_nest_count + 1 /\ Frame(k, r, ContextFields)
  BY <1>1, <1>2 DEF int_entry, KernelFields, Frame, ContextFields
<1>4. r.excpt_nest_count \in 1 .. MaxNest + 1
  BY <1>1, <1>3, MaxNestAssumption DEF int_entry
<1>5. ContextType(r) /\ FlagOK(r)
  <2>1. r.excpt_nest_count \in 0 .. MaxNest + 1
    BY <1>4
  <2> QED BY <1>1, <1>3, <2>1 DEF ContextType, Static, Data, SchedType, FlagOK
<1>6. /\ r.p_runtsk = NULL => r.dspflg
      /\ r.dspflg /\ r.p_runtsk # k.p_schedtsk => r.reqflg
  BY <1>1, <1>3 DEF IInv, Context, Running, Dispatched
<1>7. r.excpt_nest_count # 0
  BY <1>4
<1>8. IInv(r)
  BY <1>1, <1>3, <1>5, <1>6, <1>7, ContextStep
<1> QED BY <1>2, <1>8

(* ret_int: the outermost handler dispatches when reqflg is set. *)
LEMMA IntReturn ==
  ASSUME IInv(k), ret_int
  PROVE  IInv(k')
<1>1. /\ Static(k) /\ k.kerflg /\ KernelFields \subseteq DOMAIN k
      /\ k.excpt_nest_count \in 1 .. MaxNest + 1
      /\ k.p_runtsk = NULL => k.excpt_nest_count # 1
  BY MaxNestAssumption DEF IInv, ret_int, INTCTX, Idle, Static, Data
<1>2. PICK r : r = k'
  OBVIOUS
<1>3. PICK n : n = k.excpt_nest_count - 1
  OBVIOUS
<1>4. n \in 0 .. MaxNest + 1 /\ (n = 0 => k.p_runtsk # NULL)
  BY <1>1, <1>3, MaxNestAssumption
<1>5. PICK y : y = [k EXCEPT !.excpt_nest_count = n, !.lock = FALSE]
  OBVIOUS
<1>6. PICK z : z = [y EXCEPT !.reqflg = FALSE]
  OBVIOUS
<1>7. r = IF n > 0 \/ ~k.reqflg THEN y
          ELSE IF k.dspflg /\ k.p_runtsk # k.p_schedtsk THEN dispatcher(z) ELSE z
  <2>1. y = [k EXCEPT !.excpt_nest_count = @ - 1, !.lock = FALSE]
    BY <1>3, <1>5
  <2>2. y.excpt_nest_count = n
    BY <1>1, <1>5 DEF KernelFields
  <2> QED BY <1>2, <1>6, <2>1, <2>2 DEF ret_int
<1>8. /\ y.p_runtsk = k.p_runtsk /\ y.disdsp = k.disdsp /\ y.lock = FALSE
      /\ y.ipmflg = k.ipmflg /\ y.dspflg = k.dspflg /\ y.boot = k.boot
      /\ y.kerflg = k.kerflg /\ y.reqflg = k.reqflg /\ y.dspreq = k.dspreq
      /\ y.excpt_nest_count = n /\ Frame(k, y, ContextFields)
  BY <1>1, <1>5 DEF KernelFields, Frame, ContextFields
<1>9. /\ z.p_runtsk = k.p_runtsk /\ z.disdsp = k.disdsp /\ z.lock = FALSE
      /\ z.ipmflg = k.ipmflg /\ z.dspflg = k.dspflg /\ z.boot = k.boot
      /\ z.kerflg = k.kerflg /\ z.reqflg = FALSE /\ z.dspreq = k.dspreq
      /\ z.excpt_nest_count = n /\ Frame(k, z, ContextFields)
  BY <1>1, <1>5, <1>6 DEF KernelFields, Frame, ContextFields
<1>10. ContextType(y) /\ FlagOK(y) /\ ContextType(z) /\ FlagOK(z)
  <2>1. ContextType(y) /\ FlagOK(y)
    BY <1>1, <1>4, <1>8 DEF ContextType, Static, Data, SchedType, FlagOK
  <2>2. ContextType(z) /\ FlagOK(z)
    BY <1>1, <1>4, <1>9 DEF ContextType, Static, Data, SchedType, FlagOK
  <2> QED BY <2>1, <2>2
<1>11. /\ k.p_runtsk = NULL => k.dspflg
       /\ k.dspflg /\ k.p_runtsk # k.p_schedtsk => k.reqflg
  BY <1>1 DEF IInv, Context, Running, Dispatched
<1> HIDE <1>3, <1>5, <1>6
<1>12. CASE n > 0 \/ ~k.reqflg
  <2>1. /\ y.kerflg /\ (y.p_runtsk = NULL => y.dspflg)
        /\ y.excpt_nest_count = 0 => y.p_runtsk # NULL
        /\ y.excpt_nest_count = 0 /\ y.dspflg => y.p_runtsk = k.p_schedtsk
        /\ y.excpt_nest_count > 0 /\ y.dspflg /\ y.p_runtsk # k.p_schedtsk => y.reqflg
    BY <1>1, <1>4, <1>8, <1>11, <1>12
  <2>2. IInv(y)
    BY <2>1, <1>8, <1>10, ContextStep
  <2> QED BY <1>2, <1>7, <1>12, <2>2
<1>13. CASE n = 0 /\ k.reqflg /\ k.dspflg /\ k.p_runtsk # k.p_schedtsk
  <2>1. Frame(k, z, ContextFields \cup {"dspreq"})
    BY <1>9 DEF Frame
  <2>2. Static(z)
    BY <1>1, <1>10, <2>1, ContextChange
  <2>3. z.kerflg /\ z.dspflg
    BY <1>1, <1>9, <1>13
  <2>4. r = dispatcher(z)
    BY <1>7, <1>13
  <2>5. IInv(r)
    BY <2>2, <2>3, <2>4, Dispatcher
  <2> QED BY <1>2, <2>5
<1>14. CASE n = 0 /\ k.reqflg /\ ~(k.dspflg /\ k.p_runtsk # k.p_schedtsk)
  <2>1. IInv(z)
    BY <1>1, <1>4, <1>9, <1>10, <1>11, <1>14, ContextStep
  <2> QED BY <1>2, <1>7, <1>14, <2>1
<1> QED BY <1>4, <1>12, <1>13, <1>14

(* idle_loop. *)
LEMMA IdleLoop ==
  ASSUME IInv(k), idle_loop
  PROVE  IInv(k')
<1>1. /\ Static(k) /\ k.kerflg /\ KernelFields \subseteq DOMAIN k /\ k.dspflg
  BY DEF IInv, idle_loop, Idle, Static, Data, Context, Running
<1>2. PICK y : y = [k EXCEPT !.reqflg = FALSE]
  OBVIOUS
<1>3. /\ y.p_runtsk = k.p_runtsk /\ y.disdsp = k.disdsp /\ y.lock = k.lock
      /\ y.ipmflg = k.ipmflg /\ y.dspflg = k.dspflg /\ y.boot = k.boot
      /\ y.kerflg = k.kerflg /\ y.reqflg = FALSE /\ y.dspreq = k.dspreq
      /\ y.excpt_nest_count = k.excpt_nest_count
      /\ Frame(k, y, ContextFields \cup {"dspreq"})
  BY <1>1, <1>2 DEF KernelFields, Frame, ContextFields
<1>4. ContextType(y) /\ FlagOK(y)
  BY <1>1, <1>3 DEF ContextType, Static, Data, SchedType, FlagOK
<1>5. Static(y) /\ y.kerflg /\ y.dspflg
  BY <1>1, <1>3, <1>4, ContextChange
<1>6. k' = dispatcher(y)
  BY <1>2 DEF idle_loop
<1> HIDE <1>2
<1> QED BY <1>5, <1>6, Dispatcher

(* start_dispatch. *)
LEMMA StartDispatch ==
  ASSUME IInv(k), start_dispatch
  PROVE  IInv(k')
<1>1. /\ Static(k) /\ KernelFields \subseteq DOMAIN k /\ k.dspflg
  BY DEF IInv, start_dispatch, Static, Data, Context, Boot
<1>2. PICK y : y = [k EXCEPT !.kerflg = TRUE]
  OBVIOUS
<1>3. /\ y.p_runtsk = k.p_runtsk /\ y.disdsp = k.disdsp /\ y.lock = k.lock
      /\ y.ipmflg = k.ipmflg /\ y.dspflg = k.dspflg /\ y.boot = k.boot
      /\ y.kerflg = TRUE /\ y.reqflg = k.reqflg /\ y.dspreq = k.dspreq
      /\ y.excpt_nest_count = k.excpt_nest_count
      /\ Frame(k, y, ContextFields \cup {"dspreq"})
  BY <1>1, <1>2 DEF KernelFields, Frame, ContextFields
<1>4. ContextType(y) /\ FlagOK(y)
  BY <1>1, <1>3 DEF ContextType, Static, Data, SchedType, FlagOK
<1>5. Static(y) /\ y.kerflg /\ y.dspflg
  BY <1>1, <1>3, <1>4, ContextChange
<1>6. k' = dispatcher(y)
  BY <1>2 DEF start_dispatch
<1> HIDE <1>2
<1> QED BY <1>5, <1>6, Dispatcher

(* One iteration of initialize_task. *)
LEMMA InitializeTask ==
  ASSUME IInv(k), initialize_task
  PROVE  IInv(k')
<1>1. /\ Static(k) /\ KernelFields \subseteq DOMAIN k /\ k.dspflg /\ ~k.dspreq
      /\ k.p_runtsk = NULL /\ ~k.kerflg /\ k.boot \in 1 .. Len(torder)
      /\ \A i \in 1 .. Len(torder) : i >= k.boot => k.tstat[torder[i]] = {}
  BY TableAssumption DEF IInv, initialize_task, Static, Data, Context, Boot
<1>2. PICK t \in Task : t = torder[k.boot]
  BY <1>1, TableAssumption
<1>3. k.tstat[t] = {} /\ k.tskatr[t] # "TA_NOEXS"
  <2>1. t \in Range(torder)
    BY <1>1, <1>2 DEF Range
  <2>2. k.tskatr[t] # "TA_NOEXS"
    BY <2>1, <1>1, TableAssumption DEF Static, FreeOK
  <2>3. k.tstat[torder[k.boot]] = {}
    BY <1>1, SMTT(60)
  <2> QED BY <2>2, <2>3, <1>2
<1>4. PICK x : x = [k EXCEPT !.actque[t] = FALSE, !.mutex_queue[t] = <<>>]
  OBVIOUS
<1>5. /\ x.actque = [k.actque EXCEPT ![t] = FALSE]
      /\ Frame(k, x, {"actque", "mutex_queue"})
  BY <1>1, <1>4 DEF Frame, KernelFields
<1>6. /\ x.bpriority = k.bpriority /\ x.wupque = k.wupque /\ x.winfo = k.winfo
      /\ x.tmevtb = k.tmevtb /\ x.newbpri = k.newbpri
  BY <1>1, <1>5 DEF Frame, KernelFields
<1>7. TaskType(x) /\ Frame(k, x, MinorFields)
  BY <1>1, <1>5, <1>6 DEF TaskType, Static, Data, Frame, MinorFields
<1>8. Static(x) /\ SameContext(k, x) /\ x.tstat = k.tstat /\ x.tskatr = k.tskatr
  BY <1>1, <1>7, Minor DEF Call
<1>9. StaticBut(x, t)
  <2>1. Runnable(x) \ {t} = Runnable(x)
    BY <1>3, <1>8 DEF Runnable, TSTAT_RUNNABLE
  <2>2. x.tmevtb[t] = "none"
    BY <1>3, <1>8 DEF Static, WaitsOK, WaitOK
  <2> QED BY <1>8, <2>1, <2>2 DEF StaticBut, Static, WaitsOK, NoexsOK
<1>10. PICK y : y = make_dormant(x, t)
  OBVIOUS
<1>11. /\ Static(y) /\ y.tstat = [x.tstat EXCEPT ![t] = {}]
       /\ Frame(x, y, {"tstat", "bpriority", "priority", "wupque"})
  BY <1>9, <1>10, MakeDormant
<1>12. /\ KernelFields \subseteq DOMAIN y /\ SameContext(k, y) /\ y.tskatr = k.tskatr
       /\ y.tstat[t] = {} /\ \A u \in Task : y.tstat[u] = k.tstat[u]
  <2>1. KernelFields \subseteq DOMAIN y /\ y.tskatr = x.tskatr /\ SameContext(x, y)
    BY <1>8, <1>11, ZenonT(60) DEF Frame, Static, Data, KernelFields, SameContext
  <2>2. k.tstat \in [Task -> SUBSET TstatFlag]
    BY <1>1 DEF Static, Data, SchedType
  <2>3. SameContext(k, y)
    BY <2>1, <1>8 DEF SameContext
  <2> QED BY <2>1, <2>2, <2>3, <1>3, <1>8, <1>11
<1>13. PICK a : a = IF t \in TaAct THEN make_active(y, t) ELSE y
  OBVIOUS
<1>14. /\ Static(a) /\ SameContext(k, a)
       /\ \A u \in Task \ {t} : a.tstat[u] = k.tstat[u]
  <2>1. CASE t \in TaAct
    <3>1. a = make_active(y, t)
      BY <1>13, <2>1
    <3>2. a.tstat = [y.tstat EXCEPT ![t] = TS_RUNNABLE]
      BY <3>1, <1>12 DEF make_active, make_runnable, activate_context, KernelFields
    <3>3. \A u \in Task \ {t} : a.tstat[u] = y.tstat[u]
      BY <3>2, <1>11 DEF Static, Data, SchedType
    <3> HIDE <1>13
    <3>4. Static(a) /\ SameContext(y, a)
      BY <3>1, <1>3, <1>11, <1>12, MakeActive
    <3> QED BY <3>3, <3>4, <1>12 DEF SameContext
  <2>2. CASE t \notin TaAct
    BY <1>11, <1>12, <1>13, <2>2
  <2> QED BY <2>1, <2>2
<1>15. PICK r : r = k'
  OBVIOUS
<1>16. /\ r.dspreq = k.dspreq /\ r.boot = k.boot + 1 /\ Frame(a, r, {"dspreq", "boot"})
       /\ r.p_runtsk = a.p_runtsk /\ r.disdsp = a.disdsp /\ r.lock = a.lock
       /\ r.ipmflg = a.ipmflg /\ r.dspflg = a.dspflg /\ r.kerflg = a.kerflg
       /\ r.reqflg = a.reqflg /\ r.excpt_nest_count = a.excpt_nest_count
  <2>1. k' = [(IF t \in TaAct THEN Void(k, make_active(y, t)) ELSE y) EXCEPT !.boot = @ + 1]
    BY <1>2, <1>4, <1>10 DEF initialize_task
  <2>2. y.dspreq = k.dspreq
    BY <1>1, <1>5, <1>11, <1>12 DEF Frame, KernelFields
  <2>3. KernelFields \subseteq DOMAIN a /\ a.boot = k.boot
    BY <1>14 DEF Static, Data, SameContext
  <2>4. CASE t \in TaAct
    <3>1. r = [[a EXCEPT !.dspreq = k.dspreq] EXCEPT !.boot = @ + 1]
      BY <1>13, <1>15, <2>1, <2>4 DEF Void
    <3> HIDE <1>13, <1>15
    <3> QED BY <3>1, <2>3 DEF Frame, KernelFields
  <2>5. CASE t \notin TaAct
    <3>1. r = [y EXCEPT !.boot = @ + 1] /\ a = y
      BY <1>13, <1>15, <2>1, <2>5
    <3> HIDE <1>13, <1>15, <1>10
    <3> QED BY <3>1, <2>2, <2>3 DEF Frame, KernelFields
  <2> QED BY <2>4, <2>5
<1> HIDE <1>4, <1>10, <1>13
<1>17. ContextType(r) /\ FlagOK(r)
  <2>1. r.boot \in Nat /\ r.dspreq \in BOOLEAN
    BY <1>1, <1>16, SMTT(60) DEF Static, Data, SchedType
  <2> QED BY <1>14, <1>16, <2>1 DEF ContextType, Static, Data, SchedType, FlagOK
<1>18. Static(r) /\ r.tstat = a.tstat
  <2>1. Frame(a, r, ContextFields \cup {"dspreq"})
    BY <1>16 DEF Frame, ContextFields
  <2> QED BY <2>1, <1>14, <1>17, ContextChange
<1>19. Boot(r)
  <2>1. ASSUME NEW i \in 1 .. Len(torder), i >= r.boot PROVE r.tstat[torder[i]] = {}
    <3>1. i # k.boot /\ i >= k.boot
      BY <2>1, <1>1, <1>16, TableAssumption
    <3>2. torder[i] \in Task \ {t}
      BY <3>1, <1>1, <1>2, TableAssumption
    <3> QED BY <3>1, <3>2, <1>1, <1>14, <1>18
  <2>2. r.boot >= 1
    BY <1>1, <1>16
  <2> QED BY <2>1, <2>2, <1>1, <1>14, <1>16 DEF Boot, SameContext
<1>20. Context(r)
  BY <1>1, <1>14, <1>16, <1>19 DEF Context, SameContext, Running, Dispatched
<1> QED BY <1>15, <1>18, <1>20 DEF IInv

(* No step of the kernel gives a task a mutex. *)
LEMMA NextNoMutex ==
  ASSUME IInv(k), NoMutex(k), [Next]_k
  PROVE  NoMutex(k')
<1>1. CASE k' = k
  BY <1>1
<1>2. CASE Startup
  <2>1. CASE initialize_task
    <3>1. PICK t : t = torder[k.boot]
      OBVIOUS
    <3>2. PICK y : y = [k EXCEPT !.actque[t] = FALSE, !.mutex_queue[t] = <<>>]
      OBVIOUS
    <3>3. NoMutex(y)
      BY <3>2 DEF NoMutex
    <3>4. PICK z : z = IF t \in TaAct THEN Void(k, make_active(make_dormant(y, t), t))
                       ELSE make_dormant(y, t)
      OBVIOUS
    <3>5. k' = [z EXCEPT !.boot = @ + 1]
      BY <2>1, <3>1, <3>2, <3>4 DEF initialize_task
    <3>6. NoMutex(z)
      BY <3>3, <3>4, NoMutexTask, NoMutexLeave
    <3> HIDE <3>4
    <3> QED BY <3>5, <3>6 DEF NoMutex
  <2>2. CASE start_dispatch
    <3>1. NoMutex([k EXCEPT !.kerflg = TRUE])
      BY DEF NoMutex
    <3> QED BY <2>2, <3>1, NoMutexLeave DEF start_dispatch
  <2> QED BY <1>2, <2>1, <2>2 DEF Startup
<1>3. CASE TaskManage
  <2>1. ASSUME NEW p \in TPRI, NEW b \in BOOLEAN, acre_tsk(p, b)
        PROVE  NoMutex(k')
    <3>1. PICK t : t = Head(k.free_tcb)
      OBVIOUS
    <3>2. PICK y : y = [k EXCEPT !.free_tcb = Tail(@), !.tskatr[t] = "TA_NULL",
                                 !.ipriority[t] = p, !.actque[t] = FALSE,
                                 !.mutex_queue[t] = <<>>]
      OBVIOUS
    <3>3. NoMutex(y)
      BY <3>2 DEF NoMutex
    <3>4. k' = t_leave(IF b THEN make_active(make_dormant(y, t), t) ELSE make_dormant(y, t))
      BY <2>1, <3>1, <3>2 DEF acre_tsk
    <3> HIDE <3>2
    <3> QED BY <3>3, <3>4, NoMutexTask, NoMutexLeave
  <2>2. ASSUME NEW t \in Task, del_tsk(t) \/ can_act(t) \/ chg_pri_ini(t)
        PROVE  NoMutex(k')
    BY <2>2 DEF NoMutex, del_tsk, can_act, chg_pri_ini
  <2>3. ASSUME NEW t \in Task, act_tsk(t) \/ iact_tsk(t)
        PROVE  NoMutex(k')
    <3>1. NoMutex([k EXCEPT !.actque[t] = TRUE])
      BY DEF NoMutex
    <3>2. NoMutex(activate(t))
      BY <3>1, NoMutexTask DEF activate
    <3> QED BY <2>3, <3>2, NoMutexLeave DEF act_tsk, iact_tsk
  <2>4. ASSUME NEW t \in Task, ter_tsk(t)
        PROVE  NoMutex(k')
    <3>1. PICK y : y = IF TSTAT_RUNNABLE(k, t) THEN Void(k, make_non_runnable(k, t))
                       ELSE IF TSTAT_WAITING(k, t)
                            THEN wait_dequeue_tmevtb(wait_dequeue_wobj(k, t), t)
                            ELSE k
      OBVIOUS
    <3>2. NoMutex(y)
      BY <3>1, NoMutexReady, NoMutexTask, NoMutexLeave
    <3>3. k' = t_leave(end_task(y, t))
      BY <2>4, <3>1 DEF ter_tsk
    <3> HIDE <3>1
    <3> QED BY <3>2, <3>3, NoMutexEnd, NoMutexLeave
  <2>5. ASSUME NEW t \in Task, NEW p \in TPRI, chg_pri(t, p)
        PROVE  NoMutex(k')
    BY <2>5, NoMutexChgPri DEF chg_pri
  <2>6. CASE chg_pri_ini_lock
    <3>1. k.p_runtsk \in Task /\ Static(k)
      BY <2>6, TaskContext DEF chg_pri_ini_lock
    <3>2. PICK c \in [tskid : Task, pri : TPRI] : c = k.newbpri[k.p_runtsk]
      BY <2>6, <3>1 DEF chg_pri_ini_lock, Static, Data
    <3>3. PICK y : y = [k EXCEPT !.newbpri[k.p_runtsk] = NULL]
      OBVIOUS
    <3>4. k' = chg_pri_locked(y, c.tskid, c.pri)
      BY <2>6, <3>2, <3>3 DEF chg_pri_ini_lock
    <3>5. NoMutex(y) /\ c.tskid \in Task
      BY <3>3 DEF NoMutex
    <3> QED BY <3>4, <3>5, NoMutexChgPri
  <2>7. CASE ext_tsk
    <3>1. PICK t \in Task : t = k.p_runtsk
      BY <2>7, TaskContext DEF ext_tsk
    <3>2. PICK y : y = [k EXCEPT !.disdsp = FALSE, !.ipmflg = TRUE, !.dspflg = TRUE]
      OBVIOUS
    <3>3. NoMutex(y)
      BY <3>2 DEF NoMutex
    <3>4. k' = dispatcher(end_task(make_non_runnable(y, t), t))
      BY <2>7, <3>1, <3>2 DEF ext_tsk
    <3> HIDE <3>1, <3>2
    <3>5. NoMutex(make_non_runnable(y, t))
      BY <3>3, NoMutexReady
    <3>6. NoMutex(end_task(make_non_runnable(y, t), t))
      BY <3>5, NoMutexEnd
    <3> QED BY <3>4, <3>6, NoMutexLeave
  <2> QED BY <1>3, <2>1, <2>2, <2>3, <2>4, <2>5, <2>6, <2>7 DEF TaskManage
<1>4. CASE TaskSync
  <2>1. ASSUME NEW b \in BOOLEAN, slp_tsk(b) \/ dly_tsk
        PROVE  NoMutex(k')
    <3>1. ASSUME NEW w PROVE NoMutex(begin_wait(w))
      BY DEF NoMutex, begin_wait
    <3>2. NoMutex([k EXCEPT !.wupque[k.p_runtsk] = FALSE])
      BY DEF NoMutex
    <3>3. NoMutex(make_wait_tmout(begin_wait("SLP"), b))
      BY <3>1, NoMutexWait DEF make_wait_tmout
    <3>4. NoMutex(make_wait_tmevtb(begin_wait("DLY"), "wait_tmout_ok"))
      BY <3>1, NoMutexWait
    <3> QED BY <2>1, <3>2, <3>3, <3>4, NoMutexLeave DEF slp_tsk, dly_tsk
  <2>2. ASSUME NEW t \in Task, wup_tsk(t) \/ iwup_tsk(t)
        PROVE  NoMutex(k')
    <3>1. NoMutex([k EXCEPT !.wupque[t] = TRUE])
      BY DEF NoMutex
    <3>2. NoMutex(wakeup(t))
      BY <3>1, NoMutexRelease DEF wakeup
    <3> QED BY <2>2, <3>2, NoMutexLeave DEF wup_tsk, iwup_tsk
  <2>3. ASSUME NEW t \in Task, rel_wai(t) \/ irel_wai(t)
        PROVE  NoMutex(k')
    BY <2>3, NoMutexRelease, NoMutexLeave DEF rel_wai, irel_wai
  <2>4. ASSUME NEW t \in Task, can_wup(t)
        PROVE  NoMutex(k')
    BY <2>4 DEF NoMutex, can_wup
  <2>5. ASSUME NEW t \in Task, sus_tsk(t) \/ rsm_tsk(t)
        PROVE  NoMutex(k')
    <3>1. /\ NoMutex([k EXCEPT !.tstat[t] = TS_SUSPENDED])
          /\ NoMutex([k EXCEPT !.tstat[t] = @ \cup TS_SUSPENDED])
          /\ NoMutex([k EXCEPT !.tstat[t] = @ \ TS_SUSPENDED])
          /\ NoMutex([k EXCEPT !.tstat[t] = TS_RUNNABLE])
      BY DEF NoMutex
    <3> QED BY <2>5, <3>1, NoMutexReady, NoMutexLeave DEF sus_tsk, rsm_tsk
  <2> QED BY <1>4, <2>1, <2>2, <2>3, <2>4, <2>5 DEF TaskSync
<1>5. CASE SysManage
  <2>1. ASSUME NEW p \in TPRI, rot_rdq(p) \/ irot_rdq(p)
        PROVE  NoMutex(k')
    BY <2>1, NoMutexReady, NoMutexLeave DEF rot_rdq, irot_rdq
  <2>2. CASE loc_cpu \/ unl_cpu \/ iloc_cpu \/ iunl_cpu \/ dis_dsp
    BY <2>2 DEF NoMutex, loc_cpu, unl_cpu, iloc_cpu, iunl_cpu, dis_dsp
  <2>3. ASSUME NEW y, NoMutex(y) PROVE NoMutex(enable_dispatch(y))
    <3>1. NoMutex([y EXCEPT !.dspflg = TRUE])
      BY <2>3 DEF NoMutex
    <3> QED BY <3>1, NoMutexLeave DEF enable_dispatch
  <2>4. CASE ena_dsp
    <3>1. NoMutex([k EXCEPT !.disdsp = FALSE])
      BY DEF NoMutex
    <3> QED BY <2>3, <2>4, <3>1 DEF ena_dsp
  <2>5. ASSUME NEW b \in BOOLEAN, chg_ipm(b)
        PROVE  NoMutex(k')
    <3>1. PICK y : y = [k EXCEPT !.ipmflg = b]
      OBVIOUS
    <3>2. NoMutex(y) /\ NoMutex([y EXCEPT !.dspflg = FALSE])
      BY <3>1 DEF NoMutex
    <3> QED BY <2>3, <2>5, <3>1, <3>2 DEF chg_ipm
  <2> QED BY <1>5, <2>1, <2>2, <2>4, <2>5 DEF SysManage
<1>6. CASE Processor
  <2>1. CASE wait_return \/ int_entry
    BY <2>1 DEF NoMutex, wait_return, int_entry
  <2>2. CASE ret_int
    <3>1. PICK y : y = [k EXCEPT !.excpt_nest_count = @ - 1, !.lock = FALSE]
      OBVIOUS
    <3>2. NoMutex(y) /\ NoMutex([y EXCEPT !.reqflg = FALSE])
      BY <3>1 DEF NoMutex
    <3> QED BY <2>2, <3>1, <3>2, NoMutexLeave DEF ret_int
  <2>3. CASE idle_loop
    <3>1. NoMutex([k EXCEPT !.reqflg = FALSE])
      BY DEF NoMutex
    <3> QED BY <2>3, <3>1, NoMutexLeave DEF idle_loop
  <2>4. ASSUME NEW t \in Task, signal_time(t)
        PROVE  NoMutex(k')
    <3>1. NoMutex([k EXCEPT !.tmevtb[t] = "none"])
      BY DEF NoMutex
    <3> QED BY <2>4, <3>1, NoMutexRelease, NoMutexLeave DEF signal_time
  <2> QED BY <1>6, <2>1, <2>2, <2>3, <2>4 DEF Processor
<1> QED BY <1>1, <1>2, <1>3, <1>4, <1>5, <1>6 DEF Next

(* The state in which initialize_object starts, with the objects' fields   *)
(* as they may be.                                                         *)
InitFields(x) ==
  /\ KernelFields \subseteq DOMAIN x
  /\ \A f \in KernelFields \ {"wobjatr"} : x[f] = KInit[f]

(* The initial state satisfies the invariant. *)
LEMMA InitFieldsIInv ==
  ASSUME NEW x, InitFields(x)
  PROVE  IInv(x)
<1>1. /\ KernelFields \subseteq DOMAIN x
      /\ x.tstat = [t \in Task |-> {}]
      /\ x.tskatr = [t \in Task |-> IF t \in Range(atcb) THEN "TA_NOEXS" ELSE "TA_NULL"]
      /\ x.ipriority = tinib_pri /\ x.bpriority = tinib_pri /\ x.priority = tinib_pri
      /\ x.actque = [t \in Task |-> FALSE] /\ x.wupque = [t \in Task |-> FALSE]
      /\ x.winfo = [t \in Task |-> "none"] /\ x.tmevtb = [t \in Task |-> "none"]
      /\ x.newbpri = [t \in Task |-> NULL]
      /\ x.free_tcb = atcb
  BY DEF InitFields, KInit, KernelFields, TS_DORMANT
<1>2. /\ x.ready_queue = [p \in TPRI |-> <<>>] /\ x.ready_primap = {}
      /\ x.p_schedtsk = NULL /\ x.p_runtsk = NULL /\ x.reqflg = FALSE /\ x.disdsp = FALSE
      /\ x.ipmflg = TRUE /\ x.dspflg = TRUE /\ x.dspreq = FALSE /\ x.lock = TRUE
      /\ x.excpt_nest_count = 1 /\ x.boot = 1 /\ x.kerflg = FALSE
  BY DEF InitFields, KInit, KernelFields
<1>3. SchedType(x)
  <2>1. x.tstat \in [Task -> SUBSET TstatFlag] /\ x.priority \in [Task -> TPRI]
    BY <1>1, TableAssumption
  <2>2. x.ready_queue \in [TPRI -> Seq(Task)] /\ x.ready_primap \in SUBSET TPRI
    <3>1. << >> \in Seq(Task)
      OBVIOUS
    <3> QED BY <3>1, <1>2
  <2> QED BY <2>1, <2>2, <1>1, <1>2 DEF SchedType, KernelFields
<1>4. Data(x)
  <2>1. 1 \in 0 .. MaxNest + 1
    BY MaxNestAssumption
  <2>2. x.winfo \in [Task -> Winfo] /\ x.tmevtb \in [Task -> Callback]
    BY <1>1 DEF Winfo, Callback
  <2>3. x.newbpri \in [Task -> [tskid : Task, pri : TPRI] \cup {NULL}]
    BY <1>1
  <2>4. /\ x.ipriority \in [Task -> TPRI] /\ x.bpriority \in [Task -> TPRI]
        /\ x.free_tcb \in Seq(Task)
    BY <1>1, TableAssumption
  <2>5. x.tskatr \in [Task -> {"TA_NULL", "TA_NOEXS"}]
    BY <1>1
  <2>6. x.actque \in [Task -> BOOLEAN] /\ x.wupque \in [Task -> BOOLEAN]
    BY <1>1
  <2>7. /\ x.p_runtsk \in Task \cup {NULL}
        /\ x.reqflg \in BOOLEAN /\ x.disdsp \in BOOLEAN /\ x.ipmflg \in BOOLEAN
        /\ x.lock \in BOOLEAN /\ x.kerflg \in BOOLEAN
    BY <1>2
  <2>8. x.excpt_nest_count \in 0 .. MaxNest + 1 /\ x.boot \in Nat
    BY <1>2, <2>1
  <2>9. KernelFields \subseteq DOMAIN x
    BY <1>1
  <2> QED BY ONLY <1>3, <2>2, <2>3, <2>4, <2>5, <2>6, <2>7, <2>8, <2>9 DEF Data
<1>5. Runnable(x) = {}
  BY <1>1 DEF Runnable, TSTAT_RUNNABLE
<1>6. ReadyQueueOK(x, Runnable(x)) /\ SchedtskOK(x)
  BY <1>2, <1>5 DEF ReadyQueueOK, SchedtskOK
<1>7. WaitsOK(x, Task) /\ NoexsOK(x, Task) /\ FlagOK(x)
  BY <1>1, <1>2 DEF WaitsOK, WaitOK, NoexsOK, FlagOK
<1>8. FreeOK(x)
  <2>1. \A i \in 1 .. Len(atcb) : atcb[i] \in Task /\ atcb[i] \in Range(atcb)
    BY TableAssumption DEF Range
  <2> QED BY <2>1, <1>1, TableAssumption DEF FreeOK
<1>9. Boot(x) /\ Running(x) /\ Dispatched(x)
  <2>1. \A i \in 1 .. Len(torder) : torder[i] \in Task
    BY TableAssumption
  <2> QED BY <2>1, <1>1, <1>2 DEF Boot, Running, Dispatched
<1> QED BY <1>2, <1>4, <1>6, <1>7, <1>8, <1>9 DEF IInv, Static, Context

(* Init of module Kernel is such a state. *)
LEMMA InitIInv ==
  ASSUME Init
  PROVE  IInv(k)
<1>1. InitFields(k)
  BY DEF Init, KInit, InitFields, KernelFields
<1> QED BY <1>1, InitFieldsIInv

(* Every step of the kernel preserves the invariant: one case per action. *)
LEMMA NextIInv ==
  ASSUME IInv(k), NoMutex(k), [Next]_k
  PROVE  IInv(k')
<1>1. CASE k' = k
  BY <1>1
<1>2. CASE Startup
  BY <1>2, InitializeTask, StartDispatch DEF Startup
<1>3. CASE TaskManage
  <2>1. CASE \E p \in TPRI, b \in BOOLEAN : acre_tsk(p, b)
    BY <2>1, Create
  <2>2. ASSUME NEW t \in Task, del_tsk(t) \/ ter_tsk(t)
        PROVE  IInv(k')
    BY <2>2, Delete, Terminate
  <2>3. ASSUME NEW t \in Task, act_tsk(t) \/ iact_tsk(t)
        PROVE  IInv(k')
    BY <2>3, SimpleCalls
  <2>4. ASSUME NEW t \in Task, can_act(t) \/ chg_pri_ini(t)
        PROVE  IInv(k')
    BY <2>4, MinorCalls
  <2>5. ASSUME NEW t \in Task, NEW p \in TPRI, chg_pri(t, p)
        PROVE  IInv(k')
    BY <2>5, ChgPri
  <2>6. CASE chg_pri_ini_lock
    BY <2>6, ChgPriIniLock
  <2>7. CASE ext_tsk
    BY <2>7, Exit
  <2> QED BY <1>3, <2>1, <2>2, <2>3, <2>4, <2>5, <2>6, <2>7 DEF TaskManage
<1>4. CASE TaskSync
  <2>1. CASE (\E b \in BOOLEAN : slp_tsk(b)) \/ dly_tsk
    BY <2>1, Waiting
  <2>2. ASSUME NEW t \in Task,
               wup_tsk(t) \/ iwup_tsk(t) \/ rel_wai(t) \/ irel_wai(t)
        PROVE  IInv(k')
    BY <2>2, SimpleCalls
  <2>3. ASSUME NEW t \in Task, can_wup(t)
        PROVE  IInv(k')
    BY <2>3, MinorCalls
  <2>4. ASSUME NEW t \in Task, sus_tsk(t) \/ rsm_tsk(t)
        PROVE  IInv(k')
    BY <2>4, Suspend, Resume
  <2> QED BY <1>4, <2>1, <2>2, <2>3, <2>4 DEF TaskSync
<1>5. CASE SysManage
  <2>1. CASE \E p \in TPRI : rot_rdq(p) \/ irot_rdq(p)
    BY <2>1, RotateCalls
  <2>2. CASE loc_cpu \/ unl_cpu \/ iloc_cpu \/ iunl_cpu
    BY <2>2, LockCalls
  <2>3. CASE dis_dsp \/ ena_dsp \/ \E b \in BOOLEAN : chg_ipm(b)
    BY <2>3, DispatchCalls
  <2> QED BY <1>5, <2>1, <2>2, <2>3 DEF SysManage
<1>6. CASE Processor
  <2>1. ASSUME NEW t \in Task, signal_time(t)
        PROVE  IInv(k')
    BY <2>1, SignalTime
  <2> QED BY <1>6, <2>1, WaitReturn, IntEntry, IntReturn, IdleLoop DEF Processor
<1> QED BY <1>1, <1>2, <1>3, <1>4, <1>5, <1>6 DEF Next

-----------------------------------------------------------------------------
(* The inductive invariant holds in every state the kernel reaches. *)
THEOREM KernelInvariant == Spec => []IInv(k)
<1>1. Init => IInv(k) /\ NoMutex(k)
  <2>1. Init => NoMutex(k)
    BY DEF Init, KInit, NoMutex
  <2> QED BY <2>1, InitIInv
<1>2. (IInv(k) /\ NoMutex(k)) /\ [Next]_k => (IInv(k) /\ NoMutex(k))'
  BY NextIInv, NextNoMutex
<1> QED BY <1>1, <1>2, PTL DEF Spec

(* Type correctness of the kernel's data, for every configuration. *)
THEOREM KernelTypeOK == Spec => []TypeOK
<1>1. IInv(k) => TypeOK
  BY DEF IInv, Static, Data, TypeOK
<1> QED BY <1>1, KernelInvariant, PTL

(* What the invariant says of the scheduler. *)
LEMMA IInvSched == IInv(k) => SchedInv
BY DEF IInv, Static, SchedInv

(* What the invariant says of a dispatch that is due. *)
LEMMA IInvDispatch == IInv(k) => NoLostDispatch
BY DEF IInv, Context, Dispatched, NoLostDispatch

(* What the invariant says of the running task. *)
LEMMA IInvRunning == IInv(k) => RunningOK
<1> SUFFICES ASSUME IInv(k) PROVE RunningOK
  OBVIOUS
<1>1. /\ k.p_runtsk # NULL => TSTAT_RUNNABLE(k, k.p_runtsk)
      /\ k.p_runtsk = NULL => k.dspflg
  BY DEF IInv, Context, Running, TSTAT_RUNNABLE
<1>2. k.dspflg = (~k.disdsp /\ k.ipmflg)
  BY DEF IInv, Static, Data, SchedType, FlagOK
<1> QED BY <1>1, <1>2 DEF RunningOK

(* What the invariant says of WINFO and the time event blocks. *)
LEMMA IInvWinfo == IInv(k) => WinfoOK
<1> SUFFICES ASSUME IInv(k), NEW t \in Task
             PROVE  /\ TSTAT_WAITING(k, t) => k.winfo[t] \in {"NULL", "p_tmevtb"}
                    /\ k.tmevtb[t] # "none" <=> TSTAT_WAITING(k, t) /\ k.winfo[t] = "p_tmevtb"
                    /\ ~TSTAT_WAITING(k, t) /\ ~TSTAT_DORMANT(k, t)
                         => k.winfo[t] \in {"none"} \cup Wercd
                    /\ k.tmevtb[t] = "wait_tmout_ok" <=> TSTAT_WAIT(k, t, "DLY")
                    /\ k.winfo[t] = "E_TMOUT" => ~TSTAT_WAITING(k, t)
  BY DEF WinfoOK
<1>1. WaitOK(k.tstat[t], k.winfo[t], k.tmevtb[t])
  BY DEF IInv, Static, WaitsOK
<1> QED BY <1>1 DEF WaitOK, TSTAT_WAITING, TSTAT_DORMANT, TSTAT_WAIT, TS_DORMANT

(* The ready queue, its bit map and p_schedtsk agree with the states and   *)
(* priorities of the tasks in every reachable state: what the functions of *)
(* kernel/task.c maintain incrementally.                                   *)
THEOREM KernelSchedInv == Spec => []SchedInv
BY IInvSched, KernelInvariant, PTL

(* No dispatch is lost: whenever a task or the idle loop runs although     *)
(* p_schedtsk is another one, dispatching is disabled or reqflg is set.    *)
THEOREM KernelNoLostDispatch == Spec => []NoLostDispatch
BY IInvDispatch, KernelInvariant, PTL

(* The running task is runnable in every context, and dspflg is the        *)
(* conjunction of its two sources.                                         *)
THEOREM KernelRunningOK == Spec => []RunningOK
BY IInvRunning, KernelInvariant, PTL

(* WINFO is read as what was last written to it, and a task's time event   *)
(* block is in the heap exactly while its wait has a timeout.              *)
THEOREM KernelWinfoOK == Spec => []WinfoOK
BY IInvWinfo, KernelInvariant, PTL

-----------------------------------------------------------------------------
(***************************************************************************)
(* Queues as the sets of their entries.                                    *)
(***************************************************************************)

In(q, e) == \E i \in 1 .. Len(q) : q[i] = e
Distinct(q) == \A i, j \in 1 .. Len(q) : q[i] = q[j] => i = j
Ordered(q, pri) == \A i, j \in 1 .. Len(q) : i < j => pri[q[i]] <= pri[q[j]]

(* A queue with one more entry. *)
LEMMA Inserted ==
  ASSUME NEW S, NEW q \in Seq(S), Distinct(q), NEW e \in S, ~In(q, e),
         NEW a \in Seq(S), NEW p, InsertedAt(q, e, p, a)
  PROVE  Distinct(a) /\ \A x \in S : In(a, x) <=> In(q, x) \/ x = e
<1>1. PICK n \in Nat : n = Len(q)
  OBVIOUS
<1>2. /\ Len(a) = n + 1 /\ p \in 1 .. n + 1
      /\ \A i \in 1 .. n + 1 : a[i] = IF i < p THEN q[i] ELSE IF i = p THEN e ELSE q[i - 1]
  BY <1>1 DEF InsertedAt
<1>3. /\ \A i \in 1 .. n : q[i] # e
      /\ \A i, j \in 1 .. n : q[i] = q[j] => i = j
  BY <1>1 DEF In, Distinct
<1>4. Distinct(a)
  <2> SUFFICES ASSUME NEW i \in 1 .. n + 1, NEW j \in 1 .. n + 1, a[i] = a[j]
               PROVE  i = j
    BY <1>2 DEF Distinct
  <2>1. CASE i = p \/ j = p
    BY <2>1, <1>2, <1>3
  <2>2. CASE i # p /\ j # p
    <3>1. PICK i1 \in 1 .. n : i1 = IF i < p THEN i ELSE i - 1
      BY <2>2, <1>2
    <3>2. PICK j1 \in 1 .. n : j1 = IF j < p THEN j ELSE j - 1
      BY <2>2, <1>2
    <3>3. a[i] = q[i1] /\ a[j] = q[j1]
      BY <2>2, <3>1, <3>2, <1>2
    <3>4. i1 = j1
      BY <3>3, <1>3
    <3> QED BY <1>2, <2>2, <3>1, <3>2, <3>4
  <2> QED BY <2>1, <2>2
<1>5. ASSUME NEW x \in S, In(a, x) PROVE In(q, x) \/ x = e
  <2>1. PICK i \in 1 .. n + 1 : a[i] = x
    BY <1>2, <1>5 DEF In
  <2>2. CASE i = p
    BY <2>1, <2>2, <1>2
  <2>3. CASE i # p
    <3>1. PICK i1 \in 1 .. n : i1 = IF i < p THEN i ELSE i - 1
      BY <2>3, <1>2
    <3>2. q[i1] = x
      BY <2>1, <2>3, <3>1, <1>2
    <3> QED BY <3>2, <1>1 DEF In
  <2> QED BY <2>2, <2>3
<1>6. ASSUME NEW x \in S, In(q, x) PROVE In(a, x)
  <2>1. PICK i \in 1 .. n : q[i] = x
    BY <1>1, <1>6 DEF In
  <2>2. PICK i1 \in 1 .. n + 1 : i1 = IF i < p THEN i ELSE i + 1
    BY <1>2
  <2>3. a[i1] = x
    BY <2>1, <2>2, <1>2
  <2> QED BY <2>3, <1>2 DEF In
<1>7. In(a, e)
  BY <1>2 DEF In
<1> QED BY <1>4, <1>5, <1>6, <1>7

(* queue_delete takes e out and keeps the order of the others. *)
LEMMA Deleted ==
  ASSUME NEW S, NEW q \in Seq(S), Distinct(q), NEW e \in S, In(q, e),
         NEW a, a = queue_delete(q, e)
  PROVE  /\ a \in Seq(S) /\ Distinct(a) /\ \A x \in S : In(a, x) <=> In(q, x) /\ x # e
         /\ \A i, j \in 1 .. Len(a) : i < j =>
              \E i1, j1 \in 1 .. Len(q) : i1 < j1 /\ a[i] = q[i1] /\ a[j] = q[j1]
<1>1. PICK n \in Nat : n = Len(q)
  OBVIOUS
<1>2. PICK p \in 1 .. n : q[p] = e
  BY <1>1 DEF In
<1>3. \A i, j \in 1 .. n : q[i] = q[j] => i = j
  BY <1>1 DEF Distinct
<1>4. /\ a \in Seq(S) /\ Len(a) = n - 1
      /\ \A i \in 1 .. n - 1 : a[i] = IF i < p THEN q[i] ELSE q[i + 1]
  BY <1>1, <1>2, <1>3, QueueDelete
<1>5. Distinct(a)
  <2> SUFFICES ASSUME NEW i \in 1 .. n - 1, NEW j \in 1 .. n - 1, a[i] = a[j]
               PROVE  i = j
    BY <1>4 DEF Distinct
  <2>1. PICK i1 \in 1 .. n : i1 = IF i < p THEN i ELSE i + 1
    OBVIOUS
  <2>2. PICK j1 \in 1 .. n : j1 = IF j < p THEN j ELSE j + 1
    OBVIOUS
  <2>3. a[i] = q[i1] /\ a[j] = q[j1]
    BY <2>1, <2>2, <1>4
  <2>4. i1 = j1
    BY <2>3, <1>3
  <2> QED BY <2>1, <2>2, <2>4
<1>6. ASSUME NEW x \in S, In(a, x) PROVE In(q, x) /\ x # e
  <2>1. PICK i \in 1 .. n - 1 : a[i] = x
    BY <1>4, <1>6 DEF In
  <2>2. PICK i1 \in 1 .. n : i1 = IF i < p THEN i ELSE i + 1
    OBVIOUS
  <2>3. q[i1] = x /\ i1 # p
    BY <2>1, <2>2, <1>4
  <2>4. x # e
    BY <2>3, <1>2, <1>3
  <2> QED BY <2>3, <2>4, <1>1 DEF In
<1>7. ASSUME NEW x \in S, In(q, x), x # e PROVE In(a, x)
  <2>1. PICK i \in 1 .. n : q[i] = x
    BY <1>1, <1>7 DEF In
  <2>2. i # p
    BY <2>1, <1>2, <1>7
  <2>3. PICK i1 \in 1 .. n - 1 : i1 = IF i < p THEN i ELSE i - 1
    BY <2>2
  <2>4. a[i1] = x
    BY <2>1, <2>2, <2>3, <1>4
  <2> QED BY <2>4, <1>4 DEF In
<1>8. ASSUME NEW i \in 1 .. n - 1, NEW j \in 1 .. n - 1, i < j
      PROVE  \E i1, j1 \in 1 .. n : i1 < j1 /\ a[i] = q[i1] /\ a[j] = q[j1]
  <2>1. PICK i1 \in 1 .. n : i1 = IF i < p THEN i ELSE i + 1
    OBVIOUS
  <2>2. PICK j1 \in 1 .. n : j1 = IF j < p THEN j ELSE j + 1
    OBVIOUS
  <2>3. a[i] = q[i1] /\ a[j] = q[j1] /\ i1 < j1
    BY <2>1, <2>2, <1>4, <1>8
  <2> QED BY <2>3
<1> QED BY <1>1, <1>4, <1>5, <1>6, <1>7, <1>8

(* queue_delete keeps the priority order, whatever the priority of e. *)
LEMMA DeletedOrdered ==
  ASSUME NEW S, NEW q \in Seq(S), Distinct(q), NEW e \in S, In(q, e),
         NEW a, a = queue_delete(q, e), NEW pri, NEW new, Ordered(q, pri),
         \A x \in S : x # e => new[x] = pri[x]
  PROVE  Ordered(a, new)
<1>1. /\ a \in Seq(S) /\ \A x \in S : In(a, x) <=> In(q, x) /\ x # e
      /\ \A i, j \in 1 .. Len(a) : i < j =>
           \E i1, j1 \in 1 .. Len(q) : i1 < j1 /\ a[i] = q[i1] /\ a[j] = q[j1]
  BY Deleted
<1> SUFFICES ASSUME NEW i \in 1 .. Len(a), NEW j \in 1 .. Len(a), i < j
             PROVE  new[a[i]] <= new[a[j]]
  BY DEF Ordered
<1>2. a[i] \in S /\ a[j] \in S /\ In(a, a[i]) /\ In(a, a[j])
  BY <1>1 DEF In
<1>3. a[i] # e /\ a[j] # e
  BY <1>1, <1>2
<1>4. PICK i1 \in 1 .. Len(q), j1 \in 1 .. Len(q) : i1 < j1 /\ a[i] = q[i1] /\ a[j] = q[j1]
  BY <1>1
<1>5. pri[a[i]] <= pri[a[j]]
  BY <1>4 DEF Ordered
<1> QED BY <1>2, <1>3, <1>5

(* The queue that queue_insert_tpri builds. *)
LEMMA SplitInsert ==
  ASSUME NEW S, NEW q \in Seq(S), NEW e \in S, NEW p \in 1 .. Len(q) + 1,
         NEW a, a = SubSeq(q, 1, p - 1) \o <<e>> \o SubSeq(q, p, Len(q))
  PROVE  a \in Seq(S) /\ InsertedAt(q, e, p, a)
<1>1. PICK n \in Nat : n = Len(q)
  OBVIOUS
<1>2. PICK b : b = SubSeq(q, 1, p - 1)
  OBVIOUS
<1>3. PICK c : c = SubSeq(q, p, n)
  OBVIOUS
<1>4. b \in Seq(S) /\ Len(b) = p - 1 /\ \A i \in 1 .. p - 1 : b[i] = q[i]
  <2>1. 1 .. p - 1 \subseteq 1 .. n /\ p - 1 \in Nat
    BY <1>1
  <2> QED BY <1>1, <1>2, <2>1, SubSeqProperties
<1>5. c \in Seq(S) /\ Len(c) = n + 1 - p /\ \A i \in 1 .. n + 1 - p : c[i] = q[p + i - 1]
  BY <1>1, <1>3, SubSeqProperties
<1>6. PICK u : u = <<e>>
  OBVIOUS
<1>7. u \in Seq(S) /\ Len(u) = 1 /\ u[1] = e
  BY <1>6
<1>8. PICK d : d = b \o u
  OBVIOUS
<1>9. d \in Seq(S) /\ Len(d) = p /\ d[p] = e /\ \A i \in 1 .. p - 1 : d[i] = q[i]
  <2>1. /\ d \in Seq(S) /\ Len(d) = Len(b) + Len(u)
        /\ \A i \in 1 .. Len(b) + Len(u) : d[i] = IF i <= Len(b) THEN b[i] ELSE u[i - Len(b)]
    BY <1>4, <1>7, <1>8, ConcatProperties
  <2>2. p \in 1 .. Len(b) + Len(u) /\ ~(p <= Len(b)) /\ p - Len(b) = 1 /\ Len(b) + Len(u) = p
    BY <1>4, <1>7
  <2>3. d[p] = u[1]
    BY <2>1, <2>2
  <2>4. ASSUME NEW i \in 1 .. p - 1 PROVE d[i] = q[i]
    <3>1. i \in 1 .. Len(b) + Len(u) /\ i <= Len(b)
      BY <1>4, <1>7
    <3> QED BY <3>1, <2>1, <1>4
  <2> QED BY <1>7, <2>1, <2>2, <2>3, <2>4
<1>10. a = d \o c
  BY <1>1, <1>2, <1>3, <1>6, <1>8
<1>11. /\ a \in Seq(S) /\ Len(a) = n + 1 /\ \A i \in 1 .. p : a[i] = d[i]
       /\ \A i \in 1 .. n + 1 : i > p => a[i] = c[i - p]
  <2>1. /\ a \in Seq(S) /\ Len(a) = Len(d) + Len(c)
        /\ \A i \in 1 .. Len(d) + Len(c) : a[i] = IF i <= Len(d) THEN d[i] ELSE c[i - Len(d)]
    BY ONLY <1>5, <1>9, <1>10, ConcatProperties
  <2>2. Len(d) + Len(c) = n + 1 /\ Len(d) = p
    BY <1>1, <1>5, <1>9
  <2>3. p \in 1 .. n + 1 /\ n \in Nat
    BY <1>1
  <2> QED BY ONLY <2>1, <2>2, <2>3
<1>0. p \in 1 .. n + 1 /\ n \in Nat
  BY <1>1
<1>12. ASSUME NEW i \in 1 .. n + 1
       PROVE  a[i] = IF i < p THEN q[i] ELSE IF i = p THEN e ELSE q[i - 1]
  <2>1. CASE i < p
    BY ONLY <1>0, i \in 1 .. n + 1, <2>1, <1>9, <1>11
  <2>2. CASE i = p
    BY ONLY <1>0, <2>2, <1>9, <1>11
  <2>3. CASE i > p
    <3>1. PICK i1 \in 1 .. n + 1 - p : i1 = i - p
      BY <2>3, <1>1
    <3>2. a[i] = c[i1]
      BY ONLY <3>1, <2>3, <1>11, i \in 1 .. n + 1
    <3>3. c[i1] = q[p + i1 - 1] /\ p + i1 - 1 = i - 1
      BY ONLY <3>1, <1>0, <1>5, i \in 1 .. n + 1
    <3> QED BY ONLY <3>2, <3>3, <2>3, <1>0, i \in 1 .. n + 1
  <2>4. i \in Int /\ p \in Int
    BY ONLY <1>0, i \in 1 .. n + 1
  <2>5. i < p \/ i = p \/ i > p
    BY ONLY <2>4
  <2> QED BY ONLY <2>1, <2>2, <2>3, <2>5
<1> QED BY <1>1, <1>11, <1>12 DEF InsertedAt

(* queue_insert_tpri inserts t in the order of the priorities. *)
LEMMA InsertedTpri ==
  ASSUME NEW x, x.priority \in [Task -> TPRI], NEW q \in Seq(Task), Distinct(q),
         NEW t \in Task, ~In(q, t), NEW a, a = queue_insert_tpri(x, q, t)
  PROVE  /\ a \in Seq(Task) /\ Distinct(a) /\ \A u \in Task : In(a, u) <=> In(q, u) \/ u = t
         /\ Ordered(q, x.priority) => Ordered(a, x.priority)
<1> DEFINE later == {i \in 1 .. Len(q) : x.priority[t] < x.priority[q[i]]}
           p == IF later = {} THEN Len(q) + 1
                ELSE CHOOSE j \in later : \A m \in later : j <= m
<1>7. a = SubSeq(q, 1, p - 1) \o <<t>> \o SubSeq(q, p, Len(q))
  BY DEF queue_insert_tpri
<1>1. PICK n \in Nat : n = Len(q)
  OBVIOUS
<1>2. PICK f \in [Task -> Nat] : f = x.priority
  BY TnumTpriAssumption DEF TPRI
<1>3. later = {i \in 1 .. n : f[t] < f[q[i]]}
  BY <1>1, <1>2
<1>5. /\ later = {} => p = n + 1
      /\ (\E j \in later : \A m \in later : j <= m) => p \in later /\ \A m \in later : p <= m
  BY <1>1
<1> HIDE DEF p, later
<1>4. \A i \in 1 .. n : q[i] \in Task
  BY <1>1
<1>6. /\ p \in 1 .. n + 1 /\ \A i \in 1 .. n : i < p => ~(f[t] < f[q[i]])
      /\ p <= n => f[t] < f[q[p]]
  <2>1. CASE later = {}
    BY <2>1, <1>3, <1>5
  <2>2. CASE later # {}
    <3>1. later \in SUBSET Nat
      BY <1>3
    <3>2. \E j \in later : \A m \in later : j <= m
      BY <2>2, <3>1, LeastPriority
    <3>3. p \in later /\ \A m \in later : p <= m
      BY <2>2, <3>2, <1>5
    <3>4. p \in 1 .. n /\ f[t] < f[q[p]]
      BY <3>3, <1>3
    <3>5. ASSUME NEW i \in 1 .. n, i < p, f[t] < f[q[i]] PROVE FALSE
      <4>1. i \in later
        BY <3>5, <1>3
      <4> QED BY <3>3, <3>4, <3>5, <4>1
    <3> QED BY <3>4, <3>5
  <2> QED BY <2>1, <2>2
<1>8. a \in Seq(Task) /\ InsertedAt(q, t, p, a)
  BY <1>1, <1>6, <1>7, SplitInsert
<1>9. Distinct(a) /\ \A u \in Task : In(a, u) <=> In(q, u) \/ u = t
  BY <1>8, Inserted
<1>10. ASSUME Ordered(q, f) PROVE Ordered(a, f)
  <2>1. \A i, j \in 1 .. n : i < j => f[q[i]] <= f[q[j]]
    BY <1>1, <1>10 DEF Ordered
  <2>2. /\ Len(a) = n + 1
        /\ \A i \in 1 .. n + 1 : a[i] = IF i < p THEN q[i] ELSE IF i = p THEN t ELSE q[i - 1]
    BY <1>1, <1>8 DEF InsertedAt
  <2>3. ASSUME NEW i \in 1 .. n, i < p PROVE f[q[i]] <= f[t]
    BY <2>3, <1>2, <1>4, <1>6
  <2>4. ASSUME NEW i \in 1 .. n, p <= i PROVE f[t] <= f[q[i]]
    <3>1. p \in 1 .. n /\ f[t] < f[q[p]]
      BY <2>4, <1>6
    <3>2. f[q[p]] <= f[q[i]]
      BY <2>1, <2>4, <3>1, <1>2, <1>4
    <3> QED BY <3>1, <3>2, <1>2, <1>4
  <2> SUFFICES ASSUME NEW i \in 1 .. n + 1, NEW j \in 1 .. n + 1, i < j
               PROVE  f[a[i]] <= f[a[j]]
    BY <2>2 DEF Ordered
  <2>5. CASE j < p
    BY <2>1, <2>2, <2>5, <1>6, SMTT(60)
  <2>6. CASE j = p
    BY <2>2, <2>3, <2>6, <1>6
  <2>7. CASE p < j
    <3>1. j - 1 \in 1 .. n /\ p <= j - 1 /\ a[j] = q[j - 1]
      BY <2>2, <2>7, <1>6
    <3>2. PICK j1 \in 1 .. n : j1 = j - 1 /\ p <= j1 /\ a[j] = q[j1]
      BY <3>1
    <3>3. CASE i < p
      <4>1. i \in 1 .. n /\ a[i] = q[i]
        BY <2>2, <3>3, <1>6
      <4>2. f[q[i]] <= f[t] /\ f[t] <= f[q[j1]]
        BY <2>3, <2>4, <3>2, <3>3, <4>1
      <4> QED BY <3>2, <4>1, <4>2, <1>2, <1>4, SMTT(60)
    <3>4. CASE i = p
      BY <2>2, <2>4, <3>2, <3>4
    <3>5. CASE p < i
      <4>0. i - 1 \in 1 .. n /\ a[i] = q[i - 1] /\ i - 1 < j1
        <5>1. i - 1 \in 1 .. n
          BY <3>5, <1>6
        <5>2. a[i] = q[i - 1]
          BY <2>2, <3>5, <1>6
        <5>3. i - 1 < j1
          BY <3>2
        <5> QED BY <5>1, <5>2, <5>3
      <4>1. PICK i1 \in 1 .. n : i1 = i - 1 /\ a[i] = q[i1] /\ i1 < j1
        BY <4>0
      <4> QED BY <2>1, <3>2, <4>1
    <3> QED BY <1>6, <3>3, <3>4, <3>5
  <2> QED BY <1>6, <2>5, <2>6, <2>7
<1> QED BY <1>2, <1>8, <1>9, <1>10

(* The rest of a queue after its head is taken. *)
LEMMA HeadTaken ==
  ASSUME NEW S, NEW q \in Seq(S), Distinct(q), q # <<>>
  PROVE  /\ Head(q) \in S /\ In(q, Head(q)) /\ Tail(q) \in Seq(S) /\ Distinct(Tail(q))
         /\ Len(Tail(q)) = Len(q) - 1
         /\ \A x \in S : In(Tail(q), x) <=> In(q, x) /\ x # Head(q)
         /\ \A pri : Ordered(q, pri) => Ordered(Tail(q), pri)
<1>1. PICK n \in Nat : n = Len(q) /\ n > 0
  BY EmptySeq
<1>2. PICK h \in S : h = Head(q) /\ h = q[1]
  BY <1>1, HeadTailProperties
<1>3. PICK r \in Seq(S) : r = Tail(q)
  BY HeadTailProperties
<1>4. Len(r) = n - 1 /\ \A i \in 1 .. n - 1 : r[i] = q[i + 1]
  BY <1>1, <1>3, HeadTailProperties
<1>5. \A i, j \in 1 .. n : q[i] = q[j] => i = j
  BY <1>1 DEF Distinct
<1>6. Distinct(r)
  BY <1>4, <1>5 DEF Distinct
<1>7. ASSUME NEW x \in S, In(r, x) PROVE In(q, x) /\ x # h
  <2>1. PICK i \in 1 .. n - 1 : r[i] = x
    BY <1>4, <1>7 DEF In
  <2>2. PICK i1 \in 1 .. n : i1 = i + 1 /\ q[i1] = x
    BY <2>1, <1>4
  <2>3. x # h
    BY <2>2, <1>1, <1>2, <1>5
  <2> QED BY <2>2, <2>3, <1>1 DEF In
<1>8. ASSUME NEW x \in S, In(q, x), x # h PROVE In(r, x)
  <2>1. PICK i \in 1 .. n : q[i] = x
    BY <1>1, <1>8 DEF In
  <2>2. i # 1
    BY <2>1, <1>2, <1>8
  <2>3. PICK i1 \in 1 .. n - 1 : i = i1 + 1
    BY <2>2
  <2>4. r[i1] = x
    BY <2>1, <2>3, <1>4
  <2> QED BY <2>4, <1>4 DEF In
<1>9. ASSUME NEW pri, Ordered(q, pri) PROVE Ordered(r, pri)
  <2>1. \A i, j \in 1 .. n : i < j => pri[q[i]] <= pri[q[j]]
    BY <1>1, <1>9 DEF Ordered
  <2> SUFFICES ASSUME NEW i \in 1 .. n - 1, NEW j \in 1 .. n - 1, i < j
               PROVE  pri[r[i]] <= pri[r[j]]
    BY <1>4 DEF Ordered
  <2>2. PICK i1 \in 1 .. n : i1 = i + 1 /\ r[i] = q[i1]
    BY <1>4
  <2>3. PICK j1 \in 1 .. n : j1 = j + 1 /\ r[j] = q[j1]
    BY <1>4
  <2> QED BY <2>1, <2>2, <2>3
<1>10. In(q, h)
  BY <1>1, <1>2 DEF In
<1> QED BY <1>1, <1>2, <1>3, <1>4, <1>6, <1>7, <1>8, <1>9, <1>10

(* Range and In are the same for a queue. *)
LEMMA RangeIn ==
  ASSUME NEW S, NEW q \in Seq(S), NEW e
  PROVE  e \in Range(q) <=> In(q, e)
<1>1. DOMAIN q = 1 .. Len(q)
  OBVIOUS
<1> QED BY <1>1 DEF Range, In

Shorter(a, q) == Len(a) = Len(q) - 1
WithoutHead(j, m) == [j EXCEPT !.wait_queue[m] = Tail(@)]

-----------------------------------------------------------------------------
(***************************************************************************)
(* The functions on the wait queues of objects.  StaticOf is Static for    *)
(* the tasks S: those on mutexes are also called for a task that has left  *)
(* the ready queue and is not yet dormant (end_task).                      *)
(***************************************************************************)
StaticOf(x, S) ==
  /\ Data(x) /\ ReadyQueueOK(x, Runnable(x) \cap S) /\ SchedtskOK(x)
  /\ WaitsOK(x, S) /\ FreeOK(x) /\ NoexsOK(x, S) /\ FlagOK(x)

CallOf(j, r, S) ==
  /\ StaticOf(r, S) /\ SameContext(j, r) /\ Reports(j, r) /\ Keeps(j, r)
  /\ r.tskatr = j.tskatr /\ \A v \in Task \ S : r.tmevtb[v] = j.tmevtb[v]

(* Static and StaticBut are the two cases. *)
LEMMA StaticCases ==
  ASSUME NEW x, NEW t
  PROVE  /\ StaticOf(x, Task) <=> Static(x)
         /\ StaticBut(x, t) <=> StaticOf(x, Task \ {t}) /\ x.tmevtb[t] = "none"
<1>1. Runnable(x) \cap Task = Runnable(x)
  BY DEF Runnable
<1>2. Runnable(x) \cap (Task \ {t}) = Runnable(x) \ {t}
  BY DEF Runnable
<1> QED BY <1>1, <1>2 DEF StaticOf, Static, StaticBut

(* Two functions in a row. *)
LEMMA CallTrans ==
  ASSUME NEW S, NEW j, NEW y, NEW r, CallOf(j, y, S), CallOf(y, r, S)
  PROVE  CallOf(j, r, S)
<1>1. SameContext(j, r)
  BY DEF CallOf, SameContext
<1>2. Reports(j, r)
  BY DEF CallOf, SameContext, Reports
<1>3. Keeps(j, r)
  BY DEF CallOf, Keeps
<1> QED BY <1>1, <1>2, <1>3 DEF CallOf

QueueFields == {"wait_queue", "mutex_queue", "p_wobjcb", "wobjatr"}

(* r has the tables of j, except for the fields F and for the queues. *)
Kept(j, r, F) ==
  KernelFields \subseteq DOMAIN r /\ \A f \in KernelFields \ (F \cup QueueFields) : r[f] = j[f]

(* The queues, and the fields of the objects, are not part of the tables. *)
LEMMA KeptTables ==
  ASSUME NEW j, NEW S, StaticOf(j, S), NEW r, Kept(j, r, {})
  PROVE  CallOf(j, r, S) /\ r.tstat = j.tstat
<1>1. /\ KernelFields \subseteq DOMAIN r
      /\ \A f \in KernelFields \ QueueFields : r[f] = j[f]
  BY DEF Kept
<1>2. /\ r.tstat = j.tstat /\ r.tskatr = j.tskatr /\ r.ipriority = j.ipriority
      /\ r.bpriority = j.bpriority /\ r.priority = j.priority /\ r.actque = j.actque
      /\ r.wupque = j.wupque /\ r.winfo = j.winfo /\ r.tmevtb = j.tmevtb
      /\ r.newbpri = j.newbpri /\ r.free_tcb = j.free_tcb /\ r.ready_queue = j.ready_queue
      /\ r.ready_primap = j.ready_primap /\ r.p_schedtsk = j.p_schedtsk
  BY <1>1 DEF KernelFields, QueueFields
<1>3. /\ r.p_runtsk = j.p_runtsk /\ r.reqflg = j.reqflg /\ r.disdsp = j.disdsp
      /\ r.ipmflg = j.ipmflg /\ r.dspflg = j.dspflg /\ r.lock = j.lock
      /\ r.excpt_nest_count = j.excpt_nest_count /\ r.boot = j.boot /\ r.kerflg = j.kerflg
      /\ r.dspreq = j.dspreq
  BY <1>1 DEF KernelFields, QueueFields
<1>4. SchedType(r)
  BY <1>1, <1>2, <1>3 DEF SchedType, StaticOf, Data, KernelFields
<1>5. Data(r)
  BY <1>1, <1>2, <1>3, <1>4 DEF Data, StaticOf
<1>6. Runnable(r) = Runnable(j)
  BY <1>2 DEF Runnable, TSTAT_RUNNABLE
<1>7. ReadyQueueOK(r, Runnable(r) \cap S)
  BY <1>2, <1>6, SameReadyQueue DEF StaticOf
<1>8. SchedtskOK(r)
  BY <1>2 DEF StaticOf, SchedtskOK
<1>9. WaitsOK(r, S) /\ FreeOK(r) /\ NoexsOK(r, S) /\ FlagOK(r)
  BY <1>2, <1>3 DEF StaticOf, WaitsOK, FreeOK, NoexsOK, FlagOK
<1>10. SameContext(j, r) /\ Reports(j, r) /\ Keeps(j, r)
  BY <1>2, <1>3 DEF SameContext, Reports, Keeps
<1> QED BY <1>2, <1>5, <1>7, <1>8, <1>9, <1>10 DEF StaticOf, CallOf

PassFields == {"winfo", "tmevtb", "priority"}

(* y is ready for make_non_wait(y, t). *)
Passing(j, y, t) ==
  /\ Kept(j, y, PassFields)
  /\ y.winfo \in [Task -> Winfo] /\ y.tmevtb \in [Task -> Callback]
  /\ y.priority \in [Task -> TPRI]
  /\ \A v \in Task \ {t} : /\ y.winfo[v] = j.winfo[v] /\ y.tmevtb[v] = j.tmevtb[v]
                           /\ y.priority[v] = j.priority[v]
  /\ y.winfo[t] \in Wercd /\ y.tmevtb[t] = "none"

(* make_non_wait for a task whose priority may have changed as well. *)
LEMMA PassCall ==
  ASSUME NEW j, NEW S \in SUBSET Task, StaticOf(j, S), NEW t \in S, "WAITING" \in j.tstat[t],
         NEW y, Passing(j, y, t), NEW r, r = make_non_wait(y, t)
  PROVE  CallOf(j, r, S)
<1>1. /\ KernelFields \subseteq DOMAIN y /\ KernelFields \subseteq DOMAIN j
      /\ \A f \in KernelFields \ (PassFields \cup QueueFields) : y[f] = j[f]
  BY DEF Passing, Kept, StaticOf, Data
<1>2. /\ y.tstat = j.tstat /\ y.tskatr = j.tskatr /\ y.ipriority = j.ipriority
      /\ y.bpriority = j.bpriority /\ y.actque = j.actque /\ y.wupque = j.wupque
      /\ y.newbpri = j.newbpri /\ y.free_tcb = j.free_tcb /\ y.ready_queue = j.ready_queue
      /\ y.ready_primap = j.ready_primap /\ y.p_schedtsk = j.p_schedtsk
  BY <1>1 DEF KernelFields, PassFields, QueueFields
<1>3. /\ y.p_runtsk = j.p_runtsk /\ y.reqflg = j.reqflg /\ y.disdsp = j.disdsp
      /\ y.ipmflg = j.ipmflg /\ y.dspflg = j.dspflg /\ y.lock = j.lock
      /\ y.excpt_nest_count = j.excpt_nest_count /\ y.boot = j.boot /\ y.kerflg = j.kerflg
      /\ y.dspreq = j.dspreq
  BY <1>1 DEF KernelFields, PassFields, QueueFields
<1>4. SchedType(j) /\ j.tstat \in [Task -> SUBSET TstatFlag]
  BY DEF StaticOf, Data, SchedType
<1>5. PICK ts \in {{"SUSPENDED"}, {"RUNNABLE"}} :
        \/ r = [y EXCEPT !.tstat[t] = ts] /\ ts = {"SUSPENDED"}
        \/ r = make_runnable([y EXCEPT !.tstat[t] = ts], t) /\ ts = {"RUNNABLE"}
  BY DEF make_non_wait, TS_SUSPENDED, TS_RUNNABLE
<1>6. PICK z : z = [y EXCEPT !.tstat[t] = ts]
  OBVIOUS
<1>7. \/ r = z /\ ts = {"SUSPENDED"}
      \/ r = make_runnable(z, t) /\ ts = {"RUNNABLE"}
  BY <1>5, <1>6
<1>8. /\ Frame(y, z, {"tstat"}) /\ z.tstat = [j.tstat EXCEPT ![t] = ts]
      /\ KernelFields \subseteq DOMAIN z /\ \A f \in KernelFields \ {"tstat"} : z[f] = y[f]
  BY <1>1, <1>2, <1>6 DEF Frame, KernelFields
<1> HIDE <1>5, <1>6
<1>9. /\ z.tskatr = j.tskatr /\ z.ipriority = j.ipriority
      /\ z.bpriority = j.bpriority /\ z.actque = j.actque /\ z.wupque = j.wupque
      /\ z.newbpri = j.newbpri /\ z.free_tcb = j.free_tcb /\ z.ready_queue = j.ready_queue
      /\ z.ready_primap = j.ready_primap /\ z.p_schedtsk = j.p_schedtsk
      /\ z.winfo = y.winfo /\ z.tmevtb = y.tmevtb /\ z.priority = y.priority
  BY <1>2, <1>8 DEF KernelFields
<1>10. /\ z.p_runtsk = j.p_runtsk /\ z.reqflg = j.reqflg /\ z.disdsp = j.disdsp
       /\ z.ipmflg = j.ipmflg /\ z.dspflg = j.dspflg /\ z.lock = j.lock
       /\ z.excpt_nest_count = j.excpt_nest_count /\ z.boot = j.boot /\ z.kerflg = j.kerflg
       /\ z.dspreq = j.dspreq
  BY <1>3, <1>8 DEF KernelFields
<1>11. /\ z.tstat \in [Task -> SUBSET TstatFlag] /\ z.tstat[t] = ts
       /\ \A v \in Task \ {t} : z.tstat[v] = j.tstat[v]
  <2>1. ts \subseteq TstatFlag
    BY DEF TstatFlag
  <2> QED BY <2>1, <1>4, <1>8
<1>12. "RUNNABLE" \notin j.tstat[t] /\ j.tskatr[t] # "TA_NOEXS"
  BY DEF StaticOf, WaitsOK, WaitOK, NoexsOK
<1>13. PICK R \in SUBSET Task : R = Runnable(j) \cap S
  OBVIOUS
<1>14. t \notin R /\ t \in Task
  BY <1>12, <1>13 DEF Runnable, TSTAT_RUNNABLE
<1>15. \A v \in R : z.priority[v] = j.priority[v]
  BY <1>9, <1>14 DEF Passing
<1>16. ReadyQueueOK(z, R) /\ SchedtskOK(z)
  <2>1. ReadyQueueOK(j, R) /\ SchedtskOK(j)
    BY <1>13 DEF StaticOf
  <2> QED BY <2>1, <1>4, <1>9, <1>15, SchedFrame
<1>17. SchedType(z)
  BY <1>4, <1>8, <1>9, <1>10, <1>11 DEF SchedType, Passing, KernelFields
<1>18. /\ SchedType(r) /\ SchedtskOK(r) /\ Reports(z, r) /\ Frame(z, r, ReadyFields)
       /\ ReadyQueueOK(r, IF ts = {"RUNNABLE"} THEN R \cup {t} ELSE R)
  <2>1. CASE r = z /\ ts = {"SUSPENDED"}
    <3>1. Reports(z, z) /\ Frame(z, z, ReadyFields)
      BY DEF Reports, Frame
    <3>2. {"SUSPENDED"} # {"RUNNABLE"}
      OBVIOUS
    <3> QED BY <2>1, <3>1, <3>2, <1>16, <1>17
  <2>2. CASE r = make_runnable(z, t) /\ ts = {"RUNNABLE"}
    BY <2>2, <1>14, <1>16, <1>17, MakeRunnable
  <2> QED BY <2>1, <2>2, <1>7
<1>19. KernelFields \subseteq DOMAIN r /\ \A f \in KernelFields \ ReadyFields : r[f] = z[f]
  BY <1>8, <1>18 DEF Frame
<1>20. /\ r.tstat = z.tstat /\ r.tskatr = j.tskatr /\ r.ipriority = j.ipriority
       /\ r.bpriority = j.bpriority /\ r.actque = j.actque /\ r.wupque = j.wupque
       /\ r.newbpri = j.newbpri /\ r.free_tcb = j.free_tcb
       /\ r.winfo = y.winfo /\ r.tmevtb = y.tmevtb /\ r.priority = y.priority
  BY <1>9, <1>19 DEF KernelFields, ReadyFields
<1>21. /\ r.p_runtsk = j.p_runtsk /\ r.reqflg = j.reqflg /\ r.disdsp = j.disdsp
       /\ r.ipmflg = j.ipmflg /\ r.dspflg = j.dspflg /\ r.lock = j.lock
       /\ r.excpt_nest_count = j.excpt_nest_count /\ r.boot = j.boot /\ r.kerflg = j.kerflg
  BY <1>10, <1>19 DEF KernelFields, ReadyFields
<1>22. Data(r)
  BY <1>18, <1>19, <1>20, <1>21 DEF Data, StaticOf, Passing
<1>23. Runnable(r) \cap S = IF ts = {"RUNNABLE"} THEN R \cup {t} ELSE R
  BY <1>11, <1>13, <1>14, <1>20 DEF Runnable, TSTAT_RUNNABLE
<1>24. WaitsOK(r, S)
  <2>1. ASSUME NEW v \in S PROVE WaitOK(r.tstat[v], r.winfo[v], r.tmevtb[v])
    <3>1. CASE v = t
      <4>1. r.tstat[t] = ts /\ r.winfo[t] \in Wercd /\ r.tmevtb[t] = "none"
        BY <1>11, <1>20 DEF Passing
      <4> QED BY <3>1, <4>1 DEF WaitOK, Wercd
    <3>2. CASE v # t
      <4>1. r.tstat[v] = j.tstat[v] /\ r.winfo[v] = j.winfo[v] /\ r.tmevtb[v] = j.tmevtb[v]
        BY <3>2, <1>11, <1>20 DEF Passing
      <4> QED BY <4>1 DEF StaticOf, WaitsOK
    <3> QED BY <3>1, <3>2
  <2> QED BY <2>1 DEF WaitsOK
<1>25. NoexsOK(r, S)
  BY <1>11, <1>12, <1>20 DEF NoexsOK, StaticOf
<1>26. FreeOK(r) /\ FlagOK(r)
  BY <1>20, <1>21 DEF StaticOf, FreeOK, FlagOK
<1>27. SameContext(j, r) /\ Reports(j, r)
  BY <1>9, <1>10, <1>18, <1>21 DEF SameContext, Reports
<1>28. Keeps(j, r)
  BY <1>11, <1>12, <1>20 DEF Keeps
<1>29. \A v \in Task \ S : r.tmevtb[v] = j.tmevtb[v]
  BY <1>20 DEF Passing
<1> QED BY <1>18, <1>20, <1>22, <1>23, <1>24, <1>25, <1>26, <1>27, <1>28, <1>29
        DEF StaticOf, CallOf

(* The state in which wait_dequeue_tmevtb and set_wercd leave a waiting    *)
(* task.                                                                   *)
LEMMA Dequeueing ==
  ASSUME NEW j, NEW S \in SUBSET Task, StaticOf(j, S), NEW t \in S, "WAITING" \in j.tstat[t],
         NEW y, Kept(j, y, {}), NEW e \in Wercd,
         NEW r, r = set_wercd(wait_dequeue_tmevtb(y, t), t, e)
  PROVE  Passing(j, r, t) /\ r.priority = j.priority
<1>1. /\ KernelFields \subseteq DOMAIN y /\ y.winfo = j.winfo /\ y.tmevtb = j.tmevtb
      /\ y.priority = j.priority
  BY DEF Kept, QueueFields, KernelFields
<1>2. PICK w : w = wait_dequeue_tmevtb(y, t)
  OBVIOUS
<1>3. "winfo" \in DOMAIN y /\ "tmevtb" \in DOMAIN y /\ "priority" \in DOMAIN y
  BY <1>1 DEF KernelFields
<1>4. /\ j.winfo \in [Task -> Winfo] /\ j.tmevtb \in [Task -> Callback]
      /\ j.priority \in [Task -> TPRI]
  BY DEF StaticOf, Data, SchedType
<1>5. j.winfo[t] \in {"NULL", "p_tmevtb"} /\ (j.tmevtb[t] # "none" <=> j.winfo[t] = "p_tmevtb")
  BY DEF StaticOf, WaitsOK, WaitOK
<1>6. /\ Frame(y, w, {"tmevtb"}) /\ w.tmevtb = [j.tmevtb EXCEPT ![t] = "none"]
      /\ "winfo" \in DOMAIN w
  <2>1. CASE j.winfo[t] = "NULL"
    <3>1. w = y
      BY <1>1, <1>2, <2>1 DEF wait_dequeue_tmevtb
    <3>2. j.tmevtb[t] = "none"
      BY <2>1, <1>5
    <3>3. [j.tmevtb EXCEPT ![t] = "none"] = j.tmevtb
      BY <3>2, <1>4
    <3> QED BY <3>1, <3>3, <1>1, <1>3 DEF Frame
  <2>2. CASE j.winfo[t] = "p_tmevtb"
    <3>1. w = [y EXCEPT !.tmevtb[t] = "none"]
      BY <1>1, <1>2, <2>2 DEF wait_dequeue_tmevtb
    <3> QED BY <3>1, <1>1, <1>3 DEF Frame
  <2> QED BY <2>1, <2>2, <1>5
<1>7. r = [w EXCEPT !.winfo[t] = e]
  BY <1>2 DEF set_wercd
<1> HIDE <1>2
<1>8. /\ Frame(w, r, {"winfo"}) /\ r.winfo = [j.winfo EXCEPT ![t] = e]
      /\ r.tmevtb = [j.tmevtb EXCEPT ![t] = "none"]
      /\ r.priority = j.priority
  BY <1>1, <1>3, <1>6, <1>7 DEF Frame
<1> HIDE <1>7
<1>9. Kept(j, r, PassFields)
  BY <1>6, <1>8 DEF Frame, Kept, PassFields
<1> QED BY <1>4, <1>8, <1>9 DEF Passing, Winfo, Callback

(* wait_delete_head. *)
LEMMA DeleteHeadCall ==
  ASSUME NEW j, Static(j), NEW m \in Wobj, NEW t \in Task, t = Head(j.wait_queue[m]),
         "WAITING" \in j.tstat[t], NEW r, r = wait_delete_head(j, m)
  PROVE  CallOf(j, r, Task)
<1>1. PICK y : y = WithoutHead(j, m)
  OBVIOUS
<1>2. PICK z : z = set_wercd(wait_dequeue_tmevtb(y, t), t, "E_DLT")
  OBVIOUS
<1>3. r = make_non_wait(z, t)
  BY <1>1, <1>2 DEF wait_delete_head, WithoutHead
<1>4. Kept(j, y, {})
  BY <1>1 DEF Kept, WithoutHead, QueueFields, Static, Data
<1>5. StaticOf(j, Task) /\ Task \in SUBSET Task /\ "E_DLT" \in Wercd
  BY StaticCases DEF Wercd
<1>6. Passing(j, z, t)
  BY ONLY <1>2, <1>4, <1>5, "WAITING" \in j.tstat[t], t \in Task, Dequeueing
<1> QED BY ONLY <1>3, <1>5, <1>6, "WAITING" \in j.tstat[t], t \in Task, PassCall

-----------------------------------------------------------------------------
(***************************************************************************)
(* The loops of init_wait_queue and mutex_release_all, as the sequence of  *)
(* the states they go through.                                             *)
(***************************************************************************)

(* A set that has 0 and with m - 1 also m has every number up to n. *)
LEMMA LoopInduction ==
  ASSUME NEW n \in Nat, NEW T, 0 \in T, \A m \in 1 .. n : m - 1 \in T => m \in T
  PROVE  \A m \in 0 .. n : m \in T
<1> DEFINE S == {m \in 0 .. n : m \notin T}
<1> SUFFICES S = {}
  OBVIOUS
<1>1. SUFFICES ASSUME S # {} PROVE FALSE
  OBVIOUS
<1>2. S \in SUBSET Nat
  OBVIOUS
<1> HIDE DEF S
<1>3. PICK m \in S : \A x \in S : m <= x
  BY <1>1, <1>2, LeastPriority
<1>4. m \in 0 .. n /\ m \notin T
  BY DEF S
<1>5. m # 0
  BY <1>4
<1>6. m - 1 \in 0 .. n /\ m - 1 \notin S
  BY <1>3, <1>4, <1>5
<1>7. m - 1 \in T
  BY <1>6 DEF S
<1> QED BY <1>4, <1>5, <1>7

(* The iteration of init_wait_queue (d) and of mutex_release_all. *)
LoopStep(d, x, a) == IF d THEN wait_delete_head(x, a) ELSE mutex_release_first(x, a)

Sequence(f, N) == f = [n \in 0 .. N |-> f[n]]

LoopTo(d, j, a, f, N) ==
  /\ Sequence(f, N) /\ f[0] = j
  /\ \A n \in 1 .. N : f[n] = LoopStep(d, f[n - 1], a)

(* There is such a sequence, of any length. *)
LEMMA LoopExists ==
  ASSUME NEW d, NEW j, NEW a, NEW N \in Nat
  PROVE  \E f : LoopTo(d, j, a, f, N)
<1> DEFINE T == {m \in 0 .. N : \E f : LoopTo(d, j, a, f, m)}
<1>1. 0 \in T
  <2>1. PICK f : f = [n \in 0 .. 0 |-> j]
    OBVIOUS
  <2>2. LoopTo(d, j, a, f, 0)
    BY <2>1 DEF LoopTo, Sequence
  <2> QED BY <2>2
<1>2. ASSUME NEW m \in 1 .. N, m - 1 \in T PROVE m \in T
  <2>1. PICK f : LoopTo(d, j, a, f, m - 1)
    BY <1>2
  <2>2. PICK v : v = LoopStep(d, f[m - 1], a)
    OBVIOUS
  <2>3. PICK g : g = [n \in 0 .. m |-> IF n = m THEN v ELSE f[n]]
    OBVIOUS
  <2>4. Sequence(g, m) /\ g[0] = j
    BY <2>1, <2>3 DEF LoopTo, Sequence
  <2>5. \A n \in 0 .. m - 1 : g[n] = f[n]
    BY <2>3
  <2>6. g[m] = v
    BY <2>3
  <2>7. ASSUME NEW n \in 1 .. m PROVE g[n] = LoopStep(d, g[n - 1], a)
    <3>1. g[n - 1] = f[n - 1]
      BY <2>5
    <3>2. CASE n = m
      BY <2>2, <2>6, <3>1, <3>2
    <3>3. CASE n # m
      <4>1. f[n] = LoopStep(d, f[n - 1], a)
        BY <2>1, <3>3 DEF LoopTo
      <4>2. g[n] = f[n]
        BY <2>5, <3>3
      <4> QED BY <3>1, <4>1, <4>2
    <3> QED BY <3>2, <3>3
  <2>8. LoopTo(d, j, a, g, m)
    BY <2>4, <2>7 DEF LoopTo
  <2> QED BY <2>8
<1>3. \A m \in 1 .. N : m - 1 \in T => m \in T
  BY <1>2
<1> HIDE DEF T
<1>4. \A m \in 0 .. N : m \in T
  BY <1>1, <1>3, LoopInduction
<1> QED BY <1>4 DEF T

LoopBody(d, j, a, N, f) ==
  [n \in 0 .. N |-> IF n = 0 THEN j ELSE LoopStep(d, f[n - 1], a)]

(* So the recursive function that a loop is exists. *)
LEMMA LoopDefined ==
  ASSUME NEW d, NEW j, NEW a, NEW N \in Nat
  PROVE  /\ \E f : f = LoopBody(d, j, a, N, f)
         /\ \A f : f = LoopBody(d, j, a, N, f) => LoopTo(d, j, a, f, N)
<1>1. PICK f : LoopTo(d, j, a, f, N)
  BY LoopExists
<1>2. PICK e : e = LoopBody(d, j, a, N, f)
  OBVIOUS
<1>3. \A n \in 0 .. N : f[n] = e[n]
  BY <1>1, <1>2 DEF LoopTo, LoopBody
<1>4. f = [n \in 0 .. N |-> f[n]]
  BY <1>1 DEF LoopTo, Sequence
<1>5. e = [n \in 0 .. N |-> e[n]]
  BY <1>2 DEF LoopBody
<1>6. f = e
  BY <1>3, <1>4, <1>5
<1>7. ASSUME NEW g, g = LoopBody(d, j, a, N, g)
      PROVE  LoopTo(d, j, a, g, N)
  <2>0. Sequence(g, N)
    BY <1>7 DEF LoopBody, Sequence
  <2>1. \A n \in 0 .. N : g[n] = IF n = 0 THEN j ELSE LoopStep(d, g[n - 1], a)
    BY <1>7 DEF LoopBody
  <2>2. g[0] = j
    BY <2>1
  <2>3. \A n \in 1 .. N : g[n] = LoopStep(d, g[n - 1], a)
    BY <2>1
  <2> QED BY <2>0, <2>2, <2>3 DEF LoopTo
<1> QED BY <1>2, <1>6, <1>7

(* init_wait_queue is the last state of its loop. *)
LEMMA InitWaitLoop ==
  ASSUME NEW j, NEW m, Len(j.wait_queue[m]) \in Nat
  PROVE  \E f : /\ LoopTo(TRUE, j, m, f, Len(j.wait_queue[m]))
                /\ init_wait_queue(j, m) = f[Len(j.wait_queue[m])]
<1> DEFINE E(f) == [n \in 0 .. Len(j.wait_queue[m]) |->
                      IF n = 0 THEN j ELSE wait_delete_head(f[n - 1], m)]
<1>1. \A f : E(f) = LoopBody(TRUE, j, m, Len(j.wait_queue[m]), f)
  BY DEF LoopBody, LoopStep
<1>2. \E f : f = E(f)
  <2> HIDE DEF E
  <2>1. PICK f : f = LoopBody(TRUE, j, m, Len(j.wait_queue[m]), f)
    BY LoopDefined
  <2>2. f = E(f)
    BY <1>1, <2>1
  <2> QED BY <2>2
<1>3. PICK g : g = CHOOSE f : f = E(f)
  OBVIOUS
<1>4. g = E(g)
  BY <1>2, <1>3
<1>5. init_wait_queue(j, m) = g[Len(j.wait_queue[m])]
  BY <1>3 DEF init_wait_queue
<1>6. g = LoopBody(TRUE, j, m, Len(j.wait_queue[m]), g)
  BY <1>1, <1>4
<1> HIDE <1>3
<1> HIDE DEF E
<1>7. LoopTo(TRUE, j, m, g, Len(j.wait_queue[m]))
  BY <1>6, LoopDefined
<1> QED BY <1>5, <1>7

(* And so is mutex_release_all. *)
LEMMA ReleaseAllLoop ==
  ASSUME NEW j, NEW t, Len(j.mutex_queue[t]) \in Nat
  PROVE  \E f : /\ LoopTo(FALSE, j, t, f, Len(j.mutex_queue[t]))
                /\ mutex_release_all(j, t) = f[Len(j.mutex_queue[t])]
<1> DEFINE E(f) == [n \in 0 .. Len(j.mutex_queue[t]) |->
                      IF n = 0 THEN j ELSE mutex_release_first(f[n - 1], t)]
<1>1. \A f : E(f) = LoopBody(FALSE, j, t, Len(j.mutex_queue[t]), f)
  BY DEF LoopBody, LoopStep
<1>2. \E f : f = E(f)
  <2> HIDE DEF E
  <2>1. PICK f : f = LoopBody(FALSE, j, t, Len(j.mutex_queue[t]), f)
    BY LoopDefined
  <2>2. f = E(f)
    BY <1>1, <2>1
  <2> QED BY <2>2
<1>3. PICK g : g = CHOOSE f : f = E(f)
  OBVIOUS
<1>4. g = E(g)
  BY <1>2, <1>3
<1>5. mutex_release_all(j, t) = g[Len(j.mutex_queue[t])]
  BY <1>3 DEF mutex_release_all
<1>6. g = LoopBody(FALSE, j, t, Len(j.mutex_queue[t]), g)
  BY <1>1, <1>4
<1> HIDE <1>3
<1> HIDE DEF E
<1>7. LoopTo(FALSE, j, t, g, Len(j.mutex_queue[t]))
  BY <1>6, LoopDefined
<1> QED BY <1>5, <1>7

(* A function that does nothing. *)
LEMMA CallRefl ==
  ASSUME NEW S, NEW j, StaticOf(j, S)
  PROVE  CallOf(j, j, S)
BY DEF CallOf, SameContext, Reports, Keeps
=============================================================================
