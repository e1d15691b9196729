---------------------------- MODULE DebugMonitor ----------------------------
(***************************************************************************)
(* The variables a firmware built with DEBUG_USE_PROTOCOL registers with   *)
(* the debugger, and the table the PC tool makes of the frames it gets     *)
(* (serial.cpp).  A frame is one of mdtp, which has modules of its own: it *)
(* is lost, or arrives as it was sent.  What is sent may be torn: a scan   *)
(* rewrites the buffer under a DMA that is still sending, and what the DMA *)
(* has begun goes out half old and half new, with no checksum to tell.     *)
(*                                                                         *)
(* A frame has a pid: 0 brings the type and address of a variable, 1 and 2 *)
(* the halves of its name, 3 a value.  What the first three bring is the   *)
(* number of the variable it is of, counted from 1.                        *)
(***************************************************************************)
EXTENDS Integers, Sequences, FiniteSets

CONSTANTS
  Registered,       (* Variables the program registers: at most            *)
                    (* VARIABLE_BUFFER_SIZE, 12.                           *)
  FrameBuffers,     (* variable_mdtp_dma_buffer: 64.                       *)
  VarValues,        (* Values of the variables,                            *)
  MaxScans          (* Bound: scans and changes of them.                   *)

ASSUME MonitorAssumption ==
  /\ Registered \in Nat \ {0} /\ FrameBuffers \in Nat /\ 4 * Registered <= FrameBuffers
  /\ 0 \in VarValues /\ MaxScans \in Nat

VARIABLES
  \* the program: variable_index and the values of the variables
  variable_index, var_now, var_lastvalue,
  \* variable_mdtp_dma_buffer, and variable_dma_counter
  frame_buffer, variable_dma_counter,
  \* the DMA: frames it has to send, and has sent; the frame it had begun
  \* when a scan wrote over it, as it was then, or none
  dma_frames, dma_sent, torn,
  \* the PC: variable_counter_serial and debugger_variable
  variable_counter_serial, debugger_variable,
  \* history: scans; variables of which a value may have been lost; whether
  \* what is being sent is of two scans, an old value after a new one; rows
  \* that a torn frame was taken for
  scans, unsure, mixed, spoilt

program     == <<variable_index, var_now, var_lastvalue>>
frame_vars  == <<frame_buffer, variable_dma_counter>>
monitor     == <<variable_counter_serial, debugger_variable>>
debug_vars  == <<program, frame_vars, dma_frames, dma_sent, torn, monitor, scans, unsure, mixed, spoilt>>

Var    == 0 .. Registered - 1
Row    == [status : 0 .. Registered, name : 0 .. Registered, rest : 0 .. Registered, value : VarValues]
Absent == [status |-> 0, name |-> 0, rest |-> 0, value |-> 0]
Frame  == [pid : 0 .. 3, index : Var, data : (0 .. Registered) \cup VarValues]

DebugInit ==
  /\ variable_index = 0 /\ var_now = [v \in Var |-> 0] /\ var_lastvalue = [v \in Var |-> 0]
  /\ frame_buffer = <<>> /\ variable_dma_counter = 0
  /\ dma_frames = 0 /\ dma_sent = 0 /\ torn = {}
  /\ variable_counter_serial = 0 /\ debugger_variable = [v \in 0 .. Registered |-> Absent]
  /\ scans = 0 /\ unsure = {} /\ mixed = FALSE /\ spoilt = {}

-----------------------------------------------------------------------------
(* The buffer after frames are packed from the n-th place on.              *)
Packed(n, frames) ==
  SubSeq(frame_buffer, 1, n) \o frames \o
    SubSeq(frame_buffer, n + Len(frames) + 1, Len(frame_buffer))

FrameOf(pid, v, data) == [pid |-> pid, index |-> v, data |-> data]

(* What the DMA has not sent yet.                                          *)
Unsent == {frame_buffer[k].index : k \in dma_sent + 1 .. dma_frames}

(* debugger_register_variable and debugger_report_variable.  The DMA is    *)
(* set up and left disabled: it stops, and the next scan sends the frames. *)
Register ==
  /\ variable_index < Registered
  /\ frame_buffer' = Packed(variable_dma_counter,
       [k \in 1 .. 3 |-> FrameOf(k - 1, variable_index, variable_index + 1)])
  /\ variable_dma_counter' = variable_dma_counter + 3
  /\ variable_index' = variable_index + 1
  /\ dma_frames' = 0 /\ dma_sent' = 0 /\ torn' = {}
  /\ unsure' = unsure \cup Unsent
  /\ UNCHANGED <<var_now, var_lastvalue, monitor, scans, mixed, spoilt>>

Change ==
  /\ \E v \in 0 .. variable_index - 1, value \in VarValues : var_now' = [var_now EXCEPT ![v] = value]
  /\ UNCHANGED <<variable_index, var_lastvalue, frame_vars, dma_frames, dma_sent, torn, monitor,
                 scans, unsure, mixed, spoilt>>

Sending == dma_sent < dma_frames

Changed == {v \in 0 .. variable_index - 1 : var_now[v] # var_lastvalue[v]}

(* The variables that changed, in the order of the loop.                   *)
Orders ==
  {order \in [1 .. Cardinality(Changed) -> Changed] :
     /\ Changed = {order[k] : k \in DOMAIN order}
     /\ \A j, k \in DOMAIN order : j < k => order[j] < order[k]}

(* Mutant of Reports: the values before the change are sent.               *)
OldReports(order) == [k \in DOMAIN order |-> FrameOf(3, order[k], var_lastvalue[order[k]])]

Reports(order) == [k \in DOMAIN order |-> FrameOf(3, order[k], var_now[order[k]])]

(* uart1_dma_set_transmit_buffer.  Of a DMA that still sends nothing but   *)
(* the buffer may change: its registers may not take what is written.  It  *)
(* is between two frames then, or in one whose pid has gone out.           *)
StartSending(frames) ==
  \/ dma_frames' = frames /\ dma_sent' = 0 /\ torn' = {}
  \/ /\ Sending /\ UNCHANGED <<dma_frames, dma_sent>>
     /\ torn' \in {{}, {frame_buffer[dma_sent + 1]}}

(* Mutant of Emptied: the counter is not reset.                            *)
NotEmptied(counter) == counter

Emptied(counter) == 0

(* debugger_scan_variable, in the interrupt of the timer.  Bound: a frame  *)
(* that a scan has torn is out before the next scan.                       *)
Scan ==
  /\ scans < MaxScans /\ torn = {}
  /\ \E order \in Orders :
       LET count == variable_dma_counter + Len(order)
       IN  /\ frame_buffer' = Packed(variable_dma_counter, Reports(order))
           /\ StartSending(count)
           /\ variable_dma_counter' = Emptied(count)
  /\ unsure' = IF Sending THEN unsure \cup Changed \cup Unsent ELSE unsure
  /\ var_lastvalue' = [v \in Var |-> IF v < variable_index THEN var_now[v] ELSE var_lastvalue[v]]
  /\ scans' = scans + 1
  /\ mixed' = Sending
  /\ UNCHANGED <<variable_index, var_now, monitor, spoilt>>

-----------------------------------------------------------------------------
(* mdtp_callback_handler of the PC tool.  Mutant of IsNext: the number of  *)
(* the variable is not compared.                                           *)
IsAnyNext(v) == TRUE

IsNext(v) == v = variable_counter_serial

SetRow(field, data) ==
  debugger_variable' = [debugger_variable EXCEPT ![variable_counter_serial][field] = data]

Take0to2(f) ==
  /\ f.pid \in 0 .. 2
  /\ IF ~IsNext(f.index) THEN UNCHANGED monitor
     ELSE /\ SetRow(<<"status", "name", "rest">>[f.pid + 1], f.data)
          /\ variable_counter_serial' = IF f.pid = 2 THEN variable_counter_serial + 1
                                        ELSE variable_counter_serial

Take3(f) ==
  /\ f.pid = 3
  /\ IF variable_counter_serial > f.index
       THEN debugger_variable' = [debugger_variable EXCEPT ![f.index].value = f.data]
       ELSE UNCHANGED debugger_variable
  /\ UNCHANGED variable_counter_serial

(* What may arrive of the frame that is being sent.  Of a torn one the pid *)
(* is the old one, the number of either, and the data of neither.          *)
Arriving ==
  LET new == frame_buffer[dma_sent + 1]
      mixture == {f \in Frame : \E old \in torn :
                    /\ f.pid = old.pid /\ f.index \in {old.index, new.index}
                    /\ f.data \in IF f.pid = 3 THEN VarValues ELSE 0 .. Registered}
  IN  IF torn \subseteq {new} THEN {new} ELSE mixture

ReceiveFrame ==
  /\ Sending
  /\ \E f \in Arriving :
       /\ Take0to2(f) \/ Take3(f)
       /\ unsure' = IF f.pid # 3 THEN unsure
                    ELSE IF mixed \/ variable_counter_serial <= f.index
                      THEN unsure \cup {f.index} ELSE unsure \ {f.index}
       /\ spoilt' = IF f.pid # 3 /\ IsNext(f.index) /\ f # frame_buffer[dma_sent + 1]
                      THEN spoilt \cup {f.index} ELSE spoilt
  /\ dma_sent' = dma_sent + 1 /\ torn' = {}
  /\ UNCHANGED <<program, frame_vars, dma_frames, scans, mixed>>

LoseFrame ==
  /\ Sending
  /\ unsure' = unsure \cup {frame_buffer[dma_sent + 1].index}
  /\ dma_sent' = dma_sent + 1 /\ torn' = {}
  /\ UNCHANGED <<program, frame_vars, dma_frames, monitor, scans, mixed, spoilt>>

(* clear_debugger_variable, when the port is closed                        *)
ClearTable ==
  /\ variable_counter_serial > 0
  /\ debugger_variable' = [v \in 0 .. Registered |->
       IF v < variable_counter_serial THEN Absent ELSE debugger_variable[v]]
  /\ variable_counter_serial' = 0
  /\ unsure' = Var /\ spoilt' = spoilt \ (0 .. variable_counter_serial - 1)
  /\ UNCHANGED <<program, frame_vars, dma_frames, dma_sent, torn, scans, mixed>>

DebugNext == Register \/ Change \/ Scan \/ ReceiveFrame \/ LoseFrame \/ ClearTable

DebugSpec == DebugInit /\ [][DebugNext]_debug_vars

-----------------------------------------------------------------------------
(* The types; the frames of all variables and their values fit the buffer. *)
DebugTypeOK ==
  /\ variable_index \in 0 .. Registered /\ Len(frame_buffer) <= FrameBuffers
  /\ variable_dma_counter \in 0 .. FrameBuffers /\ dma_sent \in 0 .. dma_frames
  /\ variable_counter_serial \in 0 .. Registered

(* A row of the table is about one variable, the one with its number: what *)
(* was lost of it is missing, and never that of another, unless a torn     *)
(* frame was taken for it.                                                 *)
RowsRight ==
  \A v \in Var \ spoilt :
    LET row == debugger_variable[v]
    IN  /\ {row.status, row.name, row.rest} \subseteq {0, v + 1}
        /\ v < variable_counter_serial => row.rest = v + 1

(* When nothing is being sent the table shows the values of the last scan, *)
(* but those of which a frame was lost, or two scans got mixed: they stay  *)
(* until they change again.                                                *)
ShownIsLast ==
  ~Sending =>
    \A v \in 0 .. variable_counter_serial - 1 :
      v \notin unsure => debugger_variable[v].value = var_lastvalue[v]

(* The table of the PC tool shows the variables of the firmware.           *)
TableRight == RowsRight /\ ShownIsLast
=============================================================================
