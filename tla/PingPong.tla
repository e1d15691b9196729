------------------------------ MODULE PingPong ------------------------------
(***************************************************************************)
(* Reception by DMA into two buffers in turn, as ctrl_mcu receives from    *)
(* proc_mcu (UART6, blocks of 21 words) and proc_mcu from the GPS (UART3,  *)
(* 74) and from read_mcu (UART2, 16 or 96).  The DMA stops when a block is *)
(* full; the handler of its interrupt starts it on the other buffer and    *)
(* then hands the full one, word by word, to the function that takes them. *)
(* The UART holds one word while the DMA is stopped.                       *)
(*                                                                         *)
(* For UART2 a callback of the GUI may change the size of the blocks at    *)
(* any time; a link with one size has Sizes with one element.              *)
(***************************************************************************)
EXTENDS Integers, Sequences, FiniteSetsExt

CONSTANTS
  Sizes,        (* Sizes of a block.                                       *)
  MaxWords,     (* Bound: words that come over the line.                   *)
  MaxSwitches   (* Bound: changes of the size.                             *)

ASSUME PingPongAssumption ==
  /\ Sizes \subseteq Nat \ {0}
  /\ \E small, large \in Sizes : \A other \in Sizes : small <= other /\ other <= large
  /\ MaxWords \in Nat
  /\ MaxSwitches \in Nat

VARIABLES
  \* the UART: the word in its data register, 0 if none
  rdr,
  \* the DMA: the buffer it fills (CMAR), the length of the block, the words
  \* of it that are stored (the length less CNDTR), and the interrupt flag
  target, armed, filled, tc,
  \* the two buffers, and uart6_free_buffer_no
  memory, free_buffer,
  \* the handler: the buffer it hands over, 0 if it does not run, how many
  \* words that one has received, and the loop variable
  reading, length, counter,
  \* uart2_dma_buffer_size
  size,
  \* history: the last word that came, that was stored and that was handed
  \* over; blocks handed over with a length that is not theirs since the
  \* last change of the size; changes
  arrived, newest, handed, wrong, switches

dma     == <<target, armed, filled, tc>>
handler == <<free_buffer, reading, length, counter>>
counts  == <<arrived, newest, handed, switches>>
dma_vars    == <<rdr, dma, memory, handler, size, wrong, counts>>

Index == 1 .. Max(Sizes)

DmaInit ==
  /\ rdr = 0
  /\ size = Min(Sizes)
  /\ target = 1 /\ armed = size /\ filled = 0 /\ tc = FALSE
  /\ memory = [b \in 1 .. 2 |-> [k \in Index |-> 0]]
  /\ free_buffer = 1
  /\ reading = 0 /\ length = size /\ counter = 0
  /\ arrived = 0 /\ newest = 0 /\ handed = 0 /\ switches = 0
  /\ wrong = 0

-----------------------------------------------------------------------------
Busy == reading # 0

(* A word comes.  If the register still holds one, one of the two is lost. *)
Arrive ==
  /\ arrived < MaxWords
  /\ arrived' = arrived + 1
  /\ rdr' \in IF rdr = 0 THEN {arrived'} ELSE {rdr, arrived'}
  /\ UNCHANGED <<dma, memory, handler, size, wrong, newest, handed, switches>>

(* The DMA takes the word from the register while its block has room.      *)
Transfer ==
  /\ rdr # 0 /\ filled < armed
  /\ memory' = [memory EXCEPT ![target][filled + 1] = rdr]
  /\ filled' = filled + 1
  /\ tc' = (filled' = armed)
  /\ rdr' = 0
  /\ newest' = rdr
  /\ UNCHANGED <<target, armed, handler, size, wrong, arrived, handed, switches>>

-----------------------------------------------------------------------------
(* uart6_dma_set_transmit_buffer                                           *)
set_transmit_buffer(buffer, amount) ==
  /\ target' = buffer
  /\ armed' = amount
  /\ filled' = 0

(* Mutants of Enter: the buffers are not switched; the size is not looked  *)
(* up again.                                                               *)
EnterSameBuffer ==
  /\ tc /\ ~Busy
  /\ tc' = FALSE
  /\ set_transmit_buffer(free_buffer, size)
  /\ UNCHANGED free_buffer
  /\ reading' = free_buffer /\ length' = armed /\ counter' = 0
  /\ UNCHANGED <<rdr, memory, size, wrong, counts>>

EnterOldSize ==
  /\ tc /\ ~Busy
  /\ tc' = FALSE
  /\ set_transmit_buffer(3 - free_buffer, armed)
  /\ free_buffer' = 3 - free_buffer
  /\ reading' = free_buffer /\ length' = armed /\ counter' = 0
  /\ UNCHANGED <<rdr, memory, size, wrong, counts>>

(* The interrupt handler: it clears the flag, starts the DMA on the other  *)
(* buffer and calls deal_uart6_dma_proc with the full one.                 *)
Enter ==
  /\ tc /\ ~Busy
  /\ tc' = FALSE
  /\ set_transmit_buffer(3 - free_buffer, size)
  /\ free_buffer' = 3 - free_buffer
  /\ reading' = free_buffer /\ length' = armed /\ counter' = 0
  /\ UNCHANGED <<rdr, memory, size, wrong, counts>>

(* One turn of the loop over the block; its bound is read every time.      *)
Take ==
  /\ Busy /\ counter < size
  /\ counter' = counter + 1
  /\ handed' = memory[reading][counter']
  /\ UNCHANGED <<rdr, dma, memory, free_buffer, reading, length, size, wrong,
                 arrived, newest, switches>>

Leave ==
  /\ Busy /\ counter >= size
  /\ reading' = 0
  /\ wrong' = IF counter # length THEN wrong + 1 ELSE wrong
  /\ UNCHANGED <<rdr, dma, memory, free_buffer, length, counter, size, counts>>

(* A callback of the GUI changes uart2_dma_buffer_size.  No task runs      *)
(* while an interrupt is handled or pending.                               *)
Switch ==
  /\ ~Busy /\ ~tc
  /\ switches < MaxSwitches
  /\ size' \in Sizes \ {size}
  /\ switches' = switches + 1
  /\ wrong' = 0
  /\ UNCHANGED <<rdr, dma, memory, handler, arrived, newest, handed>>

DmaNext == Arrive \/ Transfer \/ Enter \/ Take \/ Leave \/ Switch

DmaSpec == DmaInit /\ [][DmaNext]_dma_vars

-----------------------------------------------------------------------------
(* The variables have their types, and the DMA fills the buffer the        *)
(* handler believes it does and never the one it hands over.               *)
BuffersOK ==
  /\ rdr \in 0 .. MaxWords
  /\ target \in 1 .. 2 /\ armed \in Sizes /\ filled \in 0 .. armed /\ tc \in BOOLEAN
  /\ memory \in [1 .. 2 -> [Index -> 0 .. MaxWords]]
  /\ reading \in {0, 3 - target} /\ length \in Sizes /\ counter \in 0 .. Max(Sizes)
  /\ free_buffer = target
  /\ size \in Sizes
  /\ arrived \in 0 .. MaxWords
  /\ tc <=> filled = armed

(* Words stored and not yet handed over, where the code keeps them.        *)
Queue ==
  (IF Busy THEN SubSeq(memory[reading], counter + 1, length) ELSE <<>>)
    \o SubSeq(memory[target], 1, filled)

(* While the size is not changed, and so for ever on a link with one size, *)
(* however late the handler is, the words it hands over are those the DMA  *)
(* stored, once and in order.                                              *)
WordQueue == INSTANCE WordQueue WITH queue <- Queue
Ordered == WordQueue!Init /\ [][switches = 0 => WordQueue!Next]_<<Queue, newest, handed>>

(* A change of the size makes the handler take a block for one of another  *)
(* length, but only the one the DMA is filling.                            *)
OneWrongBlock == wrong <= 1
=============================================================================
