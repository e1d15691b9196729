# MM32 smart car: verification of the firmware

TLA+ models of the firmware in `src/program`, the TLC runs that check them on
small instances and the theorems about them that TLAPS checks for every value
of the constants. Paths are relative to `src/`, and paths under `program/` are
shortened to what follows it.

## 1. The system

A model car drives itself along a path of reference points with the position
from an RTK-GPS. It has two MM32F3277 processors, `proc_mcu` (sensors and user
interface, under FreeRTOS) and `ctrl_mcu` (control, bare metal), a third one,
`read_mcu`, that reads the inertial sensors (not part of the repository), a
motor driver, and a tool on a PC (`tools/`).

    GPS  --UART3, DMA ch 3-->  +----------+                    +----------+
    read_mcu --UART2, DMA ch 6-> proc_mcu | --UART4 -> UART6-->| ctrl_mcu | --PWM--> servo
    power board --UART6 irq--> +----------+     (DMA ch 1)     +----------+ --UART7--> motor driver
                                    ^                            |  ^ |         (temperature back)
                                    +-- UART4 irq: temperature --+  | +--UART1 irq-- PC tool

`src/` also holds vendored code (FreeRTOS, FatFs, the libraries of the chip's
vendor, `printf`, QCustomPlot, QSimpleUpdater) and board design files, which
are left aside.

### Components

| component | state | operations | runs in |
|---|---|---|---|
| **mdtp** `protocol/mdtp_{pack,unpack}.c` | `mdtp_receive_status`, `_number_counter`, `_data_buffer[10]` | `mdtp_data_transmit`, `mdtp_receive_handler` | UART1 interrupt; the PC |
| **proc→ctrl link** `device/sensor_decode.c` | `status`, `package_counter`, `package_buffer[80]`, `proc_data`, `lqr_flag` | `precossing_proc_to_control`, `deal_uart6_dma_proc`, `unpacking_proc_to_control` | task / DMA1 ch 1 interrupt |
| **reception in two buffers** `*/mm32f3x_it.c`, `hardware/dma.c` | two buffers, `uart?_free_buffer_no`, DMA registers | DMA transfer, interrupt handler, change of the block size | DMA hardware, interrupts, GUI callbacks |
| **control loop** `ctrl_mcu/main.c` | `find_counter`, `playground_ind`, `speed` | departure, control cycle, speed | main loop against the DMA interrupt |
| **fusion task** `proc_mcu/main.c`, `protocol/gps_parser.c`, `math/kalman.c` | `gps_rmc`, `neu`, `temp_stable[30]`, `gps_valid_flag` | `nmea_gnrmc_analysis`, `fusion_task`, `kalman_update` | task against the DMA ch 3 interrupt |
| GPS sentences `protocol/gps_parser.c` | `package_buffer[80]`, status | `deal_dma_gnrmc` | DMA ch 3 interrupt |
| read_mcu link `device/sensor_decode.c` | status, counters, `package_buffer` | `deal_dma_read_mcu`, fixed and variable packets | DMA ch 6 interrupt |
| averaging `math/data_conversion.c` | `small_packets_sum`, counter | add (interrupt), divide and clear (task) | both |
| LQR steering `math/riccati_solver.c`, `math/path.c` | reference path, gain | `find_index`, `calculate_distance`, `lqr_control` | main loop of ctrl_mcu |
| sdtp `protocol/sdtp_*.c` | `receive_buffer[3]`, `bldc` | speed packets for the motor driver and its answers | main loop, UART7 interrupt |
| GUI and touch `gui/`, `form/`, `device/xpt2046.c`, `math/sort.c` | form lists, current form, button states, touch queue | touch interrupt, `touchscan_task`, `guiupdate_task`, `gui_callback_task` | tasks of one priority, one interrupt |
| parameters `device/at24c02.c` | EEPROM, `touch_?_offset`, `touch_?_factor` | read at the start, write in two pages | start, GUI callback |
| SD card `device/tfcard.c`, `fatfs/diskio.c` | card state | commands with retries, block writes | task |
| debug link `debug/debugger.c` | printf buffer, registered variables, frames being sent | register, scan, print, DMA | timer interrupt, compiled in by `DEBUG_USE_PROTOCOL` |
| PC tool `tools/` | table of variables, joystick, plot | the protocols mirrored, `mdtp_callback_handler` | Qt threads |

How they interact: interrupts write variables (`gps_rmc`, `proc_data`,
`lqr_flag`, `small_packets_sum`, `temp_stable`, `gps_valid_flag`) that tasks
read without a lock; the processors only exchange words over serial lines on
which a word can be lost; tasks share the GUI's lists and a queue.

What is hard: a packet or sentence that arrives between any two statements of
a task; words lost on a line and receivers that have to find the frames again
without a length field, mostly without checksum and with fixed buffers; flags
cleared by one side and set by the other; a control decision, start or stop of
the motor, that depends on long sequences; and the end-to-end question whether
the car starts, and whether it learns that the GPS has lost its position.
`PROJECT.json` lists each such hazard at its line.

What makes the components correct:

- a link hands over only what was sent, once and in order; a lost word costs
  at most two frames; no buffer is overrun (*LossyChannel*, *Resynchronised*,
  *CounterInv*);
- two-buffer reception is a queue of the words received (*WordQueue*);
- the control loop neither overlooks a packet nor leaves a decision from two
  mixed packets standing, starts the motor only after enough positions, and
  stops it for good and not too late;
- the fusion task sends positions only while the GPS has one, begins only
  when the car stands still, and weighs each position as what it is;
- a car that stands where the GPS sees it starts; one that loses the position
  learns it;
- the receiver of read_mcu finds its packets again, takes none after a newer
  one and stays in its buffer, though buttons change their kind and size;
- a button touched is the one that acts, on a form that is whole, and the size
  of the blocks of read_mcu is that of the form displayed;
- the calibration in the EEPROM is the newest one, after any reset;
- a transfer to the card that is reported to have succeeded has taken place;
- the servo goes where it is asked to, between its stops.

## 2. Modules

| module | models | state and actions against the code |
|---|---|---|
| `ByteBits` | bytes as sets of bits | 0xff (`Flag`), the adjustment byte and its use |
| `MdtpCodec` | `mdtp_pack.c`, the unpacking of `mdtp_unpack.c` | pure |
| `MdtpLink` | sender and receiver of mdtp | `Begin` = pack, `Receive` = interrupt for a word, in the states of `mdtp_receive_status` (`AwaitHeader`, `Collect`, `Finish`); `Lose` = a word overwritten in the UART |
| `LossyChannel` | abstract: a link | `Send`, `Deliver` |
| `Verification` | `verification_crc8` | pure |
| `ProcCtrlCodec` | `precossing_` and `unpacking_proc_to_control` | pure |
| `ProcCtrlLink` | the line between the processors | `Pack`, one action for one turn of the loop of `deal_uart6_dma_proc`, in the states of `status`; `calibrate_cold_start_btn_callback` = a word of the GPS command sent over this line; `Lose` |
| `PingPong` | DMA reception in two buffers | `Arrive` (line), `Transfer` (DMA), `Enter`/`Take`/`Leave` (handler), `Switch` (GUI callback) |
| `WordQueue` | abstract: a queue of words | `Put`, `Get` |
| `CtrlDrive` | `main()` of ctrl_mcu and its interrupt | one action for each statement of `main()` that reads or writes something the interrupt writes too; `Unpack` = interrupt |
| `FusionTask` | `fusion_task` and the GPS interrupt | one action per statement likewise; `Fix`/`Lost` = `nmea_gnrmc_analysis` |
| `GpsLink` | the GPS's sentences, `deal_dma_gnrmc`, and `nmea_gnrmc_analysis` up to the fields | `Begin` = GPS, `Receive` = one turn of the loop over a block, in the states of `status` (`AwaitDollar`, `Copy`, `Analyse`); `Lose` |
| `SensorAverage` | `small_packets_sum` | `Add` = interrupt, one action for each access of `sensor_unit_conversion` |
| `CarControl` | both processors | instances of `FusionTask` and `CtrlDrive`, and the line |
| `ReadMcuLink` | `deal_dma_read_mcu`, its packets and the change of their kind | `BeginPacket` = read_mcu; `ReadReceive` = one turn of the loop, one operator per state of `status` (`Idle0` .. `Unpack`); `ChangeKind` = a button; `ReadLose` |
| `SdtpLink` | `sdtp_pack.c`, `sdtp_unpack.c` | `SendSpeed`, `ReceiveWord` = interrupt; `LoseWord` |
| `ParamStore` | saving and reading the parameters | `SaveFirst`, `SaveSecond` = the two writes of `at24c02_saveparams`, `Programmed` = the EEPROM is done; `Reset`, `PowerLoss`, `readparams` |
| `SdCard` | `tfcard.c` and `diskio.c` | one action per command or block of `sdcard_config`, `sdcard_write_disk`, `sdcard_read_disk` |
| `Steering` | `arranging_transition_process`, the limits of `lqr_control` | `lqr_control` for every angle asked for |
| `Sorting` | `sort.c` | pure; `Sort` chooses an array |
| `TouchSample` | `xpt2046_read`, `xpt2046_readxy` | `ReadValue` (twice), `ReturnXY` |
| `DebugMonitor` | `debugger.c` and `serial.cpp` | `Register`, `Scan` = timer interrupt, which may tear the frame the DMA is sending (`torn`); `ReceiveFrame` = PC, `ClearTable`; `LoseFrame` |
| `TouchGui` | touch interrupt and the three kinds of tasks over all eight forms | one action per read of a list or of `current_form`; a callback (`Callback`) is a sequence of statements, and one action does the next of any of them, in the kinds `Cut` .. `Resume` |
| `*Proofs` | theorems | section 5 |
| `MC_*` | instances for TLC | section 3 |

Data is abstracted to what the properties tell apart. A byte is a set of bits,
so the adjustment bytes, whose point is that they have a bit per byte of
payload, are exact, and the theorems hold for `Width` = 8 as for the `Width` = 2
of the runs. `GpsLink` works with ASCII codes and the real exclusive or, because
its question is what passes a checksum. A sample of `SensorAverage` is 1. A word
of `PingPong` is its number. In `CtrlDrive` a packet is
whether it holds a position (`distance_east != 0`), the car's motion any point
`find_index` can return. In `FusionTask` a position is a pair; what is kept of
the filters is the position given to them and the flag. A word of a packet of
read_mcu is the number of the packet and its place in it; the checksums of both
kinds are taken to find every mixture. A form of `TouchGui` has the buttons and
labels of the code, and a touch is at one of the five places that a button
covers on some form. The parameters are the number of the calibration they come
from, the divisors of `Steering` are in hundredths.

Variables under the heading "history" exist in no program: they record what
happened (frames sent and handed over, whether what `main()` has in hand is
from the newest packet, packets sent since a loss) for the properties to speak
about.

The lines of the models fit together as the code does: `PingPong` shows that
the functions for the words, which `ProcCtrlLink` and `GpsLink` call one at a
time, get what arrived, in order; `GpsLink` shows which sentences reach the
part of `nmea_gnrmc_analysis` that is `Fix` and `Lost` of `FusionTask`;
`ProcCtrlLink` shows that a packet is handed to `unpacking_proc_to_control`
when the next one begins, which is how the line of
`CarControl` works; `CarControl` composes `FusionTask`, that line and
`CtrlDrive`.

## 3. Runs

| run | checks | instance |
|---|---|---|
| `mdtp_link` | the inductive invariant with the types (no overrun of the ten bytes), refinement of `LossyChannel`, resynchronisation | two-bit bytes; messages with no, one and only 0xff; three frames; 5 lost words |
| `proc_ctrl_link` | refinement and resynchronisation of the proc→ctrl link, bound of `package_counter` | payloads with 0xff in the first group; three frames; between two flags 7 lost words, or 3 of the cold start command; a buffer of 31 |
| `proc_ctrl_tail` | *violated*: the payload is restored | 0xff in the second group, nothing lost |
| `ctrl_drive` | the control loop, safety and liveness | two departure packets, two cycles, windows of three points |
| `fusion_task` | loss of the position, weighing, the scan under interruption, progress | ring of 4, three positions, four to be equal |
| `gps_link` | types, bounds of `package_counter` and of the search for the star, refinement of `LossyChannel`, resynchronisation | a sentence with a position and one without, in blocks of 5; any word but a star lost in each; a buffer of 26 |
| `sensor_overflow` | *violated*: `num` is the number received | one packet more than a short holds |
| `car_control` | the car starts in the end | ring of 2, smallest counts |
| `car_control_loss` | *violated*: the loss is noticed | the same |
| `peripherals` | the ten small components, below | of each its own |
| `touch_gui` | walks over the lists, the button that acts, the size of the blocks, types and suspension (*StateOK*) | all eight forms, three touches, a queue of two |
| `servo_rate` | *violated*: off the middle the servo accelerates slowly | the constants of the code, five angles |

`peripherals` checks components that share no state side by side: a behaviour
is that of one of them, the variable `part`, which is chosen in the initial
state, says which, and the others rest. It is one run so that they need not be
ten; nothing interacts, and the number of states is the sum of theirs.

*TypesOK* holds the types of six parts (reception, read_mcu, motor, EEPROM, card,
debug monitor), and that nothing is written beyond a buffer or into one that is
being handed over.

| part | checks | instance |
|---|---|---|
| `SensorAverage` | the mean (*MeanOfCounted*) | 8 packets between calls, 2 in a call |
| `PingPong` | refinement of `WordQueue` (*Ordered*); a change of size spoils one block at most (*OneWrongBlock*) | blocks of 2 and 4, 11 words, two changes |
| `ReadMcuLink` | packets found again (*FixedResynchronised*), none after a newer one (*NeverOlder*) | data of 3 and 4 words, buffer of 6, four packets, two words lost, two changes |
| `SdtpLink` | a whole packet is taken, losses of an end are told by the crc (*SdtpRight*) | the real bytes of speed 23000 and 0, and one more |
| `ParamStore` | the newest calibration after resets, and the order of the pages (*StoreRight*) | three of each |
| `SdCard` | identification and complete transfers (*CardRight*) | five values of `retry`, four of `cnt`, six sectors |
| `Steering` | stops and divisor (*ServoRight*) | the constants of the code, angles beyond both ends of eight bits |
| `Sorting` | the three sorts sort | all arrays of up to six of three values |
| `TouchSample` | the place taken is near | four samples of noise 1, and wild ones |
| `DebugMonitor` | rows of the table, values shown (*TableRight*) | two variables, three scans |

### Bounds, and why they are enough

- `Width = 2`: the codecs treat the bytes of a group alike and there are two of
  them, so a frame with an adjusted and an unadjusted byte, with all adjusted
  and with none exists; the theorems take any width. 
- `MaxFrames = 3`: the receivers remember words of no more than two frames
  whatever is lost between two flags they see, and the third frame shows
  that they have found their place again.
- `MaxGap`: the words lost between two flags that are received. The instances
  take exactly the largest value under which the refinement holds, `Width + 3`
  for mdtp (with one more the receiver can put a message together from two
  frames) and `Inner = 2 * Width + 3` for the other link.
- `MaxCold = 3`, `BufferSize = 31`: a word of the command to trigger the
  unpacking, one to be dropped and one to be stored; the buffer is what the lost
  words and these can fill (`Roomy`), as few as the theorems need.
- The models of the receivers end when a counter passes its buffer (`Overrun`,
  `ReadOverrun`): the code then writes over whatever the linker put behind it,
  and its counters wrap at 256. What the properties say is therefore said of
  lines on which this does not happen, and the theorems name the condition.
- `PingPong`, `MaxWords = 11`: each of the two buffers is filled at least once more after
  having been handed over.
- `CtrlDrive`: `Cycles = 2` has a first and a last cycle; `Window = 3` lets the
  nearest point jump over the end; `MaxPoint = 9` is beyond the farthest
  overrun, `EndPoint + Cycles * (Window - 1) = 7`, which is therefore reached
  and not cut off.
- `FusionTask`: a ring of 4 is the
  smallest in which four equal entries exist (one row is long enough for them
  and three are not), and `SameMin = 2`, so that two overwritten entries
  matter and do not decide alone. `Burst = 2` is a timing assumption, below.
- `GpsLink`: a block of 5 words cuts a sentence of 11 or 13 up to three times
  (the code's 74 cut one twice at most), and never at the same place in all three
  sentences. One word is lost per sentence (`MaxLost`): the checksum finds one
  missing character, not two equal ones. A lost star is left out, for the code
  then reads behind its buffer, and what it finds there the model cannot know.
  `BufferSize = 26` is `Longest * (MaxMissed + 1)`, room for two sentences, which
  the code has not; the run shows that this is what one lost CR takes. Its three
  kinds of field, filled or not, are what the sentences with and without
  position differ in.
- `SensorAverage`: `MaxPackets + 2 * Burst` is as large as the short of the
  instance allows, which is also the assumption of its theorems.
- `ReadMcuLink`: two lost words can take one flag or both of a packet, or the
  header of one and a word of the next; four packets are what *FixedResynchronised*
  speaks of (three in a row) after one that was spoilt. `Pads` has a packet that
  is followed by words that fill the block and one that is not. `Room` is one
  word more than either packet needs, as few as shows a run past it. With
  `Wrap = 8` for the 256 of an unsigned char the counter of a variable packet
  can wrap before the packets run out; two changes lead to the other kind and
  back.
- `SdCard`: `CountValues = 4` for the 256 of an unsigned char lets a count be
  cut to 0, 1 and 2 (four to six sectors); `RetryValues = 5` lets the attempts
  run out.
- `ParamStore`: three resets, each in any of the steps of three saves, and one
  more start than there are pages.
- `TouchGui`: the third touch comes while a callback of the first and one of the
  second are due; the queue is full with two. A fourth would let a third
  callback wait behind two that calibrate, which the theorems cover and the run
  does not.
- `DebugMonitor`: `FrameBuffers = 8` for two variables (three frames each to
  register, one each to scan) is what the 64 of the code are for sixteen.
  A torn frame is out before the next scan: it takes 1 ms, a scan comes every 40.
- `CarControl` is the product of two loops; the smallest ring and counts keep
  it at 382 000 states. Each part is checked alone with larger ones.

### Environment and timing assumptions

- `Apart`: no words are lost between the two flags between which the cold start
  button sends its command, and it sends them between two packets and not into
  one: the callback has a lower priority (`GUI_CALLBACK_PRIO`, 2) than
  `fusion_task` (4), which does not wait while it sends a packet.
- `DebugMonitor` knows no rates. At 115200 baud 38 frames are sent between two
  scans, so that with twelve variables the frames a scan rewrites are out by
  then; what is mixed and torn in the model needs a slower line or a faster scan.
- A word can be lost, not altered: the lines are wires of some centimetres, and
  what the code risks is being late (interrupts disabled or of higher priority,
  DMA stopped while its handler begins).
- `PingPong` lets the handler be as late as it likes; a word that comes while
  the register is full replaces the one in it or is dropped.
- `Burst`: sentences with a position that are analysed between two delays of
  `fusion_task`. The task has the highest priority and computes for some
  milliseconds, in which the interrupt comes once; the block it brings, 74
  words, can end two sentences if they are a little shorter (the one in
  `testbench/script/sensor_decode_test.c` has 74 characters). Sentences without
  a position are short, and not limited. Only *StandsStill* needs `Burst`.
- `SensorAverage` is of the build the repository makes (`-O2`,
  `program/CMakeLists.txt:29`): the mean is not stored before it is overwritten.
- `TouchGui`: the GUI is redrawn every 200 ms and a callback waits 220 ms before
  it runs, so one more update at most begins in between; a callback is done
  180 ms later, unless it waits for the user to calibrate. All tasks are
  sliced, so that between two of their accesses any other may run.
- `SdCard`: a card answers in the end. A wait for an answer has no limit in the
  code; where none comes the model is at a state without a successor, as the
  program is.
- `ParamStore`: a page takes 5 ms to be written, in which the EEPROM ignores
  everything; a reset of the processor does not interrupt it, a loss of power
  leaves garbage in the page.
- `Len(wire) < 2` in `CarControl`: a packet takes 2 ms on the line, and one is
  sent every 39 ms.

### Fairness

- `CtrlDrive`: weak fairness of `main()`, which never waits for anything but the
  flag and the position; of a packet with a position, since proc_mcu keeps
  sending while the car is to drive; and strong fairness of `TestFix`: the loop
  that tests `distance_east` runs many thousand times between two packets, so
  if positions keep coming one of its tests sees one.
- `FusionTask`: weak fairness of the task (highest priority) and of the GPS,
  which goes on sending the position while it has one.
- `CarControl`: weak fairness of the GPS, both programs and the line; nothing
  strong, because a position that stays makes the test succeed.

Safety never depends on fairness. Deadlock is not checked in runs whose
bounded environment may come to an end (a sender that has sent its frames).

## 4. What the runs and proofs show

**Links.** Both receivers keep the promise of a lossy channel although mdtp has
no checksum: a frame put together from two would need more lost words between
two flags than a whole frame is long. The crc of the other link is not needed
for that. `package_counter` has no limit in the code; it can grow by one frame
for every two words lost since the last flag, which stays below 80 for seven
lost words: there must be room for `Inner * (1 + MaxGap \div 2)` words and those
of the command below (`Roomy`). With more the code writes behind the buffer, and
nothing is claimed. Adjustment bytes and crc are not
escaped: the promise is for payloads whose frames hold 0xff only as flags
(`Clean`). A packet reaches `proc_data` only when the
next begins, so the controller works with data one packet old.

The button that restarts the GPS cold sends its command of nine words over
UART4, the line to ctrl_mcu, where UART3 leads to the GPS. The first of them
triggers the unpacking of the packet that waits, as a header would; the others are
stored as words of a packet and thrown away when the next packet begins, as their
number is not `Inner` (*Promise*, *Resynchronised* with `MaxCold`). While no packets come
nothing empties the buffer: the tenth press in a row runs past it.

**Reception.** However late the handler is, words may be missing and are never
repeated, reordered or overwritten while being handed over: the DMA is stopped
from the end of a block to the handler's start, and always fills the other
buffer. A change of `uart2_dma_buffer_size` by a button is safe but for the one
block being filled.

**read_mcu.** The word after a packet triggers its unpacking and is not looked
at. If read_mcu fills its block of 16, that word is filler and every packet is
taken; if packets follow each other at once, it is the header of the next, and
of two in a row one is lost; of three at least one of the first two is
taken. Packets of the other kind, in the same buffer, never pass for one
another. After a change to fixed packets a variable one that was begun may
swallow words of them, 84 (`Room + 4`) at most, unless it has run past the buffer by
then (*LeavesVariable*). The length of a variable packet comes from the line and counts down in
eight bits to 3: only when another word is taken for it (a word before it was
lost) does a packet run past the buffer (*WithinBuffer*), with which the model ends.

**Motor.** The receiver of the three-byte packets keeps no state but what it
merges. What a packet with its first or last word lost leaves over from an
older one is found by the crc, whatever the bytes: packets that differ in the
first byte alone never have the same crc. With a middle word lost it need not be.

**Touch samples.** The ten readings are sorted, the first and the last left
out, the others averaged: one wild reading among them has no effect, and two
values that agree are both near the pen (*TakenIsNear*).

**Sorting.** The three sorts return what they were given, in order.

**Touch display.** `gui_form_update` reads `current_form` and the numbers of
its buttons and labels afresh at different points, without a lock, while a
callback changes them. It runs past the end of a list when a callback changes
to a form with a shorter one, or builds the displayed one again, at the wrong
moment, and at no other (*WalksInside*). A failed scan leaves the place of an earlier
touch, or one off the display, to act as a touch (`failed`). A second touch in the 220 ms before the
callback of the first makes a button act on a form that is displayed no more,
and a button without its form displayed can leave the size of the blocks of
read_mcu different from what the form needs (*SizeFits*). While one callback
calibrates the display, another can begin: its form is then replaced when the
first has done, which is the second way *SizeFits* names. A button that a torn
update left clicked acts with a later touch: *AsTouched* therefore speaks of a
touch that finds none clicked.

**EEPROM.** The calibration is written in two pages, with nothing that says
whether they belong together. What a reset leaves is new offsets with old
factors, never the reverse; and a save is lost if it comes while the EEPROM is
busy, which it does not say. There is no third way.

**SD card.** `retry--` in the condition makes an exhausted loop end with 65535,
so that a card that never became ready would be used, had not the next command
been asked for its result too: a card is used only when it is ready. A block the
card refuses stops the transfer, and the stop token that follows hides the
refusal: the write is reported as a success. So is a count of 256 or more.

**Steering.** The servo keeps between its stops and goes where it is told, if the
angle is one of 0 to 255; beyond, it may go to the wrong stop. The divisor
changes in steps of one transition but at the three dividing points themselves,
where it is negative and huge.

**Debug monitor.** A frame lost during registration blocks every later variable
but makes no row wrong; a value that is lost is shown when it changes again. A
scan that comes while the frames of the one before are being sent mixes the two,
and tears the frame the DMA is in: mdtp has no checksum, so what arrives has the pid
of one frame and data of both. *TableRight* says what this can spoil, the row or the
value the torn frame is taken for (`spoilt`, `unsure`), and that all others stay right.

**Sentences.** Where the blocks end makes no difference: the states 3 and 5 do
what 1 does. A sentence is understood as it was said if it is complete and the
end of the one before was; nothing else of the past matters. Lost words have three effects. A
lost CR joins two sentences, which `package_buffer` has no room for when both
hold a position (72 words and more each, in 80): the writes go behind it. The
theorems are of buffers that hold what is joined, as that of the run does; for
the 80 words of the code and sentences with a position this means no lost CR. A lost
LF costs the next sentence, whose '$' is taken in its place. The searches for
the star find it inside the buffer whatever other word is lost (*StaysInside*).

**Averaging.** No packet spoils more than one mean: the counts of sum and
number drift apart in a call, by no more than the packets of it, and the next call
ends that. But the number is a short, and while the task waits for a position
nobody clears it (finding 3).

**Control loop.** `lqr_flag` is cleared before `proc_data` is read, so an angle
computed from two packets is followed by one that is not. The motor starts
after 4 + 10 packets at the earliest, and a stop is final, since
`find_index` never goes back. Because the end is looked for once in ten cycles,
the index can be 90 beyond it, at 780 in arrays of 701 reference points.

**Fusion.** After the position is lost one packet at most is sent. The flag that
tells a filter to trust a position is shared with the interrupt: a position
may be trusted twice and never three times. The scan for a car that stands
still, with an interrupt in the middle and a register that holds an old
value, may be content with half of the equal positions, less half of one for
every further position that comes meanwhile: with the constants of the code 11
of the 30, where it asks for 22 if it is not interrupted.

**End to end.** A car put down where the GPS sees it starts.

### Findings

1. `device/sensor_decode.c:85`: the loop that restores the second group of a
   packet shifts the adjustment byte so that nothing is restored. North angle
   or speed with a byte 0xff arrive with it replaced by 0 (`proc_ctrl_tail`).
2. `proc_mcu/main.c:122`: the packet of zeros that is to tell ctrl_mcu that the
   position is lost is sent with `uart3_sendbyte`, to the GPS. The control loop,
   whose test of `distance_east` is commented "Ensure that the current
   positioning information is valid", never learns of the loss
   (`car_control_loss`); the property holds in the model when the packets
   are put on the line to ctrl_mcu.
3. `device/sensor_decode.c:134`: `small_packets_sum.num` overflows when 32768
   packets of read_mcu come while `fusion_task` waits for a position
   (`sensor_overflow`). The first mean afterwards has the wrong sign.
4. `math/riccati_solver.c:156`: the "Servo angular acceleration limit" compares
   the angle with `last_angle`, which keeps its initial value SERVO_MID_POINT:
   neither branch is ever taken and `DELTA_ANGLE` has no effect. There is no branch
   for an angle in the middle, so *AcceleratesSlowly* is about steps that start off
   it: `servo_rate` shows one from 150 to 140 where 149 is the limit. With
   `last_angle` assigned at the end of `lqr_control` the property holds.

## 5. Proofs

All theorems are about `Spec` for all values of the constants under the named
assumptions of the modules; those that need more say so with `ASSUME`.

| module | theorems | argument |
|---|---|---|
| `MdtpProofs` | `TypeCorrect`, `FrameTransparent`, `RoundTrip`, `PromiseKept` and `FramesKeptApart` (`MaxGap <= Width + 3`), `FoundAgain` | lemmas on bytes and frames; `LinkInv`, `ResyncInv` |
| `ProcCtrlProofs` | `CounterBounded`, `NoOverrun` (`Roomy`: `Inner * (1 + MaxGap \div 2) + MaxCold <= BufferSize`), `PromiseKept` and `FramesKeptApart` (`Roomy`, `Sparse`: `Apart`, `MaxGap <= Inner`, `MaxCold < Inner`, payloads clean and restorable), `FoundAgain` (`Roomy`, `MaxCold < Inner`, clean and restorable) | `CounterInv`; `LinkInv`, `ResyncInv` |
| `ReceptionProofs` | `BuffersApart`, `OneIsSpoilt`, `InOrder`; `ReadTypes`, `ReadWithinBuffer`, `ReadNeverOlder`, `FixedFoundAgain` (words are integers) | the two buffers as one sequence; `ReadInv`; `FixedInv`, `RestInv` |
| `CtrlDriveProofs` | `NewestUsed`, `StartIsLate`, `StopHolds`, `OverrunBounded`, `DriveKept` | `DriveInv` |
| `FusionProofs` | `TypeCorrect`, `OnePacketAfterLoss`, `TrustedTwice`, `FoundOnlyIfStanding` (`Burst <= SameMin`, `Burst <= Slots`) | `LateInv`, `WeighedInv`, `ScanInv` |
| `GpsProofs` | `TypeCorrect`, `CounterBounded`; `NoOverrun` (`Roomy`: `(MaxMissed + 1) * Longest <= BufferSize`), `StarIsFound` (`Roomy`, and no star is lost); `FoundAgain` (`Roomy`, a sentence has as many commas as are looked for) | the shape of a sentence; `CounterInv`, `StarInv`, `ResyncInv` |
| `PeripheralProofs` | EEPROM: `StoreTypes`, `NewestRestored`, `OffsetsAreNewer`, `StoreKept` | `StoreInv` |
| | card: `CardTypes`, `SuccessIsComplete`, `RefusalIsLast`, `CardKept` | `CardInv`, `ReadyInv` |
| | servo: `ServoFollows`, `ServoSteady` | `SteerInv`, and a case per branch of the divisor |
| | averages: `MeanIsRight`, `CountIsRight`, `BalanceKept` (`MaxPackets + 2 * Burst < ShortMax`) | `BalanceInv` |
| | motor: `SdtpTypesHold`, `SpeedsArrive` | what the crc tells apart; `SdtpInv` |
| | debug monitor: `DebugTypes`, `TableKept` | `DebugInv` |
| | touch samples: `PlaceIsNear` | sort and sum by induction; `TouchInv` |
| | sorts: `ArraysSorted` | an invariant per loop |
| | all of them: `TypesKept` (words are integers) | the composition implements each part |
| `TouchProofs` | `GuiInvariant`, `StateHolds`, `WalksStayInside`, `PressedAsTouched`, `NothingStaysClicked`, `SizesFit` | `GuiInv` |

*LinkInv.* That a link keeps its promise is not inductive: the content of the
buffer matters as soon as it is full. `LinkInv` says how the words in the buffer
fared: they are the frame on the line so far (`Following`), a whole frame whose
closing flag was lost (`Unclosed`), nothing (`Empty`), a frame too short to be
taken (`Short`), or a mixture for which so many words must have been lost that
the assumption on `MaxGap` is used up before it is full (`Mixed`). The same five
cases serve both links; the second has two more (`Over`, the counter beyond a
frame, and `Foreign`, words of the cold start command) and a frame that waits for the
next word (`Held`).

*ResyncInv.* That a link is found again holds for any loss its buffer has room for,
so nothing can be said of the buffer before the last frame received whole. The
invariant says what the receiver is in at each place of a frame if that and the
one before it arrived whole: before the flag of the second it waits for a
header or has just seen the closing flag of the first, and from there on the
buffer holds the words of the second so far. `LinkInv` is not used. That the buffer is not
overrun before is *CounterInv*, and part of what *FoundAgain* says.

*The queue of `PingPong`.* The abstract queue is what is left to hand over of
the full buffer followed by what is stored in the other. `InOrder` needs that
the two are never the same buffer (`BuffersOK`), and that a step of the handler
takes the head while a step of the DMA appends at the end.

*ReadInv.* The words in `package_buffer` belong to packets not newer than the
one on the line, and the first to one not older than the one taken last; since a
checksum only fits a packet that was sent as a whole, what is taken is never
older. The counter of a variable packet stays in the buffer because of the
length that was sent; `astray` is the state in which another word stands for it.

*RestInv.* A receiver amid a variable packet is done with it after as many
words as fill what is left of its buffer, or run past it, which is what a change of the kind
leaves; *FixedInv* then says, as *ResyncInv* does for the other links, what the
receiver is in at each word of a fixed packet after one that came whole.

*GPS.* The search for the star runs out of the buffer only if there is no star
behind the first word. `StarInv` says that one lies there, with room for the
checksum behind it, as soon as the star of the sentence on the line is out, or
at once if the sentence being copied began before that one. In
`ResyncInv` the end of a sentence leaves the receiver waiting for a `$`; from there
the buffer is the sentence so far, whose fields and checksum are then what
`Sentence` put there.

*StoreInv.* What a page holds once the EEPROM is done (`Settled`) is the newest
calibration unless its save was cut short or ignored, page by page in the order
of the two writes. *CardInv* counts: sectors moved and left add up to what was
asked for until one is refused, modulo what `cnt` can hold. *ReadyInv* relates
`retry` to the attempts made: it is `RetryValues - 2 - attempts` while a loop goes
on and wraps only when the card has not answered at the last of them.

*ServoSteady.* Within a branch the divisor is a rate and a multiple of `Slope`,
one more or less at the next point; at the end of a transition
`TRANSITION_SECTION` times `Slope` lead from one rate to the other, which is what
`SlopeAssumption` (the division leaves no rest) says.

*Loops.* The crc, the sort of the readings, their sum and the three sorts of
`sort.c` are loops over data of any length. Functions on 0 .. n, each value of
which follows from the one before, stand for them in the modules. That such a function
exists and that what every turn keeps holds of its last value is proved once
(`Induction`, `Recursion`, `LoopIs`), over the *sets* of numbers for which it
holds, from the well-foundedness of < on the naturals; what is left per loop is
one lemma on one turn. Heapsort: while an element sinks, the heap is whole but
for its place (`Sinking`), and what was taken from the head lies in order behind
what was not (`Behind`). Mergesort: what is written is drawn from places of its
own (`Drawn`) and not greater than what comes next; the blocks of a step are
apart, which is the one place where products of two variables matter
(`BlocksApart`). Quicksort: what is less than the pivot lies before the pointer
(`Apart`), and a depth of calls sorts every range that is not longer
(`SortsRanges`). That no element is lost or doubled is a permutation that moves
the range only (`Rearranged`), from which the counts follow (`AsOften`).

*Motor.* A word of a packet holds bits of two bytes, so that a lost one leaves a
mixture of two packets. `SdtpInv` says which bytes of the packet are in
`receive_buffer` if none or only the first of its words was lost; that the crc refuses the mixtures follows from its loop being
invertible: packets that differ in one byte alone have different crcs.

*DebugInv.* A frame in the buffer names a variable that is registered, and has
its value at the last scan unless two scans were mixed in the buffer, as they are
whenever a frame is torn. Each row that was begun is of the variable of its number, if
none of its frames was torn; a variable of which no frame
was lost shows its value at the last scan, or a frame still to be sent brings it.

*DriveInv* adds to the properties how many packets were taken at each statement
of the two loops, and how far the index can have moved since the last look at
the end, `Looks * (Window - 1)`.

*ScanInv.* What `same_counter` has counted is still in the ring but for the
slots overwritten since the last delay. If the row's own slot is one of them,
the slots counted are equal to its old content or to its new one, and the
larger of the two classes is half of the count at least. That it is
overwritten only once is what `Age`, the order of the ring, is needed for.

*GuiInv.* None of the five properties of the display is inductive, nor are all
five together: each depends on what the callbacks under way may still do.
`OrderInv` says how many there are and which: those before the last two have
begun to calibrate, only the last may be new, and none is while an update runs.
`ListInv` gives the lists of a form at each step of the callback that makes it,
which is the only one that does: two callbacks never make the same form.
`ReadyInv` says that a form that is displayed, walked over, clicked or about to
be returned to is whole or being made, and so is the form it is opened from. Then
`WalkInv`: while nothing an update walks over gets shorter, the numbers it read
fit what it walks over, and no callback that could cut it off is left.
`ClickInv`: while the form does not change under an update for a touch, the
buttons clicked are among those it has still to draw. `AimInv` says where the last
touch is, from the interrupt to the button. `SizeInv` says, for each callback and
each of its steps, which form is displayed and which size the blocks have, unless a
callback went astray. The proof goes through the ten kinds of statements and uses
of the scripts only lemmas on what can stand at which step.

Three things were wrong in what the runs had agreed to. *AsTouched* and
*SizeFits* failed beyond three touches in the cases named in section 4, a bound of
two on the callbacks under way was one of the instance and not of the code, and
*FixedResynchronised* held only because the run had one change of the kind: after
a change back a variable packet may be begun already, and *LeavesVariable* now
says for how long.

Every safety property a run checks is a theorem, but one: *Promise* of `GpsLink`,
that what passes the checksum of the GPS is a sentence. It is true of the characters
in the run and not of all (an exclusive or finds one missing character, and two
different ones only if they are not equal), and what it needs of the sentences
could only be said by repeating it. Liveness (`StopsAtEnd`, `SeenInTheEnd`,
`StartsInTheEnd`) is beyond the prover and only model-checked.

## 6. How it was built, and what is left

The order was: the two links; reception, control loop, fusion task and their
composition; GPS sentences and averaging; read_mcu's link, the motor's packets,
the servo; the display; EEPROM and card; the debug monitor; and the proofs of
each as TLC had agreed.

Properties that name what they leave out (`astray`, `spoilt`, `unsure`, a save cut
short, a block refused) say that nothing else goes wrong; what they leave out is a
weakness of the code and stays one. Two calibrations at once, which the touch
display allows in principle, are saved one after the other in `ParamStore`.

What could follow: *Promise* of `GpsLink` from a condition on the characters;
the simulation of `FusionTask` and `CtrlDrive` by `CarControl`.

## 7. Not modelled

- Floating-point code: the arithmetic of the Kalman filter and of the Riccati
  iteration, the calibration of the magnetometer, `filter.c`, `fast_math.c`, the
  conversion of units and of positions. What matters of it is numbers and not
  states, and TLA+ has neither rounding nor a range to check them over. Where its
  result decides something it is any value of a set (`find_index`, the angle of
  the servo).
- Configuration of the peripherals (`hardware/*.c`): register writes in a fixed
  order, whose effect is only in the chip. What the other parts rely on of it
  (the DMA in normal mode, one word in a UART) is in their modules.
- The LCD and what draws on it: pixels that nothing reads.
- The bits on the bus of the EEPROM (`iic.c`), the bytes of a command to the SD
  card: each is one step. Every write of the program to the EEPROM is one whole page, so
  that the division of longer ones (`at24c02_writepage`) never happens.
- The buffers of `printf` and the terminal of the PC tool: text.
- The plot, the joystick and the windows of the PC tool: input and output
  without a state another part depends on. Its framing is that of `MdtpLink`.
- The test bench: tests of the numeric code.
- Vendored code, by far most of the lines of the repository: FreeRTOS, FatFs, the
  vendor's library, CMSIS, `printf`, QCustomPlot and QSimpleUpdater. What the
  modules rely on of it (a queue that drops what does not fit, tasks of one
  priority being sliced, a task that is suspended until resumed) is in their
  actions.

`PROJECT.json` gives the reason for each component.
