------------------------------ MODULE InputLife ------------------------------
(* What an InputHook promises its script.  An input is off, in progress, or over:
   ended without the script having been told.  Each end is told once, by OnEnd if
   there is one and a thread for it; an input that is over is off once it has been
   told of.  OnChar and OnKeyDown come only from the start of an input until its
   end has been told.  An end that is told late tells of nothing when the input is
   off by then, and leaves it in progress when it was started again.             *)
EXTENDS Integers, Sequences

CONSTANT Inputs

VARIABLES
  stage,   \* of each input: "off", "on" or "over"
  ends,    \* of each input: its ends not told yet
  frames   \* the callbacks that run, the newest last

life == <<stage, ends, frames>>

Callback(kind, i) == [kind |-> kind, input |-> i]
Runs(kind, i) == frames' = Append(frames, Callback(kind, i))

Init ==
  /\ stage = [i \in Inputs |-> "off"]
  /\ ends = [i \in Inputs |-> 0]
  /\ frames = <<>>

Start(i) ==
  /\ stage[i] # "on"
  /\ stage' = [stage EXCEPT ![i] = "on"]
  /\ UNCHANGED <<ends, frames>>

(* By the script, by a key or by the timeout; by two of them at once, too. *)
End(i) ==
  /\ stage[i] # "off"
  /\ stage' = [stage EXCEPT ![i] = "over"]
  /\ ends' = [ends EXCEPT ![i] = @ + 1]
  /\ UNCHANGED frames

Tell(i) ==
  /\ ends[i] > 0 /\ stage[i] # "off"
  /\ ends' = [ends EXCEPT ![i] = @ - 1]
  /\ stage' = [stage EXCEPT ![i] = IF @ = "over" THEN "off" ELSE @]
  /\ Runs("end", i) \/ UNCHANGED frames

Forget(i) ==
  /\ ends[i] > 0 /\ stage[i] = "off"
  /\ ends' = [ends EXCEPT ![i] = @ - 1]
  /\ UNCHANGED <<stage, frames>>

Char(i) == stage[i] # "off" /\ Runs("char", i) /\ UNCHANGED <<stage, ends>>

Return ==
  /\ frames # <<>>
  /\ frames' = SubSeq(frames, 1, Len(frames) - 1)
  /\ UNCHANGED <<stage, ends>>

Next == Return \/ \E i \in Inputs : Start(i) \/ End(i) \/ Tell(i) \/ Forget(i) \/ Char(i)

Spec == Init /\ [][Next]_life
=============================================================================
