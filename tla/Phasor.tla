------------------------------- MODULE Phasor -------------------------------
(***************************************************************************)
(* The arithmetic of pkg/sv: sample windows, the one-cycle DFT, and the    *)
(* restraint characteristic.  With four samples per cycle (a sample rate   *)
(* of 200) every entry of the sine and cosine tables is 0, 1 or -1, and a  *)
(* phasor is exact: it is kept doubled, [re, im] = 2 * (Real, Imag).       *)
(* Samples and phasors are in thousandths of the unit of current; so are   *)
(* magnitudes, rounded down, and a current behind the transformers is in   *)
(* millionths.  The code computes with float64: where a current is exactly *)
(* at a threshold its last bit decides.                                    *)
(***************************************************************************)
EXTENDS Integers, SequencesExt

CONSTANT BufferCycles    \* 5 in buffer.go

ASSUME PhasorAssumption == BufferCycles \in Nat \ {0}

SamplesPerCycle == 4
BufferSize      == SamplesPerCycle * BufferCycles

Wave == <<0, 1, 0, -1>>                       \* sin(2 pi k / 4)
GenerateSineWave(amplitude, k) == amplitude * Wave[(k % SamplesPerCycle) + 1]

-----------------------------------------------------------------------------
(* ChannelBuffer.                                                          *)

EmptyBuffer == [cell |-> [i \in 0..(BufferSize - 1) |-> 0],
                writeIndex |-> 0, full |-> FALSE]

Push(cb, value) ==
  LET w == (cb.writeIndex + 1) % BufferSize
  IN [cell |-> [cb.cell EXCEPT ![cb.writeIndex] = value],
      writeIndex |-> w, full |-> cb.full \/ w = 0]

AvailableSamples(cb) == IF cb.full THEN BufferSize ELSE cb.writeIndex

StartFromZero(cb, n) == 0
WindowStart(cb, n) == (cb.writeIndex - n + BufferSize) % BufferSize
GetLastN(cb, n) ==
  [i \in 1..n |-> cb.cell[(WindowStart(cb, n) + i - 1) % BufferSize]]

-----------------------------------------------------------------------------
ZeroPhasor == [re |-> 0, im |-> 0]

(* DFTProcessor.ComputePhasor: the cosine table is 1, 0, -1, 0, the sine   *)
(* table 0, 1, 0, -1, and the factors are 2/4 and -2/4.                    *)
ComputePhasor(x) == [re |-> x[1] - x[3], im |-> x[4] - x[2]]

Plus(p, q) == [re |-> p.re + q.re, im |-> p.im + q.im]
Sub(p, q)  == [re |-> p.re - q.re, im |-> p.im - q.im]

Abs(n) == IF n < 0 THEN -n ELSE n

Larger(m, n) == IF m < n THEN n ELSE m

(* Half the root of re^2 + im^2: between half the larger of the two and    *)
(* half their sum.                                                         *)
Mag(p) ==
  LET re == Abs(p.re)
      im == Abs(p.im)
  IN CHOOSE r \in (Larger(re, im) \div 2)..((re + im) \div 2) :
       /\ 4 * r * r <= p.re * p.re + p.im * p.im
       /\ p.re * p.re + p.im * p.im < 4 * (r + 1) * (r + 1)

(* RestraintCharacteristic with the values DefaultRestraintCharacteristic  *)
(* gives it; DifferentialProtection never has others.                      *)
MinTrip == 200000
TripThreshold(iresMag) ==
  IF iresMag <= 500000 THEN MinTrip
  ELSE IF iresMag <= 2000000 THEN MinTrip + (3 * (iresMag - 500000)) \div 10
  ELSE 650000 + (5 * (iresMag - 2000000)) \div 10

RatioOnly(idiffMag, iresMag) == idiffMag > 2 * iresMag
CheckRestraint(idiffMag, iresMag) == idiffMag > TripThreshold(iresMag)
=============================================================================
