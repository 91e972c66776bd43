-------------------------------- MODULE Frame --------------------------------
(***************************************************************************)
(* The geometry of a frame: what FRAME makes of binning, start and size     *)
(* (Camera::SetFrame), what the driver accepts of it, and the image that is *)
(* saved with it (Camera::SaveFITS).  Exposure says when an image is saved; *)
(* here it is saved at once.                                               *)
(***************************************************************************)
EXTENDS Integers

CONSTANTS
  Detector,   \* Detector[a]: detector_Xsize and detector_Ysize
  MaxBin,     \* the largest binning of the driver
  Limit,      \* an int is at least -Limit and less than Limit
  Frames,     \* arguments of FRAME: for each axis binning, start and size
  MaxFrames   \* bound: how often FRAME and INIT are executed

Axes == {"X", "Y"}

CInt == -Limit .. Limit - 1
Args == [bin : CInt, start : CInt, size : CInt]

ASSUME FrameAssumption ==
  /\ Limit \in Nat \ {0} /\ MaxBin \in 1..(Limit - 1)
  /\ Detector \in [Axes -> 1..(Limit - 1)]
  /\ Frames \subseteq [Axes -> Args]
  /\ MaxFrames \in Nat

VARIABLES
  frame,   \* currentImage_start*, currentImage_bin*, currentImage_*size
  driver,  \* the region and binning that the driver reads out
  asked,   \* history: arguments of the last FRAME
  answer,  \* its answer; "crash" if the process has died of it
  image,   \* what became of the image, and the region in its header
  frames   \* how often FRAME and INIT were executed

vars == <<frame, driver, asked, answer, image, frames>>

-----------------------------------------------------------------------------
(* Arithmetic of C++: ints that overflow wrap, division truncates, and the  *)
(* remainder has the sign of the dividend.                                  *)

Wrap(n) == ((n + Limit) % (2 * Limit)) - Limit
Quotient(n, d) == IF n < 0 THEN -((-n) \div d) ELSE n \div d
Magnitude(n) == IF n < 0 THEN -n ELSE n
Remainder(n, d) ==
  IF n < 0 THEN -((-n) % Magnitude(d)) ELSE n % Magnitude(d)

-----------------------------------------------------------------------------
(* SetFrame, for one axis of n pixels.                                     *)

Start(a) == IF a.start < 1 THEN 1 ELSE a.start

\* The last pixel, if the detector were large enough (mutant: the one after it).
Last_Past(a) == Wrap(Start(a) + a.bin * a.size)
Last(a) == Wrap(Start(a) + a.bin * a.size - 1)

\* The remainder is taken by the binning that was asked for, and not by Bin.
DividesByZero(a, n) == Last(a) > n /\ a.bin = 0
End(a, n) ==
  IF Last(a) > n THEN n - Remainder(n - Start(a) + 1, a.bin) ELSE Last(a)

Bin(a) == IF a.bin < 1 THEN 1 ELSE a.bin

\* In binned pixels (mutants: one less; as it was asked for).
Size_Short(a, n) == Quotient(Wrap(End(a, n) - Start(a)), Bin(a))
Size_Asked(a, n) == a.size
Size(a, n) == Wrap(Quotient(Wrap(End(a, n) - Start(a)), Bin(a)) + 1)

\* SetImage of the driver (external) is told the start that was asked for, and
\* takes a region of whole bins inside the detector.
SetImage(bin, start, end, n) ==
  /\ 1 <= start /\ start <= end /\ end <= n
  /\ bin <= MaxBin
  /\ (end - start + 1) % bin = 0

Accepted(a, n) == SetImage(Bin(a), a.start, End(a, n), n)

-----------------------------------------------------------------------------
FullFrame == [x \in Axes |-> [bin |-> 1, start |-> 1, size |-> Detector[x]]]

NoImage == [status |-> "none"]

\* InitCamera has set the whole detector.
Init ==
  /\ frame = FullFrame /\ driver = FullFrame
  /\ asked = FullFrame /\ answer = "OK"
  /\ image = NoImage
  /\ frames = 0

\* INIT resets the region that an earlier FRAME has left.
InitCamera ==
  /\ answer # "crash"
  /\ frames < MaxFrames
  /\ frame' = FullFrame /\ driver' = FullFrame
  /\ asked' = FullFrame /\ answer' = "OK"
  /\ image' = NoImage
  /\ frames' = frames + 1

\* The members are assigned whatever the driver answers.
SetFrame(f) ==
  /\ answer # "crash"
  /\ frames < MaxFrames
  /\ asked' = f
  /\ IF \E x \in Axes : DividesByZero(f[x], Detector[x])
     THEN answer' = "crash" /\ UNCHANGED <<frame, driver>>
     ELSE /\ frame' = [x \in Axes |-> [bin |-> Bin(f[x]), start |-> Start(f[x]),
                                       size |-> Size(f[x], Detector[x])]]
          /\ IF \A x \in Axes : Accepted(f[x], Detector[x])
             THEN /\ answer' = "OK"
                  /\ driver' = [x \in Axes |->
                       [bin |-> Bin(f[x]), start |-> f[x].start,
                        size |-> (End(f[x], Detector[x]) - f[x].start + 1)
                                   \div Bin(f[x])]]
             ELSE answer' = "refused" /\ UNCHANGED driver
  /\ image' = NoImage
  /\ frames' = frames + 1

\* The number of pixels of a region, as an int.
Pixels(f) == Wrap(f["X"].size * f["Y"].size)

\* SaveFITS: a negative size of the buffer is a huge one, which new[] refuses
\* or the driver does; the driver wants a buffer of exactly its pixels; CFITSIO
\* refuses a negative side.
SaveFITS ==
  /\ answer # "crash"
  /\ image = NoImage
  /\ \/ Pixels(frame) < 0 /\ image' = [status |-> "BADALLOC"]
     \/ Pixels(frame) # Pixels(driver) /\ image' = [status |-> "P2INVALID"]
     \/ /\ Pixels(frame) = Pixels(driver)
        /\ image' = IF \E x \in Axes : frame[x].size < 0 THEN [status |-> "CFITSIO"]
                    ELSE [status |-> "saved", header |-> frame]
  /\ UNCHANGED <<frame, driver, asked, answer, frames>>

Next == InitCamera \/ (\E f \in Frames : SetFrame(f)) \/ SaveFITS

Spec == Init /\ [][Next]_vars

-----------------------------------------------------------------------------
(* Properties.                                                             *)

\* The arguments are those that the client lets through (client/main.cpp:196),
\* and the last pixel that they ask for is an int.
NoOverflow ==
  \A x \in Axes :
    LET a == asked[x]
    IN a.bin >= 0 /\ Start(a) + a.bin * a.size - 1 \in CInt

\* How many bins there are from the start to the end of the detector.
Room(a, n) == (n - a.start + 1) \div a.bin

\* FRAME succeeds exactly when it asks for at least one bin, of a binning that
\* the driver has, that lies on the detector; it kills the server exactly when
\* the binning is 0 and the start is beyond the pixel after the last one
\* (camera.cpp:517; client/main.cpp:196 lets such arguments through).
AnsweredRight ==
  NoOverflow =>
    /\ answer = "OK" <=>
         \A x \in Axes :
           LET a == asked[x]
           IN /\ a.bin \in 1..MaxBin /\ a.start \in 1..Detector[x]
              /\ a.size >= 1 /\ Room(a, Detector[x]) >= 1
    /\ answer = "crash" <=>
         \E x \in Axes : asked[x].bin = 0 /\ asked[x].start > Detector[x] + 1

\* When FRAME succeeds the driver reads out what was asked for, less the bins
\* that do not fit, and the members say the same.
RegionRight ==
  answer = "OK" =>
    /\ frame = driver
    /\ NoOverflow =>
         \A x \in Axes :
           LET a == asked[x]
               room == Room(a, Detector[x])
           IN driver[x] = [a EXCEPT !.size = IF @ < room THEN @ ELSE room]

\* An image has a header with another region than its own, or is lost because
\* of the region, only after a FRAME that was refused; no client of this
\* repository starts an exposure then, but the next one may.
ImageTruthful ==
  image # NoImage /\ answer # "refused" =>
    image.status = "saved" /\ image.header = driver
=============================================================================
