---------------------------- MODULE ImageGeometry ----------------------------
(* How a sample's image reaches the fixed canvas of the compiled graphs and   *)
(* how the coordinates of its answer follow it: model/contract.py, prepare.py *)
(* and, to read the coordinates back, the C++ runtime.  Ratios are kept as    *)
(* fractions; the rounding of a float scale is not modelled.                  *)
EXTENDS Integers, Sequences

CONSTANTS
  Canvases,      \* [width, height] of the compiled graph
  Modes,         \* --resize-mode
  PatchSize, MergeSize, HiddenSize, Channels,
  PrefillLimits,
  Sources,       \* [width, height] of source images
  Responses,     \* the numbers of one <box> of a target response
  TextTokens,    \* tokens of the prompt beside the image's
  OtherGrids     \* grids a processor may also answer with

ASSUME GeometryAssumption ==
  /\ \A canvas \in Canvases : canvas.width \in Int /\ canvas.height \in Int
  /\ Modes \subseteq {"letterbox", "stretch"}
  /\ PatchSize \in Nat \ {0} /\ MergeSize \in Nat \ {0}
  /\ PrefillLimits \subseteq Int /\ TextTokens \subseteq Int
  /\ \A image \in Sources :
       image.width \in Nat \ {0} /\ image.height \in Nat \ {0}
  /\ Responses \subseteq Seq(Nat)

VARIABLES
  step,
  profile,   \* build_fixed_profile
  source,
  layout,    \* spatial_transform
  response,  \* the numbers of the box, in the source and on the canvas
  inputs     \* what the sample keeps of the processor's answer

geometryVars == <<step, profile, source, layout, response, inputs>>

Least(a, b) == IF a < b THEN a ELSE b
Greatest(a, b) == IF a < b THEN b ELSE a
Distance(a, b) == Greatest(a - b, b - a)

(* Python's round and C++'s lround, of a fraction that is not negative.       *)
Round(n, d) ==
  LET low == n \div d
      rest == 2 * (n % d)
  IN IF rest > d \/ (rest = d /\ low % 2 = 1) THEN low + 1 ELSE low

LRound(n, d) == (2 * n + d) \div (2 * d)

------------------------------------------------------------------------------

CanvasAccepted(canvas) ==
  /\ canvas.width > 0 /\ canvas.height > 0
  /\ canvas.width % (PatchSize * MergeSize) = 0
  /\ canvas.height % (PatchSize * MergeSize) = 0

(* derive_vision_profile, for a canvas it accepts, and the limit on prompts   *)
(* build_fixed_profile adds.                                                  *)
VisionProfile(canvas, mode, limit) ==
  LET rows == canvas.height \div PatchSize
      columns == canvas.width \div PatchSize
      tokens == (rows * columns) \div (MergeSize * MergeSize)
  IN [width |-> canvas.width, height |-> canvas.height, mode |-> mode,
      grid |-> <<rows, columns>>,
      visionInput |-> <<1, rows * columns, Channels * PatchSize * PatchSize>>,
      visualTokens |-> tokens,
      projected |-> <<1, tokens, HiddenSize>>,
      prefillLimit |-> limit, remaining |-> limit - tokens]

(* The graph must have room left for text.                                    *)
FixedProfiles(canvas, mode, limit) ==
  {fixed \in {VisionProfile(canvas, mode, limit)} :
     CanvasAccepted(canvas) /\ limit > fixed.visualTokens}

------------------------------------------------------------------------------
(* prepare_profile_image.  Letterbox keeps the proportions: the scale is the  *)
(* smaller of the two ratios.                                                 *)
ScaleOf(canvas, image) ==
  IF canvas.width * image.height <= canvas.height * image.width
  THEN [num |-> canvas.width, den |-> image.width]
  ELSE [num |-> canvas.height, den |-> image.height]

Resized(length, limit, scale) ==
  Least(limit, Greatest(1, Round(length * scale.num, scale.den)))

Placed(resized, limit) ==
  LET before == (limit - resized) \div 2
  IN [size |-> resized, before |-> before, after |-> limit - resized - before]

Layout(canvas, mode, image) ==
  LET scale == ScaleOf(canvas, image)
      across(length, limit) ==
        Placed(IF mode = "stretch" THEN limit ELSE Resized(length, limit, scale), limit)
  IN [x |-> across(image.width, canvas.width), y |-> across(image.height, canvas.height)]

\* Mutant: the runtime cuts the fraction off.
RuntimePlacedFloor(length, limit, scale) ==
  LET size == Greatest(1, Least(limit, (length * scale.num) \div scale.den))
  IN [size |-> size, before |-> (limit - size) \div 2]

(* ImagePreprocessor::Prepare of the runtime.                                 *)
RuntimePlaced(length, limit, scale) ==
  LET size == Greatest(1, Least(limit, LRound(length * scale.num, scale.den)))
  IN [size |-> size, before |-> (limit - size) \div 2]

RuntimeLayout(canvas, mode, image) ==
  LET scale == ScaleOf(canvas, image)
      across(length, limit) == IF mode = "stretch" THEN [size |-> limit, before |-> 0]
                               ELSE RuntimePlaced(length, limit, scale)
  IN [x |-> across(image.width, canvas.width), y |-> across(image.height, canvas.height)]

------------------------------------------------------------------------------

(* transform_coordinate: thousandths of the source to thousandths of the      *)
(* canvas.                                                                    *)
CanvasCoordinate(value, placed, limit) ==
  Greatest(0, Least(1000, Round(value * placed.size + 1000 * placed.before, limit)))

(* transform_target_response; none if it raises.                              *)
Transformed(numbers) ==
  IF Len(numbers) \notin {2, 4} \/ \E i \in DOMAIN numbers : numbers[i] > 1000 THEN {}
  ELSE {[i \in DOMAIN numbers |->
           IF i % 2 = 1 THEN CanvasCoordinate(numbers[i], layout.x, profile.width)
           ELSE CanvasCoordinate(numbers[i], layout.y, profile.height)]}

(* RestoreCoordinate of the runtime, in thousandths of the resized image.     *)
Restored(value, placed, limit) ==
  Greatest(0, Least(1000 * placed.size, value * limit - 1000 * placed.before))

------------------------------------------------------------------------------
(* What the model's processor may return for an image of the canvas's size:   *)
(* patches flat, with channels, or in a batch, and the grid it cut.           *)
PixelShapes(patches) ==
  LET flat == Channels * PatchSize * PatchSize
  IN {<<patches, flat>>, <<patches, Channels, PatchSize, PatchSize>>,
      <<1, patches, flat>>, <<2, patches, flat>>}
Answers(limit) ==
  UNION {[pixels : PixelShapes(grid[1] * grid[2]), grid : {grid},
          ids : {text + (grid[1] * grid[2]) \div (MergeSize * MergeSize) : text \in TextTokens}] :
         grid \in {profile.grid} \cup OtherGrids}

(* pixel_values as a matrix, or none.                                         *)
Flattened(shape) ==
  CASE Len(shape) = 4 -> {<<shape[1], shape[2] * shape[3] * shape[4]>>}
    [] Len(shape) = 3 /\ shape[1] = 1 -> {Tail(shape)}
    [] Len(shape) = 2 -> {shape}
    [] OTHER -> {}

GridAccepted(grid) == grid = profile.grid

(* prepare_native_inputs.                                                     *)
AcceptedInputs(answer) ==
  LET projected == <<1, (answer.grid[1] * answer.grid[2]) \div (MergeSize * MergeSize),
                     HiddenSize>>
  IN {[vision |-> <<1>> \o pixels, grid |-> answer.grid,
       projected |-> projected, ids |-> answer.ids] :
      pixels \in {p \in Flattened(answer.pixels) :
                    /\ <<1>> \o p = profile.visionInput
                    /\ GridAccepted(answer.grid)
                    /\ projected = profile.projected
                    /\ answer.ids <= profile.prefillLimit}}

------------------------------------------------------------------------------
NoProfile == VisionProfile([width |-> 0, height |-> 0], "none", 0)
NoLayout == [x |-> Placed(0, 0), y |-> Placed(0, 0)]
NoInputs == [vision |-> <<>>, grid |-> <<>>, projected |-> <<>>, ids |-> 0]

GeometryInit ==
  /\ step = "profile" /\ profile = NoProfile
  /\ source = [width |-> 0, height |-> 0] /\ layout = NoLayout
  /\ response = [source |-> <<>>, canvas |-> <<>>] /\ inputs = NoInputs

BuildProfile ==
  /\ step = "profile"
  /\ \E canvas \in Canvases, mode \in Modes, limit \in PrefillLimits :
       profile' \in FixedProfiles(canvas, mode, limit)
  /\ step' = "image"
  /\ UNCHANGED <<source, layout, response, inputs>>

PrepareImage ==
  /\ step = "image"
  /\ source' \in Sources
  /\ layout' = Layout(profile, profile.mode, source')
  /\ step' = "inputs"
  /\ UNCHANGED <<profile, response, inputs>>

PrepareInputs ==
  /\ step = "inputs"
  /\ \E answer \in Answers(profile.prefillLimit) : inputs' \in AcceptedInputs(answer)
  /\ step' = "response"
  /\ UNCHANGED <<profile, source, layout, response>>

TransformResponse ==
  /\ step = "response"
  /\ \E numbers \in Responses : \E moved \in Transformed(numbers) :
       response' = [source |-> numbers, canvas |-> moved]
  /\ step' = "image"
  /\ UNCHANGED <<profile, source, layout, inputs>>

GeometryNext == BuildProfile \/ PrepareImage \/ PrepareInputs \/ TransformResponse
GeometrySpec == GeometryInit /\ [][GeometryNext]_geometryVars

------------------------------------------------------------------------------
Prepared == step \in {"inputs", "response"}
Answered == step = "image" /\ response.source # <<>>

(* Values of the variables; the image and its padding make up the canvas.     *)
GeometryTypeOK ==
  /\ step \in {"profile", "image", "inputs", "response"}
  /\ Prepared =>
       /\ layout.x.size \in 1 .. profile.width /\ layout.y.size \in 1 .. profile.height
       /\ layout.x.before + layout.x.size + layout.x.after = profile.width
       /\ layout.y.before + layout.y.size + layout.y.after = profile.height
  /\ Len(response.source) = Len(response.canvas)

(* A letterboxed image touches two opposite sides of the canvas, lies in its  *)
(* middle, and keeps its proportions within the half pixel rounding costs,    *)
(* or has the one pixel that is left of a very thin image.                    *)
LetterboxKeepsProportions ==
  Prepared /\ profile.mode = "letterbox" =>
    /\ layout.x.size = profile.width \/ layout.y.size = profile.height
    /\ layout.x.after - layout.x.before \in {0, 1}
    /\ layout.y.after - layout.y.before \in {0, 1}
    /\ LET off == 2 * Distance(layout.x.size * source.height, layout.y.size * source.width)
       IN \/ layout.x.size = profile.width /\ (off <= source.width \/ layout.y.size = 1)
          \/ layout.y.size = profile.height /\ (off <= source.height \/ layout.x.size = 1)

(* The runtime lays an image out as calibration did, to a pixel, although     *)
(* one rounds halves to even and the other away from zero.                    *)
RuntimeLaysOutAlike ==
  Prepared =>
    LET runtime == RuntimeLayout(profile, profile.mode, source)
    IN \A axis \in {"x", "y"} :
         /\ Distance(runtime[axis].size, layout[axis].size) <= 1
         /\ Distance(runtime[axis].before, layout[axis].before) <= 1
         /\ runtime[axis].size >= layout[axis].size

(* Corners of a box keep their order and stay on the image.                   *)
BoxesStayOnImage ==
  Answered =>
    \A i, j \in DOMAIN response.source :
      LET axis == IF i % 2 = 1 THEN layout.x ELSE layout.y
          limit == IF i % 2 = 1 THEN profile.width ELSE profile.height
          at == response.canvas[i] * limit
      IN /\ i % 2 = j % 2 /\ response.source[i] <= response.source[j] =>
              response.canvas[i] <= response.canvas[j]
         /\ 2 * at >= 2000 * axis.before - limit
         /\ 2 * at <= 2000 * (axis.before + axis.size) + limit

(* A coordinate trained on is read back by the runtime's RestoreCoordinate    *)
(* where it was in the source, within half a step of the canvas, and one      *)
(* pixel where the two layouts differ.                                        *)
RestoredWhereItWas ==
  Answered =>
    LET runtime == RuntimeLayout(profile, profile.mode, source)
    IN \A i \in DOMAIN response.source :
         LET axis == IF i % 2 = 1 THEN "x" ELSE "y"
             limit == IF i % 2 = 1 THEN profile.width ELSE profile.height
             allowed == IF runtime[axis].size = layout[axis].size THEN limit
                        ELSE limit + 2000
         IN 2 * Distance(Restored(response.canvas[i], runtime[axis], limit),
                         response.source[i] * runtime[axis].size) <= allowed

(* A sample is kept only if its patches lie as those of the compiled graph    *)
(* do, rows as rows, and its prompt fits beside its visual tokens.            *)
InputsFitGraph ==
  step = "response" =>
    /\ inputs.vision = profile.visionInput /\ inputs.projected = profile.projected
    /\ inputs.grid[1] * PatchSize = profile.height
    /\ inputs.grid[2] * PatchSize = profile.width
    /\ inputs.ids - profile.visualTokens <= profile.remaining

(* Patches and visual tokens cover the canvas: nothing of it is cut off when  *)
(* patches are merged.                                                        *)
TokensCoverCanvas ==
  step # "profile" =>
    profile.visualTokens * (PatchSize * MergeSize) * (PatchSize * MergeSize)
      = profile.width * profile.height

(* All of these of one sample after another.                                  *)
GeometrySound ==
  /\ GeometryTypeOK /\ LetterboxKeepsProportions /\ RuntimeLaysOutAlike /\ BoxesStayOnImage
  /\ RestoredWhereItWas /\ InputsFitGraph /\ TokensCoverCanvas
==============================================================================
