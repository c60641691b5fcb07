# TLA+ models of the touchless tutorials

These modules model the browser tutorials under `src/docs/` and check them with TLC.
The pages load the `jsg/` builds. The `js/` files are older copies.

## The system

- **Controller (`win/static-docs/jsg/init.js`).** One `LeapController` has three handlers.
  - `frame` stores `currentFrame`. On the very first frame it copies that frame to `oldFrame` and calls `deviceConnect()` on every active tutorial. Then it calls `draw()` on every active tutorial, in registration order. Last, it archives the frame as `oldFrame`.
  - `deviceConnected` and `deviceDisconnected` call `deviceConnect()` and `deviceDisconnect()` on every active tutorial.
- **Tutorials (`mac/static-docs/jsg/TUTORIAL.js`, `numberOfTutorial.js`).**
  - The constructor hides the canvas and the plug-in image.
  - It arms a one-shot 1 s timer. When the timer fires and `pluggedIn` is falsy, it shows the plug-in image.
  - `deviceConnect` and `deviceDisconnect` set `pluggedIn` and swap the two displays.
  - numberOf keeps its area in the page's `#interactiveArea`. Its timer also hides that area. Its `deviceDisconnect` sets `pluggedIn = true`.
- **Smoothing buffer.** Each tutorial's `draw()` keeps a history array, `frameTipSpeeds` or `hands`/`fingers`.
  - Each frame it writes slot 0 and then shifts the array down by one slot.
  - `getAverageFromArray` averages the array.
- **Button (`BUTTON.js`).**
  - `checkInside(pos)` sets the hover colour. When the position is inside, the button becomes the owner's `currentButton`. When it is outside, the button clears `currentButton`, but only if it holds it.
  - `draw()` fades the click box by `.01` per call while its alpha is `>= 0`.
- **touchSpeed (`touchSpeedTutorial.js`).**
  - Fourteen nested buttons.
  - A hover→touch transition of the first pointable is a click. The click lights the current button in green or red, depending on the average tip speed.
- **readMore (`readMoreTutorial.js`).** Two buttons. A hover→touch transition sets `window.location` to the current button's page.
- **numberOf (`numberOfTutorial.js`).** `draw()` writes the frame's hand and pointable counts to slot 0 of `hands` and `fingers`. It then shifts both arrays down, copying a slot only when its `hands` entry is truthy. It shows `Math.round` of the finger average as the counter and lights the diagram elements for 1, 2 or more fingers.
- **touchScroll (`touchScrollTutorial.js`).** While some pointable touches, `draw()` adds a tenth of the hand's translation to `speed`. Each frame it then adds `speed` to the grid `offset`, wraps the offset once into `[0, size]`, and multiplies `speed` by the momentum `.98`.
- **touchDistance.** A canvas animation of the current frame's `touchDistance`. It keeps no state.

Everything runs on the browser's single-threaded event loop. So each handler, and each timer callback, is one atomic step, and the steps interleave in any order. The interleavings that matter are:
- frames against device events;
- the timer against both.

## Modules

| module | models | state ↔ code |
|---|---|---|
| `Tutorial` | the TUTORIAL and numberOf lifecycle | `pluggedIn` (TRUE / FALSE / `Undefined`), `areaShown` (canvas or `#interactiveArea` display), `plugInShown`, `timerArmed` |
| `Controller` | init.js handlers, without `draw()` | `currentFrame`, `oldFrame`; `DrawFrames(f)` is the `<<frame, oFrame>>` pair every `draw()` reads |
| `Dispatcher` | Controller over several tutorials | no state of its own; `draw()` is abstracted away |
| `DeviceView` | abstract lifecycle (spec.md 4.5) | `conn`, `view` per tutorial |
| `SmoothingBuffer` | history arrays, getAverageFromArray | operators only; JS arrays are functions over `0..k` |
| `Button` | BUTTON | operators; the button state lives in the owner |
| `Scene` | canvas size, `leapToScene`, frame abstraction | constants only |
| `TouchSpeed` | touchSpeed `draw()` and `init()` | `fingerPos`, `currentlyTouching`, `touchSpeed`, `frameTipSpeeds`, `currentButton`, `hovered`, `clickBox`; `recent` is a history variable: the last tip speed pushed and how many frames in a row pushed it (up to `tipSpeedNum`) |
| `ReadMore` | readMore `draw()` and `init()` | `fingerPosition`, `currentButton`, `hovered`, `location`, `assigned`, `clickBox` (never lit; `draw()` fades it from 0 to one step below) |
| `NumberOf` | numberOf `draw()` | `hands`, `fingers`, `display` (counter value, colour, highlighted elements); `streak` is a history variable counting repeats of the current frame |
| `TouchScroll` | touchScroll `draw()` | `offset`, `speed` per axis; `frames` bounds the frame events; `fast` is a history variable: some frame moved more than a cell |

### How the modules fit together

- Each tutorial module EXTENDS `Controller`. Its `Frame(f)` is `OnFrame(f) /\ Draw(DrawFrames(f))`, which is the whole frame handler: the first-frame connect, the `draw()`, and the archive step.
- `Dispatcher` leaves `draw()` out: the lifecycle properties it checks read nothing a draw changes.
- `Dispatcher` maps its lifecycle state onto `DeviceView` with `INSTANCE ... WITH`:
  - `pluggedIn = TRUE` maps to `"connected"`;
  - the two displays map to `"area"` / `"plugIn"` / `"blank"`.

### Data abstractions

- **Frames.** A frame is either `NoPointable` or a record of its first pointable: `zone`, `pos` and `vz`. That first pointable is the only part of a frame that touchSpeed and readMore read.
- **Averages.** An average is the exact fraction `<<total, length>>`. The test `|avg| / 300 <= .5` becomes `2|total| <= 300 * length`. An undefined `touchSpeed` gives NaN, and NaN takes the "bad" branch.
- **Canvas lengths.** They are integers in units of 1/32 px. With an integer canvas height, every halving in both `init()` layouts is then exact. The MC modules ASSUME that their positions map exactly through `leapToScene`.
- **numberOf frames.** A frame is its pair of counts `[hands, pointables]`, which is all `draw()` reads.
- **touchScroll lengths.** A frame is whether some pointable touches and its translation from `oldFrame` in mm. Lengths are exact rationals in units of 1/`Unit` px, with `Unit = 10 * 50^MaxFrames`. Every tenth and every product by 49/50 of the first `MaxFrames` frames is then an integer. The momentum step is computed as `(x \div 50) * 49` so that no intermediate leaves TLC's 32-bit integers.
- **Alpha.** Alpha is counted in `.01` steps, so a full alpha of 1 is `AlphaSteps`.
  - The model's arithmetic is exact. After a click, `AlphaSteps` fades reach 0 and one more fade reaches -1, where the fade stops.
  - In doubles, 1 - 100 × .01 lands slightly below 0 and the fade stops there.
  - Both end below 0. The never-clicked box's 0 goes to -.01 on the first draw in both cases.

## Runs

| run | checks | result |
|---|---|---|
| `MCDispatcher.cfg` | `ViewsExclusive`, `EventuallySettled`, `BaseViewRefined` | pass |
| `MCDispatcherNumberOf.cfg` | `AllViewRefined` | violation: numberOf's `deviceDisconnect` leaves `pluggedIn` true |
| `MCSmoothingBuffer.cfg` | `NewestCountedTwice` | pass |
| `MCSmoothingBufferSpec.cfg` | `MatchesSpecWindow` | violation: slot 0 is written before the shift, so the newest sample is doubled |
| `MCTouchSpeed.cfg` | `TypeOK`, `CurrentButtonIsUnderFinger`, `FlashFollowsTouchStart`, `FlashColourFromFramesBeforeClick`, `LayoutNestedFromMinHeight` | pass (28,178 states). `FlashColourFromFramesBeforeClick`: after `tipSpeedNum` frames in a row with the same tip speed, a click flashes that speed's colour, whatever the click frame's own speed, because the average is taken before the click frame's sample is pushed. `LayoutNestedFromMinHeight`: `init()`'s fourteen buttons form a nested tree at canvas heights 47, 48, 100 and 400 px. Every button is non-empty, every child lies inside its parent's columns in the row below, and buttons side by side do not overlap. At 46 px the grandchildren's width `width1/2 - 5` is negative and the tree breaks. The layout is computed once, before any event, so this is stated of every step. It is evaluated once, as a constant |
| `MCTouchSpeedFlashHitsButtonUnderFinger.cfg` | `FlashHitsButtonUnderFinger` | violation: the flash lands on the button under the previous frame's position |
| `MCReadMore.cfg` | `NavigatesOnTouchStartOverButton` | pass |
| `MCReadMoreTouched.cfg` | `NavigatesToButtonTouched` | violation: after the finger leaves and returns, the touch navigates to the button it was over before it left |
| `MCNumberOf.cfg` | `SteadyHandCountShown` | pass: after `frameBuffer` identical frames with a hand, the counter shows exactly their pointable count |
| `MCNumberOfToolOnly.cfg` | `SteadyCountShown` | violation: steady frames with one pointable and no hand show 0 fingers, because the shift loop zeroes finger counts of handless frames |
| `MCTouchScroll.cfg` | `OffsetInCellWhileSlow` | pass: while no frame has moved more than a cell, both offsets stay in `[0, size]` in both directions |
| `MCTouchScrollModulo.cfg` | `OffsetWrapsModulo` | violation: a touching frame with a fast downward translation leaves the offset at -10 px; the wrap is one step, not modulo |

`TypeOK` of touchSpeed bounds the click-box alpha to `-1 .. AlphaSteps`. The fade steps one `.01` below 0 and then stops. spec.md 8 says the decay stops at 0, so this is a small divergence in the last step. The bound catches a fade that would keep going.

### Bounds and why they are enough

- **Dispatcher: four tutorials.** One is inactive and one is numberOf, so each branch of the handlers' `active` test and of the two constructors appears. Two active TUTORIAL tutorials let their timers interleave with each other and with the device events. Two frames are enough: frames move only `currentFrame` and `oldFrame`, which the lifecycle properties do not read.
- **Buffer: N = 4 (five slots).** The samples 0, 5 and -10 cover a zero sample (falsy), which stops the shift, and samples of both signs.
- **touchSpeed.**
  - Canvas height 400 px, with all 14 buttons.
  - Three positions: over the top-left button, over its first child, and in the gap between the halves.
  - Tip speeds 0 and -400 produce both colours. `TipSpeedNum` is 3 and `AlphaSteps` is 2.
  - The full state graph has depth 13, and the reachable states include lit flashes in both colours.
  - The layout property evaluates `init()` at 47 px (the smallest canvas where the grandchildren have a positive width, .0625 px), 48 px, 100 px and the page's 400 px. Every height gives exact lengths in 1/32 px.
- **readMore.** One position over each button. With every frame sequence up to the state bound, the finger can hover, leave, return and touch.
- **numberOf.** `FrameBuffer = 5` (six slots) instead of 20. Hands are 0..1 and pointables 0..3. So every highlight branch (0, 1, 2, >2 fingers) is reached, and so are both branches of the shift test. Averages over six slots round both up and down. Five repeats of a frame flush the window, because the loop copies slot `i-1` for every `i` down to 1. The run takes about 10 s.
- **touchScroll.** `MaxFrames = 3` frame events and a 100 px cell. The translations per frame are 0, ±500 and ±1100 mm on one axis or both. With momentum 0.98 the speed tends to 4.9 px per mm of per-frame translation. A hand held at 25 mm per frame needs about 105 frames (over 2.5 m of travel) to build the 110 px that one 1100 mm frame adds, so in practice the model's large steps stand for repeated fast flicks. The states include wraps in both directions, and overshoots beyond them.

### Fairness

Only `Dispatcher` states a liveness property. It assumes weak fairness of each tutorial's timer callback, because `window.setTimeout` runs an armed callback eventually. Frames and device events come from the device, and no fairness is assumed for them.

## Plan (later work)

1. A liveness check that touchScroll's speed decays below any bound once no frame touches. This needs a speed abstraction coarser than exact rationals.

## Not modelled

- Canvas painting, fonts and text, `drawFinger` (it clamps a local copy and paints), `drawTouchBar`, and touchScroll's `drawGrid`.
- touchDistance's `draw()`. It reads only the current frame and keeps no state, so it has no transitions. At `touchDistance = 0` the label reads "hover" (`distance <= 0`) while `drawFinger` draws the touching circle (`fingerSize <= 0`). This is a one-frame disagreement between two paintings, and a unit test reaches it directly.
- The `js/` copies of touchSpeed and numberOf. Their logic is the same as the `jsg/` builds the pages load: the same history loop and the same click test. They differ only in painting: touch-bar geometry, colours, and the count drawn on the canvas. The `js/` numberOf is a plain `TUTORIAL`, so its lifecycle is the one `Tutorial` models for TUTORIAL.
- numberOf's rounded hand average. `draw()` computes it and then uses it only in commented-out painting.
- `main.js`'s tab switcher, which is DOM-only.
- Page unload after `window.location` is assigned. Frames may keep arriving until the unload, and the model allows them.
