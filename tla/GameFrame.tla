------------------------------ MODULE GameFrame ------------------------------
(***************************************************************************)
(* The engine's own modules Core and Render over frames.                   *)
(*                                                                         *)
(* A frame runs the main tree once: the animation of sprites, then the     *)
(* RENDER node or the DEBUG_RENDER node, then the timers, an end system of *)
(* the tree's root.  Between frames the program creates and destroys       *)
(* entities and loads assets.                                              *)
(*                                                                         *)
(* The systems are plain AMonoSystems and run on every slot of a pool,     *)
(* used or not; only the boxes of the debug view look at the status.       *)
(* Lengths are whole pixels, times whole units, as the programs' choice of *)
(* numbers makes them.                                                     *)
(***************************************************************************)
EXTENDS Naturals, Sequences, SequencesExt, FiniteSets

CONSTANTS
    Still,         \* slots of the pool of sprites
    Animated,      \* slots of the pool of animated sprites
    Layers,        \* template parameter of Render
    MaxLayer,      \* bound: the largest layer the program gives an entity
    Strips,        \* nbr_frame of the animated sprites
    Width,         \* pixels of a loaded texture
    AnimationTime, \* animation_time of the animated sprites
    FrameLengths,  \* times between frames
    MaxClock,      \* bound: where timers stop counting
    MaxTexture     \* bound: ids of textures

ASSUME GameFrameAssumption ==
    /\ IsFiniteSet(Still) /\ IsFiniteSet(Animated) /\ Still \cap Animated = {}
    /\ {Layers, Strips, Width, AnimationTime} \subseteq Nat \ {0}
    /\ {MaxLayer, MaxClock, MaxTexture} \subseteq Nat
    /\ FrameLengths \subseteq 1 .. AnimationTime
    /\ Width % Strips = 0
    /\ MaxClock >= 2 * AnimationTime

VARIABLES
    debugRender,   \* Render::debugRender
    entity,        \* the components of each slot the render systems use
    pathOf,        \* AssetsLoader::assets_id, texture id to path
    texture,       \* AssetsLoader::assets: the texture of the one file, 0 for none
    loaded,        \* texture ids the graphics library gave out
    drawn,         \* what the last frame drew, in order
    toggled,       \* whether F3 was pressed in it
    shown          \* whether the last step was a frame

assetVars == <<pathOf, texture, loaded>>
screen == <<drawn, toggled, shown>>
frameVars == <<debugRender, entity, assetVars, screen>>

Slots == Still \cup Animated

File == "file"                         \* the path of the one asset
NoFile == ""

\* What resetEntityAtIndex leaves in a slot.
Blank == [status |-> "none", layer |-> 0, id |-> 0, pos |-> 0, clock |-> 0]

FrameInit ==
    /\ debugRender = FALSE
    /\ entity = [s \in Slots |-> Blank]
    /\ pathOf = [id \in {} |-> NoFile]
    /\ texture = 0
    /\ loaded = 0
    /\ drawn = <<>>
    /\ toggled = FALSE
    /\ shown = FALSE

\* The graphics library clears the screen between frames.
NothingShown == drawn' = <<>> /\ toggled' = FALSE /\ shown' = FALSE

-----------------------------------------------------------------------------
(* Assets. *)

\* assets_id[id] = path
Registered(id) ==
    [i \in DOMAIN pathOf \cup {id} |-> IF i = id THEN File ELSE pathOf[i]]

\* load_asset: the texture replaces the last one of its path.  One the
\* graphics library cannot make does so too.
LoadAsset ==
    /\ \/ /\ loaded < MaxTexture
          /\ loaded' = loaded + 1
          /\ texture' = loaded'
          /\ pathOf' = Registered(loaded')
       \/ /\ texture' = 0
          /\ UNCHANGED <<loaded, pathOf>>
    /\ NothingShown
    /\ UNCHANGED <<debugRender, entity>>

\* The width of get_asset_from_id, which makes an entry for an id it does not
\* have.
WidthOf(id) ==
    IF id \in DOMAIN pathOf /\ pathOf[id] = File /\ texture # 0 THEN Width ELSE 0

LookedUp(ids) ==
    [i \in DOMAIN pathOf \cup ids |-> IF i \in DOMAIN pathOf THEN pathOf[i] ELSE NoFile]

-----------------------------------------------------------------------------
(* The program. *)

\* createEntity, and the program sets what it wants shown.  The timer it does
\* not set, nor does createEntity.
Create(s) ==
    /\ entity[s].status = "none"
    /\ \E layer \in 0 .. MaxLayer, id \in 1 .. MaxTexture :
           entity' = [entity EXCEPT ![s] =
               [@ EXCEPT !.status = "alive", !.layer = layer, !.id = id]]
    /\ NothingShown
    /\ UNCHANGED <<debugRender, assetVars>>

\* Mutant of Destroy: the slot is only marked.
DestroyMarks(s) ==
    /\ entity[s].status # "none"
    /\ entity' = [entity EXCEPT ![s].status = "none"]
    /\ NothingShown
    /\ UNCHANGED <<debugRender, assetVars>>

\* destroyEntity
Destroy(s) ==
    /\ entity[s].status # "none"
    /\ entity' = [entity EXCEPT ![s] = Blank]
    /\ NothingShown
    /\ UNCHANGED <<debugRender, assetVars>>

-----------------------------------------------------------------------------
(* The systems of the main tree. *)

\* IncrementTimerSystem, which Core::load makes an end system of ROOT.
Timed(e, time) ==
    [e EXCEPT !.clock = IF @ + time < MaxClock THEN @ + time ELSE MaxClock]

\* Mutant of Stepped: the strip starts over one too late.
SteppedTooFar(e) ==
    [e EXCEPT !.clock = @ - AnimationTime,
              !.pos = IF @ <= WidthOf(e.id) THEN @ + Width \div Strips ELSE 0]

\* Mutant of Stepped: nothing starts the strips over.
SteppedAndStuck(e) ==
    [e EXCEPT !.clock = @ - AnimationTime,
              !.pos = IF @ < WidthOf(e.id) THEN @ + WidthOf(e.id) \div Strips ELSE @]

\* SpriteAnimationSystem, when the clock is due: the next strip.
Stepped(e) ==
    [e EXCEPT !.clock = @ - AnimationTime,
              !.pos = IF @ < WidthOf(e.id) THEN @ + WidthOf(e.id) \div Strips ELSE 0]

Animate(e) ==
    IF e.id = 0 \/ e.clock < AnimationTime THEN e ELSE Stepped(e)

\* What the systems of a node visit, but for the slots they skip: layer by
\* layer, in each the pool of sprites before that of animated sprites.
Order == SetToSeq(Still) \o SetToSeq(Animated)
InLayers(ents, visible) ==
    FlattenSeq([l \in 1 .. Layers |->
        FlattenSeq([i \in DOMAIN Order |->
            IF Order[i] \in visible /\ ents[Order[i]].layer = l - 1
            THEN <<[layer |-> l - 1, slot |-> Order[i]]>> ELSE <<>>])])

\* The RENDER node: for each layer DrawSpriteSystem and
\* DrawAnimatedSpriteSystem, which skip what has no texture.
Sprites(ents) == InLayers(ents, {s \in Slots : ents[s].id # 0})

\* The DEBUG_RENDER node: for each layer a DebugDrawSystem, which skips what
\* is not alive.
Boxes(ents) == InLayers(ents, {s \in Slots : ents[s].status = "alive"})

\* The start callback of the DEBUG_RENDER node.
Toggle(f3) == IF f3 THEN ~debugRender ELSE debugRender

\* The main tree: the animation starts the node of both views, whose RENDER
\* child asks debugRender before the DEBUG_RENDER child toggles it, and the
\* timers end the root.  The views ask for nothing the animation writes.
Frame(time, f3) ==
    LET sprites == IF debugRender THEN <<>> ELSE Sprites(entity)
        boxes == IF Toggle(f3) THEN Boxes(entity) ELSE <<>>
    IN /\ entity' = [s \in Slots |->
              IF s \in Animated THEN Timed(Animate(entity[s]), time) ELSE entity[s]]
       /\ debugRender' = Toggle(f3)
       /\ drawn' = sprites \o boxes
       /\ pathOf' = LookedUp({entity[s].id : s \in Animated} \cup
                             {entity[v.slot].id : v \in Range(sprites)})
       /\ toggled' = f3
       /\ shown' = TRUE
       /\ UNCHANGED <<texture, loaded>>

Frames == \E time \in FrameLengths, f3 \in BOOLEAN : Frame(time, f3)

FrameNext ==
    \/ LoadAsset
    \/ \E s \in Slots : Create(s) \/ Destroy(s)
    \/ Frames

FrameSpec == FrameInit /\ [][FrameNext]_frameVars

\* The program's loop calls addTime for ever, and time passes.
FairFrameSpec ==
    FrameSpec /\ WF_frameVars(Frames)

-----------------------------------------------------------------------------
Visible == {s \in Slots : entity[s].status = "alive" /\ entity[s].layer < Layers}

\* Each entity of a layer there is, exactly once, the lower layers under the
\* upper ones.
Complete(view) ==
    /\ {v.slot : v \in Range(view)} = Visible
    /\ Len(view) = Cardinality(Visible)
    /\ \A i, j \in DOMAIN view : i < j => view[i].layer <= view[j].layer

\* A frame draws every visible entity once, whichever view is on; a slot that
\* is free, whatever systems did to it, is never drawn.  The frame in which F3
\* is pressed draws both views, one whole after the other, when it turns the
\* boxes on, and nothing at all when it turns them off: RENDER asks before the
\* start callback of DEBUG_RENDER toggles.
FramesAreComplete ==
    LET n == Cardinality(Visible) IN
    shown =>
        /\ ~toggled => Complete(drawn)
        /\ toggled /\ debugRender =>
               /\ Complete(SubSeq(drawn, 1, n))
               /\ Complete(SubSeq(drawn, n + 1, Len(drawn)))
        /\ toggled /\ ~debugRender => drawn = <<>>

\* An animation comes back to its first strip, for ever, and is never more
\* than one strip past the texture.
AnimationsComeRound ==
    \A s \in Animated :
        /\ [](entity[s].pos <= Width)
        /\ []<>(entity[s].pos = 0)
=============================================================================
