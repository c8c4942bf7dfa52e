---------------------------- MODULE DisplayDamage -----------------------------
(***************************************************************************)
(* The compositor's damage tracking (badgevms/compositor/compositor.c).    *)
(*                                                                         *)
(* The panel shows DISPLAY_FRAMEBUFFERS buffers in turn.  Every frame the  *)
(* compositor repairs the next one: it clears it when the background is    *)
(* damaged in that buffer, and draws the visible content and the box of a  *)
(* window when the flags of the window, or of the scene, ask for it.  The  *)
(* applications present new content while it draws.                        *)
(*                                                                         *)
(* The screen is one row of cells.  A window is an interval with a border  *)
(* on each side.  A pixel is what it shows: the background, the content or *)
(* the box of a window as they are now, or Ghost, anything outdated.       *)
(***************************************************************************)
EXTENDS Integers, Sequences, FiniteSets

CONSTANTS
  Window,         \* the windows the heap has room for, MAX_WINDOWS or fewer
  ScreenWidth,    \* FRAMEBUFFER_MAX_W
  Border,         \* BORDER_PX
  NumFramebuffers, \* DISPLAY_FRAMEBUFFERS
  Sizes           \* the widths the applications ask for

Cells        == 0 .. ScreenWidth - 1
Framebuffers == 0 .. NumFramebuffers - 1

ASSUME DisplayAssumption ==
  /\ {ScreenWidth, Border} \subseteq Nat
  /\ NumFramebuffers \in Nat \ {0}
  /\ Sizes \subseteq 1 .. ScreenWidth - 2 * Border

VARIABLES
  window_stack, \* the ring, front window first
  allocated,    \* the windows that are not freed
  ownerless,    \* those whose task_info is NULL: WINDOW_DESTROY is on its way
  rect, rect_orig,
  has_fb,       \* the windows with a framebuffer
  clean,        \* those whose framebuffer's clean flag is set
  fb_dirty,     \* per window: the buffers that lack its content
  visible,      \* per window: its visible region
  framebuffers, \* per buffer and cell: a pixel
  cur_fb, frame_ready,
  background_damaged, decoration_damaged, visible_regions_valid,
  unmarked,     \* history: windows changed places since the last
                \* mark_scene_damaged(), and what they covered was not marked
  step,         \* where the compositor's loop is
  at,           \* the position in the ring of the window being drawn
  changes, framebuffer_cleared, is_clean

window_vars  == <<window_stack, allocated, ownerless>>
rect_vars    == <<rect, rect_orig>>
content_vars == <<has_fb, clean, fb_dirty>>
damage_vars  == <<background_damaged, decoration_damaged, visible_regions_valid, unmarked>>
frame_vars   == <<cur_fb, frame_ready>>
local_vars   == <<at, changes, framebuffer_cleared, is_clean>>
vars == <<window_vars, rect_vars, content_vars, visible, framebuffers,
          frame_vars, damage_vars, step, local_vars>>

Bg    == <<"background">>
Ghost == <<"ghost">>
Pixel == {Bg, Ghost} \union Window \X {"content", "front box"}
Rect  == [x : Cells, w : 0 .. ScreenWidth, fullscreen : BOOLEAN]
Empty == [x |-> 0, w |-> 0, fullscreen |-> FALSE]

Nothing == [b \in Framebuffers |-> [c \in Cells |-> Ghost]]

Front     == window_stack[1]
Windows   == {window_stack[i] : i \in DOMAIN window_stack}
Position(w) == CHOOSE i \in DOMAIN window_stack : window_stack[i] = w

(* What window w covers, and its content within. *)
Outer(w) ==
  rect[w].x .. rect[w].x + rect[w].w - 1 + (IF rect[w].fullscreen THEN 0 ELSE 2 * Border)
Content(w) ==
  LET left == rect[w].x + (IF rect[w].fullscreen THEN 0 ELSE Border)
  IN left .. left + rect[w].w - 1

window_clamp_position(x, r) ==
  LET max_x == ScreenWidth - (r.w + 2 * Border)
  IN IF r.fullscreen \/ x < 0 THEN 0 ELSE IF x > max_x THEN max_x ELSE x

TypeOK ==
  /\ window_stack \in Seq(Window) /\ ownerless \subseteq allocated
  /\ allocated \subseteq Window /\ Windows \subseteq allocated
  /\ rect \in [Window -> Rect] /\ rect_orig \in [Window -> Rect]
  /\ has_fb \subseteq allocated /\ clean \subseteq Window
  /\ fb_dirty \in [Window -> SUBSET Framebuffers]
  /\ visible \in [Window -> SUBSET (0 .. 2 * ScreenWidth)]
  /\ framebuffers \in [Framebuffers -> [Cells -> Pixel]]
  /\ cur_fb \in Framebuffers /\ frame_ready \in BOOLEAN
  /\ background_damaged \subseteq Framebuffers /\ decoration_damaged \subseteq Framebuffers
  /\ visible_regions_valid \in BOOLEAN /\ unmarked \in BOOLEAN
  /\ step \in {"sleep", "commands", "keys", "draw", "blit"}
  /\ at \in 0 .. Cardinality(Window)
  /\ {changes, framebuffer_cleared, is_clean} \subseteq BOOLEAN

Init ==
  /\ window_stack = <<>> /\ allocated = {} /\ ownerless = {}
  /\ rect = [w \in Window |-> Empty] /\ rect_orig = [w \in Window |-> Empty]
  /\ has_fb = {} /\ clean = {} /\ fb_dirty = [w \in Window |-> {}]
  /\ visible = [w \in Window |-> {}]
  /\ framebuffers = Nothing
  /\ cur_fb = 1 % NumFramebuffers /\ frame_ready = FALSE
  /\ background_damaged = Framebuffers /\ decoration_damaged = Framebuffers
  /\ visible_regions_valid = FALSE /\ unmarked = FALSE
  /\ step = "sleep" /\ at = 0
  /\ changes = FALSE /\ framebuffer_cleared = FALSE /\ is_clean = TRUE

-----------------------------------------------------------------------------
(* A buffer with a damaged background is cleared before anything is drawn   *)
(* into it, so what it shows until then is not kept.                        *)
mark_scene_damaged ==
  /\ framebuffers' = Nothing
  /\ visible_regions_valid' = FALSE
  /\ decoration_damaged' = Framebuffers
  /\ background_damaged' = Framebuffers
  /\ unmarked' = FALSE

(* The pixels that show one of these are outdated from now on. *)
Outdated(pixels) ==
  [b \in Framebuffers |-> [c \in Cells |->
     IF framebuffers[b][c] \in pixels THEN Ghost ELSE framebuffers[b][c]]]
PixelsOf(w) == {w} \X {"content", "front box"}

(* The window behind the removed one comes to the front, whichever it was. *)
(* Nobody looks at the fields of a window that left the ring.              *)
remove_window(w) ==
  IF w \in Windows
    THEN LET i == Position(w)
         IN /\ window_stack' = SubSeq(window_stack, i + 1, Len(window_stack))
                                 \o SubSeq(window_stack, 1, i - 1)
            /\ rect' = [rect EXCEPT ![w] = Empty]
            /\ rect_orig' = [rect_orig EXCEPT ![w] = Empty]
            /\ has_fb' = has_fb \ {w} /\ clean' = clean \ {w}
            /\ fb_dirty' = [fb_dirty EXCEPT ![w] = {}]
            /\ visible' = [visible EXCEPT ![w] = {}]
    ELSE UNCHANGED <<window_stack, rect_vars, content_vars, visible>>

-----------------------------------------------------------------------------
(* What applications do, and Hades for dead ones.  The compositor has the  *)
(* highest priority of their core: they run while it waits for the refresh *)
(* of the panel, or in a blit for the PPA.                                 *)

AppsRun == step \in {"sleep", "blit"}

window_framebuffer_create(w) ==
  /\ AppsRun /\ w \in Windows \ (has_fb \union ownerless)
  /\ has_fb' = has_fb \union {w}
  /\ clean' = clean \union {w}
  /\ fb_dirty' = [fb_dirty EXCEPT ![w] = Framebuffers]
  /\ UNCHANGED <<window_vars, rect_vars, visible, framebuffers, frame_vars,
                 damage_vars, step, local_vars>>

(* New content, then atomic_flag_clear(&front_buffer->clean). *)
window_present(w) ==
  /\ AppsRun /\ w \in (Windows \intersect has_fb) \ ownerless
  /\ clean' = clean \ {w}
  /\ framebuffers' = Outdated({<<w, "content">>})
  /\ UNCHANGED <<window_vars, rect_vars, has_fb, fb_dirty, visible, frame_vars,
                 damage_vars, step, local_vars>>

(* window_destroy(), or window_destroy_task() after the owner's death. *)
window_destroy(w) ==
  /\ AppsRun /\ w \in allocated \ ownerless
  /\ ownerless' = ownerless \union {w}
  /\ UNCHANGED <<window_stack, allocated, rect_vars, content_vars, visible,
                 framebuffers, frame_vars, damage_vars, step, local_vars>>

-----------------------------------------------------------------------------
(* The commands of the queue. *)

Command ==
  /\ step = "commands"
  /\ UNCHANGED <<frame_vars, step, local_vars>>

WINDOW_CREATE(w) ==
  /\ Command /\ w \notin allocated
  /\ allocated' = allocated \union {w}
  /\ window_stack' = <<w>> \o window_stack
  /\ \E size \in Sizes :
       rect' = [rect EXCEPT ![w] = [x |-> 0, w |-> size, fullscreen |-> FALSE]]
  /\ mark_scene_damaged
  /\ UNCHANGED <<ownerless, rect_orig, content_vars, visible>>

WINDOW_DESTROY(w) ==
  /\ Command /\ w \in ownerless
  /\ remove_window(w)
  /\ allocated' = allocated \ {w}
  /\ ownerless' = ownerless \ {w}
  /\ mark_scene_damaged

(* A new rectangle for w, and a variant that forgets what was behind the    *)
(* old one.                                                                 *)
ReshapeQuietly(w, r) ==
  /\ rect' = [rect EXCEPT ![w] = r]
  /\ framebuffers' = Outdated(PixelsOf(w))
  /\ visible_regions_valid' = FALSE /\ decoration_damaged' = Framebuffers
  /\ UNCHANGED <<background_damaged, unmarked>>

Reshape(w, r) ==
  /\ rect' = [rect EXCEPT ![w] = r]
  /\ mark_scene_damaged

WINDOW_MOVE(w, x) ==
  /\ Command /\ w \in Windows \ ownerless
  /\ Reshape(w, [rect[w] EXCEPT !.x = window_clamp_position(x, rect[w])])
  /\ UNCHANGED <<window_vars, rect_orig, content_vars, visible>>

(* The position is not clamped again. *)
WINDOW_RESIZE(w, size) ==
  /\ Command /\ w \in Windows \ ownerless
  /\ Reshape(w, [rect[w] EXCEPT !.w = size])
  /\ UNCHANGED <<window_vars, rect_orig, content_vars, visible>>

(* WINDOW_FLAG_FULLSCREEN on and off; the old rectangle is kept. *)
WINDOW_FLAGS(w) ==
  /\ Command /\ w \in Windows \ ownerless
  /\ IF rect[w].fullscreen
       THEN /\ Reshape(w, rect_orig[w])
            /\ rect_orig' = [rect_orig EXCEPT ![w] = Empty]  \* not read again
       ELSE /\ Reshape(w, [x |-> 0, w |-> ScreenWidth, fullscreen |-> TRUE])
            /\ rect_orig' = [rect_orig EXCEPT ![w] = rect[w]]
  /\ UNCHANGED <<window_vars, content_vars, visible>>

-----------------------------------------------------------------------------
(* The keyboard. *)

Key ==
  /\ step = "keys" /\ window_stack # <<>>
  /\ UNCHANGED <<allocated, ownerless, frame_vars, step, local_vars>>

(* The next window in the ring comes to the front.  "No need to redraw the *)
(* background", which would also have made the others redraw theirs.  With   *)
(* two windows the new front window is all there is to redraw.             *)
ALT_TAB ==
  /\ Key
  /\ window_stack' = Append(Tail(window_stack), Front)
  /\ visible_regions_valid' = FALSE
  /\ decoration_damaged' = Framebuffers
  /\ unmarked' = (unmarked \/ Len(window_stack) > 2)
  /\ UNCHANGED <<background_damaged, rect_vars, content_vars, visible, framebuffers>>

(* FN and an arrow: one step to either side.  FN and any other key only     *)
(* clamps the position, and damages nothing.                                *)
FN_KEY ==
  /\ Key
  /\ \E dx \in {-1, 0, 1} :
       LET r == [rect[Front] EXCEPT !.x = window_clamp_position(@ + dx, rect[Front])]
       IN IF dx # 0 THEN Reshape(Front, r)
          ELSE /\ rect' = [rect EXCEPT ![Front] = r]
               /\ framebuffers' = IF r = rect[Front] THEN framebuffers
                                  ELSE Outdated(PixelsOf(Front))
               /\ unmarked' = (unmarked \/ r # rect[Front])
               /\ UNCHANGED <<background_damaged, decoration_damaged, visible_regions_valid>>
  /\ UNCHANGED <<window_stack, rect_orig, content_vars, visible>>

(* FN and the cross: the window goes, its owner is killed. *)
FN_CROSS ==
  /\ Key
  /\ remove_window(Front)
  /\ mark_scene_damaged

-----------------------------------------------------------------------------
(* One frame. *)

(* The buffer after this one. *)
NextFramebuffer == (cur_fb + 1) % NumFramebuffers

(* The refresh callback wakes the loop; a finished frame goes to the panel. *)
Wake ==
  /\ step = "sleep" /\ step' = "commands"
  /\ cur_fb' = IF frame_ready THEN NextFramebuffer ELSE cur_fb
  /\ frame_ready' = FALSE
  /\ UNCHANGED <<window_vars, rect_vars, content_vars, visible, framebuffers,
                 damage_vars, local_vars>>

CommandsDone ==
  /\ step = "commands" /\ step' = "keys"
  /\ UNCHANGED <<window_vars, rect_vars, content_vars, visible, framebuffers,
                 frame_vars, damage_vars, local_vars>>

(* The background of this buffer is cleared if it is damaged. *)
KeysDone ==
  LET damaged == cur_fb \in background_damaged
  IN /\ step = "keys"
     /\ framebuffers' = IF damaged
                        THEN [framebuffers EXCEPT ![cur_fb] = [c \in Cells |-> Bg]]
                        ELSE framebuffers
     /\ background_damaged' = background_damaged \ {cur_fb}
     /\ at' = Len(window_stack)
     /\ IF window_stack = <<>>
          THEN /\ step' = "sleep" /\ frame_ready' = damaged
               /\ UNCHANGED <<changes, framebuffer_cleared>>
          ELSE /\ step' = "draw" /\ UNCHANGED frame_ready
               /\ changes' = damaged /\ framebuffer_cleared' = damaged
     /\ UNCHANGED <<window_vars, rect_vars, content_vars, visible, cur_fb,
                    decoration_damaged, visible_regions_valid, unmarked, is_clean>>

Drawn == window_stack[at]

(* After the last window, and after one that lost its owner: the flags of  *)
(* the scene are taken for repaired in this buffer.                        *)
FrameDone(changed) ==
  /\ step' = "sleep" /\ at' = 0
  /\ changes' = FALSE /\ framebuffer_cleared' = FALSE /\ is_clean' = TRUE
  /\ decoration_damaged' = decoration_damaged \ {cur_fb}
  /\ visible_regions_valid' = TRUE
  /\ frame_ready' = changed
  /\ UNCHANGED unmarked

NextWindow(changed) ==
  IF at > 1
    THEN /\ step' = "draw" /\ at' = at - 1
         /\ changes' = changed /\ is_clean' = TRUE
         /\ UNCHANGED <<decoration_damaged, visible_regions_valid, unmarked, frame_ready,
                        framebuffer_cleared>>
    ELSE FrameDone(changed)

DropOwnerless ==
  /\ step = "draw" /\ Drawn \in ownerless
  /\ remove_window(Drawn)
  /\ FrameDone(changes)
  /\ UNCHANGED <<allocated, ownerless, framebuffers, cur_fb, background_damaged>>

(* window_calculate_visible_regions(): the content without the windows in   *)
(* front of it, decorations included.                                       *)
window_calculate_visible_regions(w) ==
  Content(w) \ UNION {Outer(window_stack[i]) : i \in 1 .. Position(w) - 1}

SeeDrawn ==
  visible' = IF visible_regions_valid THEN visible
             ELSE [visible EXCEPT ![Drawn] = window_calculate_visible_regions(Drawn)]

SkipWithoutFramebuffer ==
  /\ step = "draw" /\ Drawn \notin ownerless \union has_fb
  /\ SeeDrawn
  /\ NextWindow(changes)
  /\ UNCHANGED <<window_vars, rect_vars, content_vars, framebuffers, cur_fb,
                 background_damaged>>

(* The buffers that lack what was just presented, and a variant that thinks *)
(* of the buffer at hand only.                                              *)
DirtyHere == {cur_fb}
DirtyAll  == Framebuffers

(* The clean flag is tested and set before the content is read. *)
TakeCleanFlag ==
  /\ step = "draw" /\ Drawn \in has_fb \ ownerless
  /\ SeeDrawn
  /\ is_clean' = (Drawn \in clean)
  /\ clean' = clean \union {Drawn}
  /\ fb_dirty' = IF Drawn \in clean THEN fb_dirty
                                    ELSE [fb_dirty EXCEPT ![Drawn] = DirtyAll]
  /\ step' = "blit"
  /\ UNCHANGED <<window_vars, rect_vars, has_fb, framebuffers, frame_vars, damage_vars,
                 at, changes, framebuffer_cleared>>

(* Content over the visible region, then the box, which nothing clips. *)
Blit ==
  LET w          == Drawn
      always     == framebuffer_cleared \/ w = Front
      content    == always \/ ~is_clean \/ cur_fb \in fb_dirty[w]
      decoration == (always \/ cur_fb \in decoration_damaged) /\ ~rect[w].fullscreen
      drawn      == IF content THEN visible[w] ELSE {}
      box        == IF decoration THEN Outer(w) \ Content(w) ELSE {}
      boxed      == IF w = Front THEN <<w, "front box">> ELSE Ghost
      changed    == changes \/ drawn # {} \/ decoration
  IN /\ step = "blit"
     /\ framebuffers' = [framebuffers EXCEPT ![cur_fb] = [c \in Cells |->
          IF c \in box THEN boxed
          ELSE IF c \in drawn THEN (IF c \in Content(w) THEN <<w, "content">> ELSE Ghost)
          ELSE @[c]]]
     /\ fb_dirty' = IF drawn # {} THEN [fb_dirty EXCEPT ![w] = @ \ {cur_fb}] ELSE fb_dirty
     /\ NextWindow(changed)
     /\ UNCHANGED <<window_vars, rect_vars, has_fb, clean, visible, cur_fb,
                    background_damaged>>

-----------------------------------------------------------------------------
Commands ==
  \E w \in Window :
    \/ WINDOW_CREATE(w) \/ WINDOW_DESTROY(w) \/ WINDOW_FLAGS(w)
    \/ \E x \in Cells : WINDOW_MOVE(w, x)
    \/ \E size \in Sizes : WINDOW_RESIZE(w, size)

Keys == ALT_TAB \/ FN_KEY \/ FN_CROSS

Render == DropOwnerless \/ SkipWithoutFramebuffer \/ TakeCleanFlag \/ Blit

Compositor == Wake \/ Commands \/ CommandsDone \/ Keys \/ KeysDone \/ Render

Application ==
  \E w \in Window : window_framebuffer_create(w) \/ window_present(w) \/ window_destroy(w)

Next == Compositor \/ Application

Spec == Init /\ [][Next]_vars

-----------------------------------------------------------------------------
(* What a cell should show, and whether it does.  A window without a       *)
(* framebuffer shows nothing of its own; the box of a window in the back   *)
(* is left to its next presentation in front.                              *)
Over(c) == {i \in DOMAIN window_stack : c \in Outer(window_stack[i])}
TopAt(c) == window_stack[CHOOSE i \in Over(c) : \A j \in Over(c) : i <= j]

Shows(b, c) ==
  IF Over(c) = {} THEN framebuffers[b][c] = Bg
  ELSE LET w == TopAt(c)
       IN \/ w \notin has_fb
          \/ IF c \in Content(w) THEN framebuffers[b][c] = <<w, "content">>
             ELSE w # Front \/ framebuffers[b][c] = <<w, "front box">>

(* Some flag will make the compositor repair cell c when it draws buffer b. *)
Scheduled(b, c) ==
  \/ b \in background_damaged
  \/ /\ Over(c) # {}
     /\ LET w == TopAt(c)
        IN /\ w = Front \/ w \notin clean \/ b \in fb_dirty[w]
           /\ visible_regions_valid /\ c \in Content(w) => c \in visible[w]

BetweenFrames == step \in {"sleep", "commands", "keys"} /\ ownerless = {}

(* Between two frames every outdated cell of every display buffer is        *)
(* covered by a flag, as long as no window waits for its WINDOW_DESTROY,    *)
(* which damages everything: no pixel of a window that moved, closed or     *)
(* presented stays in one of the buffers the panel cycles through.  ALT-TAB  *)
(* among more than two windows and a position that is only clamped are all  *)
(* that can leave one, and the next mark_scene_damaged() heals it.           *)
StaleCellsAreScheduled ==
  BetweenFrames /\ ~unmarked =>
    \A b \in Framebuffers, c \in Cells : Shows(b, c) \/ Scheduled(b, c)

(* A frame that is handed to the panel shows every window where it is, with *)
(* what it presented last, unless it has presented again, or got its        *)
(* framebuffer, since it was drawn, or the same two have happened.          *)
FrameIsCurrent ==
  step = "sleep" /\ frame_ready /\ ownerless = {} /\ ~unmarked =>
    \A c \in Cells :
      \/ Shows(cur_fb, c)
      \/ Over(c) # {} /\ (TopAt(c) \notin clean \/ cur_fb \in fb_dirty[TopAt(c)])

-----------------------------------------------------------------------------
(* Statements of the code's comments that the code does not keep. *)

(* ALT-TAB: "No need to redraw the background". *)
NoStaleCellIsForgotten ==
  BetweenFrames => \A b \in Framebuffers, c \in Cells : Shows(b, c) \/ Scheduled(b, c)
=============================================================================
