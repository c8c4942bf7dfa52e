-------------------------- MODULE DisplayDamageProofs -------------------------
(***************************************************************************)
(* What the damage tracking misses, for every number, sizes and arrangement *)
(* of windows and of display buffers, comes from two places alone: ALT-TAB  *)
(* among more than two windows (finding 4 of the README), and FN with a key *)
(* that is no arrow, which moves a window resized past the edge of the      *)
(* screen back and damages nothing.  Both are forgotten again by the next   *)
(* mark_scene_damaged().                                                    *)
(***************************************************************************)
EXTENDS DisplayDamage, FiniteSetTheorems, WellFoundedInduction, TLAPS


-----------------------------------------------------------------------------
(* The ring. *)
LEMMA SubSeqIs ==
  ASSUME NEW S, NEW s \in Seq(S), NEW a \in 1..(Len(s) + 1), NEW b \in (a - 1)..Len(s)
  PROVE  /\ SubSeq(s, a, b) \in Seq(S) /\ Len(SubSeq(s, a, b)) = b - a + 1
         /\ \A i \in 1..(b - a + 1) : SubSeq(s, a, b)[i] = s[a + i - 1]
OBVIOUS

Injective(s) == \A i, j \in DOMAIN s : s[i] = s[j] => i = j
Places(s)    == {s[i] : i \in DOMAIN s}

(* A new window in front. *)
LEMMA Pushed ==
  ASSUME NEW S, NEW s \in Seq(S), Injective(s), NEW w \in S \ Places(s)
  PROVE  LET r == <<w>> \o s IN r \in Seq(S) /\ Injective(r) /\ Places(r) = Places(s) \union {w}
<1> DEFINE r == <<w>> \o s
<1>1. /\ r \in Seq(S) /\ DOMAIN s = 1..Len(s) /\ DOMAIN r = 1..(Len(s) + 1) /\ Len(s) \in Nat
      /\ \A i \in DOMAIN r : r[i] = IF i = 1 THEN w ELSE s[i - 1]
  OBVIOUS
<1> HIDE DEF r
<1>2. \A i \in DOMAIN r : i # 1 => i - 1 \in DOMAIN s
  BY <1>1
<1>3. Injective(r)
  <2>1. ASSUME NEW i \in DOMAIN r, NEW j \in DOMAIN r, r[i] = r[j], i # 1, j # 1 PROVE i = j
    <3>1. i - 1 = j - 1
      BY <2>1, <1>1, <1>2 DEF Injective
    <3> QED
      BY <3>1, <1>1
  <2>2. ASSUME NEW i \in DOMAIN r, r[i] = w PROVE i = 1
    BY <2>2, <1>1, <1>2 DEF Places
  <2> QED
    BY <2>1, <2>2, <1>1 DEF Injective
<1>4. \A i \in DOMAIN s : i + 1 \in DOMAIN r /\ r[i + 1] = s[i]
  BY <1>1
<1>5. 1 \in DOMAIN r /\ r[1] = w
  BY <1>1
<1>6. Places(r) = Places(s) \union {w}
  <2>1. Places(s) \union {w} \subseteq Places(r)
    BY <1>4, <1>5 DEF Places
  <2>2. Places(r) \subseteq Places(s) \union {w}
    BY <1>1, <1>2 DEF Places
  <2> QED
    BY <2>1, <2>2
<1> QED
  BY <1>1, <1>3, <1>6 DEF r

(* remove_window() leaves the others, from the one behind it on. *)
LEMMA Removed ==
  ASSUME NEW S, NEW s \in Seq(S), Injective(s), NEW k \in DOMAIN s
  PROVE  LET r == SubSeq(s, k + 1, Len(s)) \o SubSeq(s, 1, k - 1)
         IN r \in Seq(S) /\ Injective(r) /\ Places(r) = Places(s) \ {s[k]}
<1> DEFINE n == Len(s)
           r == SubSeq(s, k + 1, Len(s)) \o SubSeq(s, 1, k - 1)
           f(i) == IF i <= n - k THEN k + i ELSE i - (n - k)
<1>1. n \in Nat /\ k \in 1..n /\ DOMAIN s = 1..n
  OBVIOUS
<1>2. /\ SubSeq(s, k + 1, Len(s)) \in Seq(S) /\ Len(SubSeq(s, k + 1, Len(s))) = n - k
      /\ \A i \in 1..(n - k) : SubSeq(s, k + 1, Len(s))[i] = s[k + i]
  BY <1>1, SubSeqIs
<1>3. /\ SubSeq(s, 1, k - 1) \in Seq(S) /\ Len(SubSeq(s, 1, k - 1)) = k - 1
      /\ \A i \in 1..(k - 1) : SubSeq(s, 1, k - 1)[i] = s[i]
  BY <1>1, SubSeqIs
<1> DEFINE front == SubSeq(s, k + 1, Len(s))
           back  == SubSeq(s, 1, k - 1)
<1> HIDE DEF n
<1>4. /\ r \in Seq(S) /\ DOMAIN r = 1..(n - 1)
      /\ \A i \in 1..(n - 1) : r[i] = s[f(i)]
  <2>1. r = front \o back
    BY DEF n
  <2>2. /\ front \in Seq(S) /\ Len(front) = n - k /\ \A i \in 1..(n - k) : front[i] = s[k + i]
        /\ back \in Seq(S) /\ Len(back) = k - 1 /\ \A i \in 1..(k - 1) : back[i] = s[i]
    BY <1>2, <1>3
  <2> HIDE DEF front, back, r
  <2>3. /\ r \in Seq(S) /\ DOMAIN r = 1..(n - 1)
        /\ \A i \in 1..(n - 1) : r[i] = IF i <= n - k THEN front[i] ELSE back[i - (n - k)]
    BY <1>1, <2>1, <2>2
  <2>4. ASSUME NEW i \in 1..(n - 1) PROVE r[i] = s[f(i)]
    <3>1. CASE i <= n - k
      BY <1>1, <2>3, <2>2, <3>1
    <3>2. CASE ~(i <= n - k)
      <4>1. i - (n - k) \in 1..(k - 1)
        BY <1>1, <3>2
      <4> QED
        BY <1>1, <2>3, <2>2, <3>2, <4>1
    <3> QED
      BY <3>1, <3>2
  <2> QED
    BY <2>3, <2>4
<1> HIDE DEF r
<1>5. \A i \in 1..(n - 1) : f(i) \in 1..n /\ f(i) # k
  BY <1>1
<1>6. \A i, j \in 1..(n - 1) : f(i) = f(j) => i = j
  BY <1>1
<1>7. \A i \in 1..n : i # k => \E j \in 1..(n - 1) : f(j) = i
  <2> SUFFICES ASSUME NEW i \in 1..n, i # k PROVE \E j \in 1..(n - 1) : f(j) = i
    OBVIOUS
  <2>1. CASE i < k
    <3>1. i + (n - k) \in 1..(n - 1) /\ f(i + (n - k)) = i
      BY <1>1, <2>1
    <3> QED
      BY <3>1
  <2>2. CASE i > k
    <3>1. i - k \in 1..(n - 1) /\ f(i - k) = i
      BY <1>1, <2>2
    <3> QED
      BY <3>1
  <2> QED
    BY <1>1, <2>1, <2>2
<1> HIDE DEF f
<1>8. Injective(r)
  BY <1>1, <1>4, <1>5, <1>6 DEF Injective
<1>9. Places(r) = Places(s) \ {s[k]}
  <2>1. Places(r) \subseteq Places(s) \ {s[k]}
    BY <1>1, <1>4, <1>5 DEF Places, Injective
  <2>2. ASSUME NEW i \in 1..n, i # k PROVE s[i] \in Places(r)
    <3>1. PICK j \in 1..(n - 1) : f(j) = i
      BY <1>7, <2>2
    <3> QED
      BY <1>4, <3>1 DEF Places
  <2> QED
    BY <1>1, <2>1, <2>2 DEF Places
<1> QED
  BY <1>4, <1>8, <1>9 DEF r

(* ALT-TAB turns the ring by one. *)
LEMMA Turned ==
  ASSUME NEW S, NEW s \in Seq(S), Injective(s), s # <<>>
  PROVE  LET r == Append(Tail(s), s[1])
         IN /\ r \in Seq(S) /\ Len(r) = Len(s) /\ DOMAIN r = DOMAIN s
            /\ \A i \in DOMAIN s : r[i] = IF i = Len(s) THEN s[1] ELSE s[i + 1]
            /\ Injective(r) /\ Places(r) = Places(s)
<1> DEFINE n == Len(s)
           r == Append(Tail(s), s[1])
           f(i) == IF i = n THEN 1 ELSE i + 1
<1>1. n \in Nat /\ n >= 1 /\ DOMAIN s = 1..n /\ s[1] \in S
  OBVIOUS
<1>2. /\ r \in Seq(S) /\ Len(r) = n /\ DOMAIN r = 1..n
      /\ \A i \in 1..n : r[i] = s[f(i)]
  <2>1. /\ Tail(s) \in Seq(S) /\ Len(Tail(s)) = n - 1
        /\ \A i \in 1..(n - 1) : Tail(s)[i] = s[i + 1]
    BY <1>1
  <2> HIDE DEF n
  <2> QED
    BY <1>1, <2>1
<1> HIDE DEF r, n
<1>3. \A i \in 1..n : f(i) \in 1..n
  BY <1>1
<1>4. \A i, j \in 1..n : f(i) = f(j) => i = j
  BY <1>1
<1>5. \A i \in 1..n : \E j \in 1..n : f(j) = i
  <2> SUFFICES ASSUME NEW i \in 1..n PROVE \E j \in 1..n : f(j) = i
    OBVIOUS
  <2>1. CASE i = 1
    <3>1. n \in 1..n /\ f(n) = i
      BY <1>1, <2>1
    <3> QED
      BY <3>1
  <2>2. CASE i # 1
    <3>1. i - 1 \in 1..n /\ f(i - 1) = i
      BY <1>1, <2>2
    <3> QED
      BY <3>1
  <2> QED
    BY <2>1, <2>2
<1>6. \A i \in 1..n : r[i] = IF i = n THEN s[1] ELSE s[i + 1]
  BY <1>2
<1> HIDE DEF f
<1>7. Injective(r)
  BY <1>1, <1>2, <1>3, <1>4 DEF Injective
<1>8. Places(r) = Places(s)
  <2>1. ASSUME NEW i \in 1..n PROVE s[i] \in Places(r)
    <3>1. PICK j \in 1..n : f(j) = i
      BY <1>5
    <3> QED
      BY <1>2, <3>1 DEF Places
  <2>2. Places(r) \subseteq Places(s)
    BY <1>1, <1>2, <1>3 DEF Places
  <2> QED
    BY <1>1, <2>1, <2>2 DEF Places
<1> QED
  BY <1>1, <1>2, <1>6, <1>7, <1>8 DEF r, n
-----------------------------------------------------------------------------
(* What a step needs to know of the ring and of the fields it reads. *)
SomeRect == [x : Int, w : Int, fullscreen : BOOLEAN]

RingInv ==
  /\ window_stack \in Seq(Window) /\ Windows \subseteq allocated
  /\ Injective(window_stack)
  /\ step \in {"draw", "blit"} => at \in DOMAIN window_stack

FieldsInv ==
  /\ rect \in [Window -> SomeRect] /\ rect_orig \in [Window -> SomeRect]
  /\ fb_dirty \in [Window -> SUBSET Framebuffers]
  /\ visible \in [Window -> SUBSET Int]
  /\ framebuffers \in [Framebuffers -> [Cells -> Pixel]]
  /\ cur_fb \in Framebuffers
  /\ background_damaged \subseteq Framebuffers /\ decoration_damaged \subseteq Framebuffers

(* Between two frames, or while the windows are drawn. *)
Drawing == step \in {"draw", "blit"}

(* The windows of the ring that this frame has looked at. *)
Seen(i) == (step = "draw" /\ i > at) \/ (step = "blit" /\ i >= at)

VisibleInv ==
  \A i \in DOMAIN window_stack : visible_regions_valid \/ Seen(i) =>
    visible[window_stack[i]] = window_calculate_visible_regions(window_stack[i])

(* With more than two windows, decorations are damaged only together with   *)
(* the background.                                                          *)
DecorationInv ==
  Len(window_stack) > 2 =>
    decoration_damaged \subseteq
      background_damaged \union (IF Drawing /\ framebuffer_cleared THEN {cur_fb} ELSE {})

(* Window i is the one to be seen at cell c; nothing is to be seen there.    *)
Top(i, c) == c \in Outer(window_stack[i]) /\ \A j \in 1 .. i - 1 : c \notin Outer(window_stack[j])
Bare(c)   == \A i \in DOMAIN window_stack : c \notin Outer(window_stack[i])

(* Cell c of buffer b shows the content of w, or a flag of w sees to it.    *)
Flagged(b, w) == w \notin has_fb \/ w \notin clean \/ b \in fb_dirty[w]
Repaired(b, w, c) ==
  c \in Content(w) => framebuffers[b][c] = <<w, "content">> \/ Flagged(b, w)

(* The front window is drawn in every frame, so a buffer may lack its       *)
(* content, but only where it covers another window: there it may be in     *)
(* front only since the last ALT-TAB.                                       *)
Overlaps(c) == \E j \in DOMAIN window_stack : j # 1 /\ c \in Outer(window_stack[j])

Kept(b) ==
  \A c \in Cells :
    /\ Bare(c) => framebuffers[b][c] = Bg
    /\ \A i \in DOMAIN window_stack : Top(i, c) =>
         Repaired(b, window_stack[i], c) \/ (i = 1 /\ Overlaps(c))

BuffersInv ==
  \A b \in Framebuffers \ background_damaged : ~(Drawing /\ b = cur_fb) => Kept(b)

(* The buffer that is being drawn: what is still to come is the front       *)
(* window, or everything when the buffer was cleared.                       *)
DrawingInv ==
  Drawing =>
    /\ cur_fb \notin background_damaged
    /\ \A c \in Cells :
         /\ Bare(c) => framebuffers[cur_fb][c] = Bg
         /\ \A i \in DOMAIN window_stack : Top(i, c) =>
              \/ i <= at /\ (i = 1 \/ framebuffer_cleared)
              \/ Repaired(cur_fb, window_stack[i], c)

(* A finished frame lacks nothing, the box of the front window included. *)
Boxed(b, w, c) ==
  c \notin Content(w) => framebuffers[b][c] = <<w, "front box">> \/ Flagged(b, w)

FinishedInv ==
  step = "sleep" /\ frame_ready =>
    /\ cur_fb \notin background_damaged
    /\ \A c \in Cells :
         /\ Bare(c) => framebuffers[cur_fb][c] = Bg
         /\ \A i \in DOMAIN window_stack : Top(i, c) =>
              Repaired(cur_fb, window_stack[i], c) /\ (i = 1 => Boxed(cur_fb, window_stack[i], c))

SceneInv == VisibleInv /\ DecorationInv /\ BuffersInv /\ DrawingInv /\ FinishedInv

DamageInv == RingInv /\ FieldsInv /\ (ownerless = {} /\ ~unmarked => SceneInv)

-----------------------------------------------------------------------------
LEMMA RemoveRing ==
  ASSUME window_stack \in Seq(Window), Injective(window_stack), NEW w, remove_window(w)
  PROVE  window_stack' \in Seq(Window) /\ Injective(window_stack') /\ Windows' = Windows \ {w}
<1>1. CASE w \notin Windows
  BY <1>1 DEF remove_window, Windows
<1>2. CASE w \in Windows
  <2> DEFINE k == Position(w)
  <2>1. k \in DOMAIN window_stack /\ window_stack[k] = w
    BY <1>2 DEF Windows, Position
  <2>2. window_stack' = SubSeq(window_stack, k + 1, Len(window_stack)) \o SubSeq(window_stack, 1, k - 1)
    BY <1>2 DEF remove_window
  <2> HIDE DEF k
  <2>3. /\ window_stack' \in Seq(Window) /\ Injective(window_stack')
        /\ Places(window_stack') = Places(window_stack) \ {w}
    BY <2>1, <2>2, Removed
  <2> QED
    BY <2>3 DEF Places, Windows
<1> QED
  BY <1>1, <1>2

(* The loop goes on with the window before this one, or the frame is done. *)
LEMMA NextWindowIs ==
  ASSUME window_stack \in Seq(Window), at \in DOMAIN window_stack, NEW changed, NextWindow(changed)
  PROVE  \/ /\ at # 1 /\ at - 1 \in DOMAIN window_stack /\ at' = at - 1 /\ step' = "draw"
            /\ UNCHANGED <<decoration_damaged, visible_regions_valid, frame_ready,
                           framebuffer_cleared>>
         \/ /\ at = 1 /\ step' = "sleep" /\ decoration_damaged' = decoration_damaged \ {cur_fb}
            /\ frame_ready' = changed
BY DEF NextWindow, FrameDone

LEMMA SameRing ==
  ASSUME RingInv, window_stack' = window_stack, Windows \subseteq allocated',
         step' \in {"draw", "blit"} => at' \in DOMAIN window_stack
  PROVE  RingInv'
BY DEF RingInv, Windows

LEMMA NextRing ==
  ASSUME RingInv, [Next]_vars
  PROVE  RingInv'
<1> USE DEF RingInv
<1>1. CASE Application
  BY <1>1, SameRing DEF Application, window_framebuffer_create, window_present, window_destroy,
     window_vars, local_vars
<1>2. ASSUME NEW w \in Window, WINDOW_CREATE(w) PROVE RingInv'
  <2>1. w \notin allocated /\ window_stack' = <<w>> \o window_stack /\ allocated' = allocated \union {w}
    BY <1>2 DEF WINDOW_CREATE
  <2>2. w \in Window \ Places(window_stack)
    BY <2>1 DEF Places, Windows
  <2>3. /\ window_stack' \in Seq(Window) /\ Injective(window_stack')
        /\ Places(window_stack') = Places(window_stack) \union {w}
    BY <2>1, <2>2, Pushed
  <2> QED
    BY <1>2, <2>1, <2>3 DEF WINDOW_CREATE, Command, Places, Windows
<1>3. ASSUME NEW w \in Window, WINDOW_DESTROY(w) PROVE RingInv'
  BY <1>3, RemoveRing DEF WINDOW_DESTROY, Command
<1>4. ASSUME NEW w \in Window, NEW x \in Cells, WINDOW_MOVE(w, x) PROVE RingInv'
  BY <1>4, SameRing DEF WINDOW_MOVE, Command, window_vars
<1>5. ASSUME NEW w \in Window, NEW size \in Sizes, WINDOW_RESIZE(w, size) PROVE RingInv'
  BY <1>5, SameRing DEF WINDOW_RESIZE, Command, window_vars
<1>6. ASSUME NEW w \in Window, WINDOW_FLAGS(w) PROVE RingInv'
  BY <1>6, SameRing DEF WINDOW_FLAGS, Command, window_vars
<1>7. CASE ALT_TAB
  <2>1. /\ window_stack # <<>> /\ window_stack' = Append(Tail(window_stack), window_stack[1])
        /\ allocated' = allocated /\ step' = step /\ step = "keys"
    BY <1>7 DEF ALT_TAB, Key, Front
  <2>2. /\ window_stack' \in Seq(Window) /\ Injective(window_stack')
        /\ Places(window_stack') = Places(window_stack)
    BY <2>1, Turned
  <2> QED
    BY <2>1, <2>2 DEF Places, Windows
<1>8. CASE FN_KEY
  BY <1>8, SameRing DEF FN_KEY, Key
<1>9. CASE FN_CROSS
  BY <1>9, RemoveRing DEF FN_CROSS, Key
<1>10. CASE Wake \/ CommandsDone
  BY <1>10, SameRing DEF Wake, CommandsDone, window_vars
<1>11. CASE KeysDone
  <2>1. /\ window_stack' = window_stack /\ allocated' = allocated /\ at' = Len(window_stack)
        /\ window_stack = <<>> => step' = "sleep"
    BY <1>11 DEF KeysDone, window_vars
  <2>2. window_stack # <<>> => Len(window_stack) \in DOMAIN window_stack
    OBVIOUS
  <2> QED
    BY <2>1, <2>2, SameRing
<1>12. CASE DropOwnerless
  BY <1>12, RemoveRing DEF DropOwnerless, FrameDone
<1>13. CASE SkipWithoutFramebuffer
  <2>1. UNCHANGED <<window_stack, allocated>> /\ step = "draw" /\ NextWindow(changes)
    BY <1>13 DEF SkipWithoutFramebuffer, window_vars
  <2> QED
    BY <2>1, NextWindowIs, SameRing
<1>14. CASE TakeCleanFlag
  BY <1>14, SameRing DEF TakeCleanFlag, window_vars
<1>15. CASE Blit
  <2>1. UNCHANGED <<window_stack, allocated>> /\ step = "blit" /\ \E c : NextWindow(c)
    BY <1>15 DEF Blit, window_vars
  <2> QED
    BY <2>1, NextWindowIs, SameRing
<1>16. CASE UNCHANGED vars
  BY <1>16, SameRing DEF vars, window_vars, local_vars
<1> QED
  BY <1>1, <1>2, <1>3, <1>4, <1>5, <1>6, <1>7, <1>8, <1>9, <1>10, <1>11, <1>12, <1>13, <1>14,
     <1>15, <1>16 DEF Next, Compositor, Commands, Keys, Render

-----------------------------------------------------------------------------
(* The fields keep their types. *)
LEMMA RemoveFields ==
  ASSUME FieldsInv, NEW w \in Window, remove_window(w)
  PROVE  /\ rect' \in [Window -> SomeRect] /\ rect_orig' \in [Window -> SomeRect]
         /\ fb_dirty' \in [Window -> SUBSET Framebuffers] /\ visible' \in [Window -> SUBSET Int]
         /\ \A v \in Window \ {w} : rect'[v] = rect[v] /\ rect_orig'[v] = rect_orig[v]
<1>1. Empty \in SomeRect
  BY DEF Empty, SomeRect
<1>2. CASE w \in Windows
  BY <1>1, <1>2 DEF FieldsInv, remove_window
<1>3. CASE w \notin Windows
  BY <1>3 DEF FieldsInv, remove_window, rect_vars, content_vars
<1> QED
  BY <1>2, <1>3

LEMMA Numbers ==
  /\ ScreenWidth \in Nat /\ Border \in Nat /\ NumFramebuffers \in Nat \ {0}
  /\ \A s \in Sizes : s \in Int /\ s >= 1 /\ ScreenWidth - (s + 2 * Border) >= 0
  /\ Framebuffers \subseteq Int /\ Cells \subseteq Int
<1>1. /\ ScreenWidth \in Nat /\ Border \in Nat /\ NumFramebuffers \in Nat \ {0}
      /\ Sizes \subseteq 1 .. ScreenWidth - 2 * Border
  BY DisplayAssumption
<1> QED
  BY <1>1 DEF Framebuffers, Cells

(* A cleared buffer, and one with outdated pixels. *)
LEMMA BuffersType ==
  /\ Nothing \in [Framebuffers -> [Cells -> Pixel]]
  /\ [c \in Cells |-> Bg] \in [Cells -> Pixel]
  /\ framebuffers \in [Framebuffers -> [Cells -> Pixel]] =>
       \A pixels : /\ Outdated(pixels) \in [Framebuffers -> [Cells -> Pixel]]
                   /\ \A b \in Framebuffers, c \in Cells :
                        framebuffers[b][c] \notin pixels => Outdated(pixels)[b][c] = framebuffers[b][c]
BY DEF Nothing, Pixel, Outdated

(* The content of w, its visible region, and its position after a clamp. *)
LEMMA Geometry ==
  ASSUME FieldsInv, NEW w \in Window
  PROVE  /\ Content(w) \subseteq Outer(w) /\ Content(w) \subseteq Int
         /\ rect[w].fullscreen => Content(w) = Outer(w)
<1>1. rect[w] \in SomeRect /\ Border \in Nat
  BY Numbers DEF FieldsInv
<1>2. rect[w].x \in Int /\ rect[w].w \in Int /\ rect[w].fullscreen \in BOOLEAN
  BY <1>1 DEF SomeRect
<1>3. CASE rect[w].fullscreen
  BY <1>1, <1>2, <1>3 DEF Content, Outer
<1>4. CASE ~rect[w].fullscreen
  BY <1>1, <1>2, <1>4 DEF Content, Outer
<1> QED
  BY <1>3, <1>4

LEMMA Clamped ==
  ASSUME NEW r \in SomeRect, NEW x \in Int
  PROVE  window_clamp_position(x, r) \in Int
BY Numbers DEF SomeRect, window_clamp_position

LEMMA NextBuffer == cur_fb \in Framebuffers => NextFramebuffer \in Framebuffers
BY Numbers DEF Framebuffers, NextFramebuffer

LEMMA DrawnIsWindow ==
  ASSUME RingInv, step \in {"draw", "blit"}
  PROVE  Drawn \in Windows /\ Windows \subseteq Window
BY DEF RingInv, Drawn, Windows

(* What a blit draws. *)
DrawsContent ==
  framebuffer_cleared \/ Drawn = Front \/ ~is_clean \/ cur_fb \in fb_dirty[Drawn]
DrawsBox ==
  /\ framebuffer_cleared \/ Drawn = Front \/ cur_fb \in decoration_damaged
  /\ ~rect[Drawn].fullscreen
DrawnCells == IF DrawsContent THEN visible[Drawn] ELSE {}
BoxCells   == IF DrawsBox THEN Outer(Drawn) \ Content(Drawn) ELSE {}
BoxPixel   == IF Drawn = Front THEN <<Drawn, "front box">> ELSE Ghost

Blitted(c) ==
  IF c \in BoxCells THEN BoxPixel
  ELSE IF c \in DrawnCells THEN (IF c \in Content(Drawn) THEN <<Drawn, "content">> ELSE Ghost)
  ELSE framebuffers[cur_fb][c]

LEMMA BlitIs ==
  ASSUME FieldsInv, Blit
  PROVE  /\ step = "blit" /\ \E changed : NextWindow(changed)
         /\ framebuffers' = [framebuffers EXCEPT ![cur_fb] = [c \in Cells |-> Blitted(c)]]
         /\ fb_dirty' = IF DrawnCells # {} THEN [fb_dirty EXCEPT ![Drawn] = @ \ {cur_fb}]
                                           ELSE fb_dirty
         /\ UNCHANGED <<window_vars, rect_vars, has_fb, clean, visible, cur_fb, background_damaged>>
BY DEF FieldsInv, Blit, DrawsContent, DrawsBox, DrawnCells, BoxCells, BoxPixel, Blitted

LEMMA NextFields ==
  ASSUME RingInv, FieldsInv, [Next]_vars
  PROVE  FieldsInv'
<1> USE DEF FieldsInv
<1>0. Windows \subseteq Window
  BY DEF RingInv, Windows
<1>1. CASE Application
  BY <1>1, BuffersType DEF Application, window_framebuffer_create, window_present, window_destroy,
     rect_vars, content_vars, frame_vars, damage_vars
<1>2. ASSUME NEW w \in Window, WINDOW_CREATE(w) PROVE FieldsInv'
  <2>1. PICK size \in Sizes :
          rect' = [rect EXCEPT ![w] = [x |-> 0, w |-> size, fullscreen |-> FALSE]]
    BY <1>2 DEF WINDOW_CREATE
  <2>2. rect' \in [Window -> SomeRect]
    BY <2>1, Numbers DEF SomeRect
  <2> QED
    BY <1>2, <2>2, BuffersType DEF WINDOW_CREATE, Command, mark_scene_damaged, content_vars, frame_vars
<1>3. ASSUME NEW w \in Window, WINDOW_DESTROY(w) PROVE FieldsInv'
  BY <1>3, RemoveFields, BuffersType DEF WINDOW_DESTROY, Command, mark_scene_damaged, frame_vars
<1>4. ASSUME NEW w \in Window, NEW x \in Cells, WINDOW_MOVE(w, x) PROVE FieldsInv'
  <2>1. window_clamp_position(x, rect[w]) \in Int
    BY Clamped, Numbers
  <2>2. rect' \in [Window -> SomeRect]
    BY <1>4, <2>1 DEF WINDOW_MOVE, Reshape, SomeRect
  <2> QED
    BY <1>4, <2>2, BuffersType DEF WINDOW_MOVE, Command, Reshape, mark_scene_damaged, content_vars,
       frame_vars
<1>5. ASSUME NEW w \in Window, NEW size \in Sizes, WINDOW_RESIZE(w, size) PROVE FieldsInv'
  <2>1. rect' \in [Window -> SomeRect]
    BY <1>5, Numbers DEF WINDOW_RESIZE, Reshape, SomeRect
  <2> QED
    BY <1>5, <2>1, BuffersType DEF WINDOW_RESIZE, Command, Reshape, mark_scene_damaged, content_vars,
       frame_vars
<1>6. ASSUME NEW w \in Window, WINDOW_FLAGS(w) PROVE FieldsInv'
  <2>1. rect' \in [Window -> SomeRect] /\ rect_orig' \in [Window -> SomeRect]
    <3>1. /\ Empty \in SomeRect /\ rect[w] \in SomeRect /\ rect_orig[w] \in SomeRect
          /\ [x |-> 0, w |-> ScreenWidth, fullscreen |-> TRUE] \in SomeRect
      BY Numbers DEF Empty, SomeRect
    <3>2. CASE rect[w].fullscreen
      BY <1>6, <3>1, <3>2 DEF WINDOW_FLAGS, Reshape
    <3>3. CASE ~rect[w].fullscreen
      BY <1>6, <3>1, <3>3 DEF WINDOW_FLAGS, Reshape
    <3> QED
      BY <3>2, <3>3
  <2> QED
    BY <1>6, <2>1, BuffersType DEF WINDOW_FLAGS, Command, Reshape, mark_scene_damaged, content_vars,
       frame_vars
<1>7. CASE ALT_TAB
  BY <1>7 DEF ALT_TAB, Key, rect_vars, content_vars, frame_vars
<1>8. CASE FN_KEY
  <2>1. Front \in Window
    BY <1>8 DEF FN_KEY, Key, RingInv, Front
  <2>2. PICK dx \in {-1, 0, 1} :
          LET r == [rect[Front] EXCEPT !.x = window_clamp_position(@ + dx, rect[Front])]
          IN /\ rect' = [rect EXCEPT ![Front] = r]
             /\ \/ mark_scene_damaged
                \/ /\ framebuffers' = framebuffers \/ framebuffers' = Outdated(PixelsOf(Front))
                   /\ UNCHANGED <<background_damaged, decoration_damaged>>
    BY <1>8 DEF FN_KEY, Reshape
  <2>3. window_clamp_position(rect[Front].x + dx, rect[Front]) \in Int
    BY <2>1, Clamped DEF SomeRect
  <2>4. rect' \in [Window -> SomeRect]
    BY <2>1, <2>2, <2>3 DEF SomeRect
  <2>5. /\ framebuffers' \in [Framebuffers -> [Cells -> Pixel]]
        /\ background_damaged' \subseteq Framebuffers /\ decoration_damaged' \subseteq Framebuffers
    BY <2>2, BuffersType DEF mark_scene_damaged
  <2> QED
    BY <1>8, <2>4, <2>5 DEF FN_KEY, Key, content_vars, frame_vars
<1>9. CASE FN_CROSS
  <2>1. Front \in Window
    BY <1>9 DEF FN_CROSS, Key, RingInv, Front
  <2> QED
    BY <1>9, <2>1, RemoveFields, BuffersType DEF FN_CROSS, Key, mark_scene_damaged, frame_vars
<1>10. CASE Wake
  BY <1>10, NextBuffer DEF Wake, rect_vars, content_vars, damage_vars
<1>11. CASE CommandsDone
  BY <1>11 DEF CommandsDone, rect_vars, content_vars, frame_vars, damage_vars
<1>12. CASE KeysDone
  <2>1. framebuffers' \in [Framebuffers -> [Cells -> Pixel]]
    BY <1>12, BuffersType DEF KeysDone
  <2> QED
    BY <1>12, <2>1 DEF KeysDone, rect_vars, content_vars
<1>13. CASE DropOwnerless
  BY <1>13, <1>0, DrawnIsWindow, RemoveFields DEF DropOwnerless, FrameDone
<1>14. CASE SkipWithoutFramebuffer \/ TakeCleanFlag
  <2>1. Drawn \in Window /\ step = "draw"
    BY <1>14, DrawnIsWindow DEF SkipWithoutFramebuffer, TakeCleanFlag
  <2>2. window_calculate_visible_regions(Drawn) \subseteq Int
    BY <2>1, Geometry DEF window_calculate_visible_regions
  <2>3. visible' \in [Window -> SUBSET Int]
    BY <1>14, <2>1, <2>2 DEF SkipWithoutFramebuffer, TakeCleanFlag, SeeDrawn
  <2>4. CASE SkipWithoutFramebuffer
    <3>1. decoration_damaged' \subseteq Framebuffers
      BY <2>4 DEF SkipWithoutFramebuffer, NextWindow, FrameDone
    <3> QED
      BY <2>3, <2>4, <3>1 DEF SkipWithoutFramebuffer, rect_vars, content_vars
  <2>5. CASE TakeCleanFlag
    BY <2>1, <2>3, <2>5 DEF TakeCleanFlag, DirtyAll, rect_vars, frame_vars, damage_vars
  <2> QED
    BY <1>14, <2>4, <2>5
<1>15. CASE Blit
  <2>1. Drawn \in Window
    BY <1>15, DrawnIsWindow DEF Blit
  <2>2. framebuffers' \in [Framebuffers -> [Cells -> Pixel]]
    <3>1. \A c \in Cells : framebuffers[cur_fb][c] \in Pixel
      OBVIOUS
    <3>2. \A c \in Cells : Blitted(c) \in Pixel
      BY <2>1, <3>1 DEF Blitted, BoxPixel, Pixel
    <3> QED
      BY <1>15, <3>2, BlitIs
  <2>3. decoration_damaged' \subseteq Framebuffers /\ fb_dirty' \in [Window -> SUBSET Framebuffers]
    BY <1>15, <2>1, BlitIs DEF NextWindow, FrameDone
  <2> QED
    BY <1>15, <2>2, <2>3 DEF Blit, rect_vars
<1>16. CASE UNCHANGED vars
  BY <1>16 DEF vars, rect_vars, content_vars, frame_vars, damage_vars
<1> QED
  BY <1>1, <1>2, <1>3, <1>4, <1>5, <1>6, <1>7, <1>8, <1>9, <1>10, <1>11, <1>12, <1>13, <1>14,
     <1>15, <1>16 DEF Next, Compositor, Commands, Keys, Render

-----------------------------------------------------------------------------
(* The scene. *)
LEMMA PixelsDiffer ==
  /\ \A w \in Window : Bg # <<w, "content">>
  /\ \A w, v \in Window : <<w, "front box">> # <<v, "content">>
  /\ \A w, v \in Window : w # v => <<w, "content">> # <<v, "content">>
<1>1. ASSUME NEW w \in Window PROVE Bg # <<w, "content">>
  <2>1. Len(Bg) = 1 /\ Len(<<w, "content">>) = 2
    BY DEF Bg
  <2> QED
    BY <2>1
<1> QED
  BY <1>1

(* The visible region of the window at place i is where it is on top. *)
LEMMA RegionIs ==
  ASSUME RingInv, FieldsInv, NEW i \in DOMAIN window_stack
  PROVE  /\ window_stack[i] \in Window
         /\ \A c : c \in window_calculate_visible_regions(window_stack[i]) <=>
                     c \in Content(window_stack[i]) /\ Top(i, c)
<1>1. window_stack[i] \in Window /\ Position(window_stack[i]) = i
  BY DEF RingInv, Injective, Position
<1>2. Content(window_stack[i]) \subseteq Outer(window_stack[i])
  BY <1>1, Geometry
<1> QED
  BY <1>1, <1>2 DEF window_calculate_visible_regions, Top

(* What is on top stays as long as neither the ring nor a window changes. *)
LEMMA StillOnTop ==
  ASSUME window_stack' = window_stack, rect' = rect
  PROVE  /\ \A w : Content(w)' = Content(w) /\ Outer(w)' = Outer(w)
         /\ \A w : window_calculate_visible_regions(w)' = window_calculate_visible_regions(w)
         /\ \A i, c : Top(i, c)' = Top(i, c)
         /\ \A c : Bare(c)' = Bare(c) /\ Overlaps(c)' = Overlaps(c)
<1>1. \A w : Content(w)' = Content(w) /\ Outer(w)' = Outer(w)
  BY DEF Content, Outer
<1> QED
  BY <1>1 DEF window_calculate_visible_regions, Position, Top, Bare, Overlaps

(* After mark_scene_damaged() everything will be drawn again. *)
LEMMA MarkedScene ==
  ASSUME FieldsInv', mark_scene_damaged, ~Drawing', step' # "sleep"
  PROVE  SceneInv'
BY DEF FieldsInv, mark_scene_damaged, SceneInv, VisibleInv, Seen, DecorationInv, BuffersInv,
       DrawingInv, FinishedInv, Drawing

(* Nothing happens to the scene between two steps of the loop. *)
LEMMA IdleScene ==
  ASSUME SceneInv, ~Drawing, ~Drawing', step' # "sleep",
         UNCHANGED <<window_stack, rect, has_fb, clean, fb_dirty, visible, framebuffers,
                     background_damaged, decoration_damaged, visible_regions_valid>>
  PROVE  SceneInv'
<1>1. VisibleInv' /\ DecorationInv'
  BY StillOnTop DEF SceneInv, VisibleInv, Seen, Drawing, DecorationInv, damage_vars
<1>2. \A b : Kept(b)' = Kept(b)
  BY StillOnTop DEF Kept, Repaired, Flagged
<1>3. BuffersInv'
  BY <1>2 DEF SceneInv, BuffersInv, damage_vars, Framebuffers
<1> QED
  BY <1>1, <1>3 DEF SceneInv, DrawingInv, FinishedInv

(* Nor when a buffer lacks more only where a flag says so. *)
LEMMA FlaggedScene ==
  ASSUME SceneInv, FieldsInv, RingInv,
         UNCHANGED <<window_stack, rect, visible, frame_vars, damage_vars, step, local_vars>>,
         \A b \in Framebuffers, w \in Window : Flagged(b, w) => Flagged(b, w)',
         \A b \in Framebuffers, c \in Cells : framebuffers[b][c] = Bg => framebuffers'[b][c] = Bg,
         \A b \in Framebuffers, c \in Cells, w \in Window :
           framebuffers[b][c] = <<w, "content">> =>
             framebuffers'[b][c] = <<w, "content">> \/ Flagged(b, w)',
         \A b \in Framebuffers, c \in Cells, w \in Window :
           framebuffers[b][c] = <<w, "front box">> =>
             framebuffers'[b][c] = <<w, "front box">> \/ Flagged(b, w)'
  PROVE  SceneInv'
<1>1. VisibleInv' /\ DecorationInv'
  BY StillOnTop DEF SceneInv, VisibleInv, Seen, Drawing, DecorationInv, damage_vars, frame_vars, local_vars
<1>2. \A i \in DOMAIN window_stack : window_stack[i] \in Window
  BY RegionIs
<1>3. \A b \in Framebuffers, c \in Cells, w \in Window : Repaired(b, w, c) => Repaired(b, w, c)'
  BY StillOnTop DEF Repaired
<1>4. \A b \in Framebuffers : Kept(b) => Kept(b)'
  BY <1>2, <1>3, StillOnTop DEF Kept
<1>5. BuffersInv'
  BY <1>4 DEF SceneInv, BuffersInv, Drawing, damage_vars, frame_vars, Framebuffers
<1>6. DrawingInv'
  BY <1>2, <1>3, StillOnTop DEF SceneInv, DrawingInv, Drawing, damage_vars, frame_vars, local_vars, FieldsInv
<1>7. \A b \in Framebuffers, c \in Cells, w \in Window : Boxed(b, w, c) => Boxed(b, w, c)'
  BY StillOnTop DEF Boxed
<1>8. FinishedInv'
  BY <1>2, <1>3, <1>7, StillOnTop DEF SceneInv, FinishedInv, damage_vars, frame_vars, FieldsInv
<1> QED
  BY <1>1, <1>5, <1>6, <1>8 DEF SceneInv

LEMMA ApplicationScene ==
  ASSUME SceneInv, FieldsInv, RingInv, Application, ownerless' = {}
  PROVE  SceneInv'
<1>1. ASSUME NEW w \in Window, window_framebuffer_create(w) PROVE SceneInv'
  <2>1. /\ has_fb' = has_fb \union {w} /\ w \notin has_fb /\ clean' = clean \union {w}
        /\ fb_dirty' = [fb_dirty EXCEPT ![w] = Framebuffers] /\ framebuffers' = framebuffers
        /\ UNCHANGED <<window_stack, rect, visible, frame_vars, damage_vars, step, local_vars>>
    BY <1>1 DEF window_framebuffer_create, window_vars, rect_vars
  <2>2. \A b \in Framebuffers, v \in Window : Flagged(b, v) => Flagged(b, v)'
    BY <2>1 DEF Flagged, FieldsInv
  <2> QED
    BY <2>1, <2>2, FlaggedScene
<1>2. ASSUME NEW w \in Window, window_present(w) PROVE SceneInv'
  <2>1. /\ has_fb' = has_fb /\ clean' = clean \ {w} /\ fb_dirty' = fb_dirty
        /\ framebuffers' = Outdated({<<w, "content">>})
        /\ UNCHANGED <<window_stack, rect, visible, frame_vars, damage_vars, step, local_vars>>
    BY <1>2 DEF window_present, window_vars, rect_vars
  <2>2. /\ \A b \in Framebuffers, v \in Window : Flagged(b, v) => Flagged(b, v)'
        /\ \A b \in Framebuffers : Flagged(b, w)'
    BY <2>1 DEF Flagged
  <2>3. \A b \in Framebuffers, c \in Cells :
          framebuffers[b][c] # <<w, "content">> => framebuffers'[b][c] = framebuffers[b][c]
    BY <2>1, BuffersType DEF FieldsInv
  <2> QED
    BY <2>1, <2>2, <2>3, PixelsDiffer, FlaggedScene
<1>3. ASSUME NEW w \in Window, window_destroy(w) PROVE FALSE
  BY <1>3 DEF window_destroy
<1> QED
  BY <1>1, <1>2, <1>3 DEF Application

LEMMA AltTabScene ==
  ASSUME SceneInv, RingInv, FieldsInv, ALT_TAB, ~unmarked'
  PROVE  SceneInv'
<1> DEFINE s == window_stack
<1>1. /\ step = "keys" /\ step' = "keys" /\ visible_regions_valid' = FALSE
      /\ window_stack' = Append(Tail(window_stack), window_stack[1])
      /\ s # <<>> /\ ~(Len(s) > 2)
      /\ UNCHANGED <<background_damaged, rect, has_fb, clean, fb_dirty, framebuffers>>
  BY DisplayAssumption DEF ALT_TAB, Key, Front, rect_vars, content_vars, RingInv
<1>2. /\ Len(window_stack') = Len(s) /\ DOMAIN window_stack' = DOMAIN s /\ Len(s) \in {1, 2}
      /\ DOMAIN s = 1 .. Len(s)
      /\ \A i \in DOMAIN s : window_stack'[i] = IF i = Len(s) THEN s[1] ELSE s[i + 1]
  <2>1. s \in Seq(Window) /\ Injective(s)
    BY DEF RingInv
  <2>2. Len(s) \in {1, 2} /\ DOMAIN s = 1 .. Len(s)
    <3>1. \A t \in Seq(Window) : Len(t) \in Nat /\ DOMAIN t = 1 .. Len(t) /\ (t # <<>> => Len(t) # 0)
      OBVIOUS
    <3>2. Len(s) \in Nat /\ DOMAIN s = 1 .. Len(s) /\ Len(s) # 0 /\ Len(s) <= 2
      BY <1>1, <2>1, <3>1
    <3> QED
      BY <3>2
  <2> QED
    BY <1>1, <2>1, <2>2, Turned
<1>3. VisibleInv' /\ DecorationInv' /\ DrawingInv' /\ FinishedInv'
  BY <1>1, <1>2 DEF VisibleInv, Seen, DecorationInv, DrawingInv, Drawing, FinishedInv
<1>4. ASSUME NEW b, Kept(b) PROVE Kept(b)'
  <2>1. \A w : Outer(w)' = Outer(w) /\ Content(w)' = Content(w)
    BY <1>1 DEF Outer, Content
  <2>2. \A w, c : Repaired(b, w, c)' = Repaired(b, w, c)
    BY <1>1, <2>1 DEF Repaired, Flagged
  <2>3. CASE Len(s) = 1
    <3>1. 1 \in DOMAIN s /\ DOMAIN s = {1} /\ window_stack'[1] = s[1] /\ DOMAIN window_stack' = {1}
      BY <1>2, <2>3
    <3>2. \A c : Bare(c)' = Bare(c) /\ Overlaps(c)' = Overlaps(c) /\ Top(1, c)' = Top(1, c)
      BY <2>1, <3>1 DEF Bare, Overlaps, Top
    <3>3. \A c : Repaired(b, window_stack[1], c)' = Repaired(b, window_stack[1], c)
      BY <2>2, <3>1
    <3> QED
      BY <1>1, <1>4, <3>1, <3>2, <3>3 DEF Kept
  <2>4. CASE Len(s) = 2
    <3>1. /\ DOMAIN s = {1, 2} /\ DOMAIN window_stack' = {1, 2}
          /\ window_stack'[1] = s[2] /\ window_stack'[2] = s[1]
      BY <1>2, <2>4
    <3>2. ASSUME NEW c
          PROVE  /\ Bare(c) <=> c \notin Outer(s[1]) /\ c \notin Outer(s[2])
                 /\ Bare(c)' <=> Bare(c)
                 /\ Top(1, c) <=> c \in Outer(s[1])
                 /\ Top(2, c) <=> c \in Outer(s[2]) /\ c \notin Outer(s[1])
                 /\ Top(1, c)' <=> c \in Outer(s[2])
                 /\ Top(2, c)' <=> c \in Outer(s[1]) /\ c \notin Outer(s[2])
                 /\ Overlaps(c) <=> c \in Outer(s[2])
                 /\ Overlaps(c)' <=> c \in Outer(s[1])
      <4>1. 1 .. 0 = {} /\ 1 .. 1 = {1} /\ 1 - 1 = 0 /\ 2 - 1 = 1
        OBVIOUS
      <4> QED
        BY <2>1, <3>1, <4>1 DEF Bare, Top, Overlaps
    <3>3. \A c : /\ Repaired(b, window_stack[1], c)' = Repaired(b, s[2], c)
                 /\ Repaired(b, window_stack[2], c)' = Repaired(b, s[1], c)
      BY <2>2, <3>1
    <3> QED
      BY <1>1, <1>4, <3>1, <3>2, <3>3 DEF Kept
  <2> QED
    BY <1>2, <2>3, <2>4
<1>5. BuffersInv'
  BY <1>1, <1>4 DEF SceneInv, BuffersInv, Drawing, Framebuffers
<1> QED
  BY <1>3, <1>5 DEF SceneInv

(* FN with a key that is no arrow does not move the window, or is recorded. *)
LEMMA FnKeyScene ==
  ASSUME SceneInv, FieldsInv, FieldsInv', FN_KEY, ~unmarked'
  PROVE  SceneInv'
<1>1. step = "keys" /\ step' = "keys"
  BY DEF FN_KEY, Key
<1>2. CASE mark_scene_damaged
  BY <1>1, <1>2, MarkedScene DEF Drawing
<1>3. CASE ~mark_scene_damaged
  <2>1. \E dx \in {-1, 0, 1} :
          LET r == [rect[Front] EXCEPT !.x = window_clamp_position(@ + dx, rect[Front])]
          IN /\ rect' = [rect EXCEPT ![Front] = r] /\ r = rect[Front]
             /\ framebuffers' = framebuffers
    BY <1>3 DEF FN_KEY, Reshape
  <2>2. UNCHANGED <<background_damaged, decoration_damaged, visible_regions_valid>>
    BY <1>3 DEF FN_KEY, Reshape
  <2>3. rect' = rect /\ framebuffers' = framebuffers
    BY <2>1 DEF FieldsInv
  <2> QED
    BY <1>1, <2>2, <2>3, IdleScene DEF FN_KEY, content_vars, Drawing
<1> QED
  BY <1>2, <1>3

(* The frame begins: the buffer is cleared, or it was kept. *)
LEMMA KeysDoneScene ==
  ASSUME SceneInv, RingInv, FieldsInv, KeysDone
  PROVE  SceneInv'
<1> DEFINE damaged == cur_fb \in background_damaged
<1>1. /\ step = "keys" /\ at' = Len(window_stack)
      /\ background_damaged' = background_damaged \ {cur_fb}
      /\ UNCHANGED <<window_stack, rect, has_fb, clean, fb_dirty, visible, cur_fb,
                     decoration_damaged, visible_regions_valid>>
  BY DEF KeysDone, window_vars, rect_vars, content_vars
<1>2. /\ cur_fb \in Framebuffers
      /\ \A b \in Framebuffers \ {cur_fb} : framebuffers'[b] = framebuffers[b]
      /\ damaged => \A c \in Cells : framebuffers'[cur_fb][c] = Bg
      /\ ~damaged => framebuffers' = framebuffers
  BY DEF KeysDone, FieldsInv
<1>3. /\ window_stack \in Seq(Window) /\ Len(window_stack) \in Nat
      /\ DOMAIN window_stack = 1 .. Len(window_stack)
  BY DEF RingInv
<1>4. \A b \in Framebuffers \ {cur_fb} : Kept(b) => Kept(b)'
  BY <1>1, <1>2, StillOnTop DEF Kept, Repaired, Flagged
<1>5. ~damaged => Kept(cur_fb) /\ Kept(cur_fb)' = Kept(cur_fb)
  BY <1>1, <1>2, StillOnTop DEF Kept, Repaired, Flagged, SceneInv, BuffersInv, Drawing
<1>6. CASE window_stack = <<>>
  <2>1. step' = "sleep" /\ frame_ready' = damaged
    BY <1>6 DEF KeysDone
  <2>2. VisibleInv' /\ DecorationInv' /\ DrawingInv'
    BY <1>1, <1>6, <2>1 DEF VisibleInv, DecorationInv, DrawingInv, Drawing
  <2>3. damaged => Kept(cur_fb)'
    BY <1>1, <1>2, <1>6 DEF Kept
  <2>4. BuffersInv'
    BY <1>1, <1>2, <1>4, <1>5, <2>3 DEF SceneInv, BuffersInv, Drawing, Framebuffers
  <2>5. FinishedInv'
    <3>1. DOMAIN window_stack' = {}
      BY <1>1, <1>6
    <3>2. frame_ready' => cur_fb' \notin background_damaged'
            /\ \A c \in Cells : framebuffers'[cur_fb'][c] = Bg
      BY <1>1, <1>2, <2>1
    <3> QED
      BY <3>1, <3>2 DEF FinishedInv
  <2> QED
    BY <2>2, <2>4, <2>5 DEF SceneInv
<1>7. CASE window_stack # <<>>
  <2>1. step' = "draw" /\ framebuffer_cleared' = damaged
    BY <1>7 DEF KeysDone
  <2>2. VisibleInv'
    BY <1>1, <1>3, <2>1, StillOnTop DEF SceneInv, VisibleInv, Seen
  <2>3. DecorationInv'
    BY <1>1, <1>2, <2>1 DEF SceneInv, DecorationInv, Drawing
  <2>4. BuffersInv'
    BY <1>1, <1>2, <1>4, <2>1 DEF SceneInv, BuffersInv, Drawing, Framebuffers
  <2>5. DrawingInv'
    <3>1. cur_fb' \notin background_damaged'
      BY <1>1
    <3>2. CASE damaged
      <4>1. \A c \in Cells : framebuffers'[cur_fb'][c] = Bg
        BY <1>1, <1>2, <3>2
      <4>2. \A i \in DOMAIN window_stack' : i <= at'
        BY <1>1, <1>3
      <4>3. framebuffer_cleared'
        <5>1. damaged = TRUE
          BY <3>2
        <5> HIDE DEF damaged
        <5> QED
          BY <2>1, <5>1
      <4> QED
        BY <3>1, <4>1, <4>2, <4>3 DEF DrawingInv
    <3>3. CASE ~damaged
      <4>1. Kept(cur_fb)'
        BY <1>5, <3>3
      <4> QED
        BY <1>1, <1>3, <2>1, <3>1, <4>1 DEF Kept, DrawingInv
    <3> QED
      BY <3>2, <3>3
  <2> QED
    BY <2>1, <2>2, <2>3, <2>4, <2>5 DEF SceneInv, FinishedInv
<1> QED
  BY <1>6, <1>7

(* The loop goes on: the window at hand is repaired where it is on top, and *)
(* nothing else has got worse.                                              *)
LEMMA AdvanceScene ==
  ASSUME RingInv, FieldsInv, Drawing, DecorationInv, cur_fb \notin background_damaged,
         UNCHANGED <<window_stack, rect, cur_fb, background_damaged>>,
         NEW changed, NextWindow(changed),
         \A i \in DOMAIN window_stack : visible_regions_valid \/ i >= at =>
           visible'[window_stack[i]] = window_calculate_visible_regions(window_stack[i]),
         \A b \in Framebuffers \ background_damaged : b # cur_fb => Kept(b)',
         \A c \in Cells : Bare(c) => framebuffers'[cur_fb][c] = Bg,
         \A c \in Cells, i \in DOMAIN window_stack : Top(i, c) =>
           \/ i < at /\ (i = 1 \/ framebuffer_cleared)
           \/ Repaired(cur_fb, window_stack[i], c)',
         at = 1 => \A c \in Cells : Top(1, c) => Boxed(cur_fb, window_stack[1], c)'
  PROVE  SceneInv'
<1>1. /\ window_stack \in Seq(Window) /\ at \in DOMAIN window_stack
      /\ DOMAIN window_stack \subseteq Nat \ {0}
  BY DEF RingInv, Drawing
<1>2. CASE /\ at # 1 /\ at - 1 \in DOMAIN window_stack /\ at' = at - 1 /\ step' = "draw"
           /\ UNCHANGED <<decoration_damaged, visible_regions_valid, frame_ready,
                          framebuffer_cleared>>
  <2>1. VisibleInv'
    BY <1>1, <1>2, StillOnTop DEF VisibleInv, Seen
  <2>2. DecorationInv'
    BY <1>2 DEF DecorationInv, Drawing
  <2>3. BuffersInv'
    BY <1>2 DEF BuffersInv, Drawing, Framebuffers
  <2>4. DrawingInv'
    <3>1. \A i \in DOMAIN window_stack : i < at => i <= at'
      BY <1>1, <1>2
    <3> QED
      BY <1>2, <3>1, StillOnTop DEF DrawingInv
  <2> QED
    BY <1>2, <2>1, <2>2, <2>3, <2>4 DEF SceneInv, FinishedInv
<1>3. CASE /\ at = 1 /\ step' = "sleep" /\ decoration_damaged' = decoration_damaged \ {cur_fb}
           /\ frame_ready' = changed
  <2>1. VisibleInv'
    BY <1>1, <1>3, StillOnTop DEF VisibleInv, Seen
  <2>2. DecorationInv'
    BY <1>3 DEF DecorationInv, Drawing
  <2>3. \A c \in Cells, i \in DOMAIN window_stack : Top(i, c) => Repaired(cur_fb, window_stack[i], c)'
    BY <1>1, <1>3
  <2>4. Kept(cur_fb)'
    BY <2>3, StillOnTop DEF Kept
  <2>5. BuffersInv'
    BY <1>3, <2>4 DEF BuffersInv, Drawing, Framebuffers
  <2>6. FinishedInv'
    BY <1>3, <2>3, StillOnTop DEF FinishedInv
  <2> QED
    BY <1>3, <2>1, <2>2, <2>5, <2>6 DEF SceneInv, DrawingInv, Drawing
<1> QED
  BY <1>1, <1>2, <1>3, NextWindowIs

(* The drawn window has its visible region, before the loop goes on. *)
LEMMA SeeDrawnIs ==
  ASSUME RingInv, FieldsInv, VisibleInv, step = "draw", SeeDrawn
  PROVE  \A i \in DOMAIN window_stack : visible_regions_valid \/ i >= at =>
           visible'[window_stack[i]] = window_calculate_visible_regions(window_stack[i])
<1>1. CASE visible_regions_valid
  BY <1>1 DEF SeeDrawn, VisibleInv
<1>2. CASE ~visible_regions_valid
  <2> SUFFICES ASSUME NEW i \in DOMAIN window_stack, i >= at
               PROVE  visible'[window_stack[i]] = window_calculate_visible_regions(window_stack[i])
    BY <1>2
  <2>1. /\ window_stack[i] \in Window /\ Drawn \in Window /\ visible \in [Window -> SUBSET Int]
        /\ at \in DOMAIN window_stack /\ DOMAIN window_stack \subseteq Int
    BY RegionIs DEF RingInv, FieldsInv, Drawn
  <2>2. visible' = [visible EXCEPT ![Drawn] = window_calculate_visible_regions(Drawn)]
    BY <1>2 DEF SeeDrawn
  <2>3. CASE window_stack[i] = Drawn
    BY <2>1, <2>2, <2>3
  <2>4. CASE window_stack[i] # Drawn
    <3>1. i # at
      BY <2>4 DEF Drawn
    <3>2. i > at
      BY <2>1, <3>1
    <3> QED
      BY <2>1, <2>2, <2>4, <3>2 DEF VisibleInv, Seen
  <2> QED
    BY <2>3, <2>4
<1> QED
  BY <1>1, <1>2

(* A window without a framebuffer is skipped. *)
LEMMA SkipScene ==
  ASSUME SceneInv, RingInv, FieldsInv, SkipWithoutFramebuffer
  PROVE  SceneInv'
<1>1. /\ step = "draw" /\ SeeDrawn /\ NextWindow(changes) /\ Drawn \notin has_fb /\ Drawing
      /\ UNCHANGED <<window_stack, rect, has_fb, clean, fb_dirty, framebuffers, cur_fb,
                     background_damaged>>
  BY DEF SkipWithoutFramebuffer, window_vars, rect_vars, content_vars, Drawing
<1>2. at \in DOMAIN window_stack /\ DOMAIN window_stack \subseteq Int
  BY <1>1 DEF RingInv
<1>3. \A b, w, c : Repaired(b, w, c)' = Repaired(b, w, c)
  BY <1>1, StillOnTop DEF Repaired, Flagged
<1>4. \A b, w : w = Drawn => Flagged(b, w)'
  BY <1>1 DEF Flagged
<1>5. \A b : Kept(b)' = Kept(b)
  BY <1>1, <1>3, StillOnTop DEF Kept
<1>6. cur_fb \notin background_damaged
  BY <1>1 DEF SceneInv, DrawingInv
<1>7. \A b \in Framebuffers \ background_damaged : b # cur_fb => Kept(b)'
  BY <1>5 DEF SceneInv, BuffersInv
<1>8. \A c \in Cells : Bare(c) => framebuffers'[cur_fb][c] = Bg
  BY <1>1 DEF SceneInv, DrawingInv
<1>9. \A c \in Cells, i \in DOMAIN window_stack : Top(i, c) =>
         \/ i < at /\ (i = 1 \/ framebuffer_cleared)
         \/ Repaired(cur_fb, window_stack[i], c)'
  <2> SUFFICES ASSUME NEW c \in Cells, NEW i \in DOMAIN window_stack, Top(i, c),
                      ~(i < at /\ (i = 1 \/ framebuffer_cleared))
               PROVE  Repaired(cur_fb, window_stack[i], c)'
    OBVIOUS
  <2>1. CASE i = at
    <3>1. Flagged(cur_fb, window_stack[i])'
      BY <1>1, <1>4, <2>1 DEF Drawn
    <3> QED
      BY <3>1 DEF Repaired
  <2>2. CASE i # at
    <3>1. ~(i <= at /\ (i = 1 \/ framebuffer_cleared))
      BY <1>2, <2>2
    <3>2. Repaired(cur_fb, window_stack[i], c)
      BY <1>1, <3>1 DEF SceneInv, DrawingInv
    <3>3. Repaired(cur_fb, window_stack[i], c)' = Repaired(cur_fb, window_stack[i], c)
      BY <1>1, StillOnTop DEF Repaired, Flagged
    <3> QED
      BY <3>2, <3>3
  <2> QED
    BY <2>1, <2>2
<1>10. at = 1 => \A c \in Cells : Top(1, c) => Boxed(cur_fb, window_stack[1], c)'
  <2>1. at = 1 => Flagged(cur_fb, window_stack[1])'
    BY <1>1, <1>4 DEF Drawn
  <2> QED
    BY <2>1 DEF Boxed
<1>11. \A i \in DOMAIN window_stack : visible_regions_valid \/ i >= at =>
          visible'[window_stack[i]] = window_calculate_visible_regions(window_stack[i])
  BY <1>1, SeeDrawnIs DEF SceneInv
<1>12. DecorationInv
  BY DEF SceneInv
<1> QED
  BY <1>1, <1>6, <1>7, <1>8, <1>9, <1>10, <1>11, <1>12, AdvanceScene

(* The clean flag is taken: whatever was outdated is now a dirty buffer.     *)
LEMMA TakeScene ==
  ASSUME SceneInv, RingInv, FieldsInv, TakeCleanFlag
  PROVE  SceneInv'
<1>1. /\ step = "draw" /\ step' = "blit" /\ SeeDrawn
      /\ clean' = clean \union {Drawn}
      /\ fb_dirty' = IF Drawn \in clean THEN fb_dirty ELSE [fb_dirty EXCEPT ![Drawn] = Framebuffers]
      /\ UNCHANGED <<window_stack, rect, has_fb, framebuffers, cur_fb, frame_ready, damage_vars,
                     at, framebuffer_cleared>>
  BY DEF TakeCleanFlag, window_vars, rect_vars, frame_vars, DirtyAll
<1>2. \A i \in DOMAIN window_stack : window_stack[i] \in Window
  BY RegionIs
<1>3. \A b \in Framebuffers, w \in Window : Flagged(b, w) => Flagged(b, w)'
  BY <1>1 DEF Flagged, FieldsInv
<1>4. \A b \in Framebuffers, c \in Cells, w \in Window : Repaired(b, w, c) => Repaired(b, w, c)'
  BY <1>1, <1>3, StillOnTop DEF Repaired
<1>5. \A b \in Framebuffers : Kept(b) => Kept(b)'
  BY <1>1, <1>2, <1>4, StillOnTop DEF Kept
<1>6. VisibleInv'
  <2>1. \A i \in DOMAIN window_stack : visible_regions_valid \/ i >= at =>
          visible'[window_stack[i]] = window_calculate_visible_regions(window_stack[i])
    BY <1>1, SeeDrawnIs DEF SceneInv
  <2> QED
    BY <1>1, <2>1, StillOnTop DEF VisibleInv, Seen, damage_vars
<1>7. DecorationInv'
  BY <1>1 DEF SceneInv, DecorationInv, Drawing, damage_vars
<1>8. BuffersInv'
  BY <1>1, <1>5 DEF SceneInv, BuffersInv, Drawing, damage_vars, Framebuffers
<1>9. DrawingInv'
  BY <1>1, <1>2, <1>4, StillOnTop DEF SceneInv, DrawingInv, Drawing, damage_vars, FieldsInv
<1> QED
  BY <1>1, <1>6, <1>7, <1>8, <1>9 DEF SceneInv, FinishedInv

(* A blit repairs its window, and no other one suffers. *)
LEMMA BlitScene ==
  ASSUME SceneInv, RingInv, FieldsInv, Blit
  PROVE  SceneInv'
<1>1. /\ step = "blit" /\ Drawing
      /\ framebuffers' = [framebuffers EXCEPT ![cur_fb] = [c \in Cells |-> Blitted(c)]]
      /\ fb_dirty' = IF DrawnCells # {} THEN [fb_dirty EXCEPT ![Drawn] = @ \ {cur_fb}] ELSE fb_dirty
      /\ UNCHANGED <<window_stack, rect, has_fb, clean, visible, cur_fb, background_damaged>>
  BY BlitIs DEF window_vars, rect_vars, Drawing
<1>2. /\ window_stack \in Seq(Window) /\ at \in DOMAIN window_stack /\ Drawn \in Window
      /\ DOMAIN window_stack = 1 .. Len(window_stack) /\ Len(window_stack) \in Nat
      /\ \A i \in DOMAIN window_stack : window_stack[i] \in Window
      /\ \A i \in DOMAIN window_stack : window_stack[i] = Drawn <=> i = at
  BY <1>1 DEF RingInv, Injective, Drawn
<1>3. Drawn = Front <=> at = 1
  BY <1>2 DEF Front, Drawn
<1>4. \A c : c \in visible[Drawn] <=> c \in Content(Drawn) /\ Top(at, c)
  BY <1>1, <1>2, RegionIs DEF SceneInv, VisibleInv, Seen, Drawn
<1>5. Content(Drawn) \subseteq Outer(Drawn)
  BY <1>2, Geometry
<1>6. \A c : c \in DrawnCells => c \in Content(Drawn) /\ Top(at, c)
  BY <1>4 DEF DrawnCells
<1>7. \A c : c \in BoxCells => c \in Outer(Drawn) /\ c \notin Content(Drawn) /\ DrawsBox
  BY DEF BoxCells
<1>8. /\ \A c \in Cells : framebuffers'[cur_fb][c] = Blitted(c)
      /\ \A b \in Framebuffers \ {cur_fb} : framebuffers'[b] = framebuffers[b]
  BY <1>1 DEF FieldsInv
<1>9. ASSUME NEW c \in Cells, c \notin Outer(Drawn) PROVE framebuffers'[cur_fb][c] = framebuffers[cur_fb][c]
  BY <1>5, <1>6, <1>7, <1>8, <1>9 DEF Blitted
<1>10. \A b, w : (b # cur_fb \/ w # Drawn) /\ w \in Window => Flagged(b, w)' = Flagged(b, w)
  <2> SUFFICES ASSUME NEW b, NEW w \in Window, b # cur_fb \/ w # Drawn
               PROVE  b \in fb_dirty'[w] <=> b \in fb_dirty[w]
    BY <1>1 DEF Flagged
  <2>1. CASE fb_dirty' = fb_dirty
    BY <2>1
  <2>2. CASE fb_dirty' = [fb_dirty EXCEPT ![Drawn] = @ \ {cur_fb}]
    BY <1>2, <2>2 DEF FieldsInv
  <2> QED
    BY <1>1, <2>1, <2>2
<1>11. \A b \in Framebuffers \ background_damaged : b # cur_fb => Kept(b)'
  <2>1. \A b \in Framebuffers, c \in Cells, w \in Window : b # cur_fb => Repaired(b, w, c)' = Repaired(b, w, c)
    BY <1>1, <1>8, <1>10, StillOnTop DEF Repaired
  <2>2. \A b \in Framebuffers : b # cur_fb /\ Kept(b) => Kept(b)'
    <3> SUFFICES ASSUME NEW b \in Framebuffers, b # cur_fb, Kept(b) PROVE Kept(b)'
      OBVIOUS
    <3>1. \A c, i : Bare(c)' = Bare(c) /\ Overlaps(c)' = Overlaps(c) /\ Top(i, c)' = Top(i, c)
      BY <1>1, StillOnTop
    <3>2. framebuffers'[b] = framebuffers[b] /\ window_stack' = window_stack
      BY <1>1, <1>8
    <3>3. \A c \in Cells, i \in DOMAIN window_stack :
            Repaired(b, window_stack[i], c)' = Repaired(b, window_stack[i], c)
      BY <1>1, <1>2, <2>1
    <3> QED
      BY <3>1, <3>2, <3>3 DEF Kept
  <2> QED
    BY <2>2 DEF SceneInv, BuffersInv
<1>12. \A c \in Cells : Bare(c) => framebuffers'[cur_fb][c] = Bg
  <2>1. \A c : Bare(c) => c \notin Outer(Drawn)
    BY <1>2 DEF Bare
  <2> QED
    BY <1>1, <1>9, <2>1 DEF SceneInv, DrawingInv
<1>13. \A c \in Cells, i \in DOMAIN window_stack : Top(i, c) =>
         \/ i < at /\ (i = 1 \/ framebuffer_cleared)
         \/ Repaired(cur_fb, window_stack[i], c)'
  <2> SUFFICES ASSUME NEW c \in Cells, NEW i \in DOMAIN window_stack, Top(i, c),
                      ~(i < at /\ (i = 1 \/ framebuffer_cleared)), c \in Content(window_stack[i])
               PROVE  framebuffers'[cur_fb][c] = <<window_stack[i], "content">>
                        \/ Flagged(cur_fb, window_stack[i])'
    BY <1>1, StillOnTop DEF Repaired
  <2>1. CASE i = at
    <3>1. c \notin BoxCells /\ window_stack[i] = Drawn
      BY <1>2, <1>7, <2>1
    <3>2. CASE DrawsContent
      <4>1. c \in DrawnCells
        BY <1>4, <2>1, <3>1, <3>2 DEF DrawnCells
      <4> QED
        BY <1>8, <3>1, <4>1 DEF Blitted
    <3>3. CASE ~DrawsContent
      <4>1. DrawnCells = {} /\ at # 1 /\ ~framebuffer_cleared
        BY <1>3, <3>3 DEF DrawnCells, DrawsContent
      <4>2. fb_dirty' = fb_dirty /\ framebuffers'[cur_fb][c] = framebuffers[cur_fb][c]
        BY <1>1, <1>8, <3>1, <4>1 DEF Blitted
      <4>3. Repaired(cur_fb, window_stack[i], c)
        BY <1>1, <2>1, <4>1 DEF SceneInv, DrawingInv
      <4> QED
        BY <1>1, <4>2, <4>3 DEF Repaired, Flagged
    <3> QED
      BY <3>2, <3>3
  <2>2. CASE i # at
    <3>1. ~(i <= at /\ (i = 1 \/ framebuffer_cleared))
      BY <1>2, <2>2
    <3>2. Repaired(cur_fb, window_stack[i], c)
      BY <1>1, <3>1 DEF SceneInv, DrawingInv
    <3>3. Flagged(cur_fb, window_stack[i])' = Flagged(cur_fb, window_stack[i])
      BY <1>1, <1>2, <1>10, <2>2
    <3>4. framebuffers'[cur_fb][c] = framebuffers[cur_fb][c]
      <4>1. CASE i > at
        <5>1. at \in 1 .. i - 1
          BY <1>2, <4>1
        <5>2. c \notin Outer(Drawn)
          BY <5>1 DEF Top, Drawn
        <5> QED
          BY <1>9, <5>2
      <4>2. CASE i < at
        <5>1. i # 1 /\ ~framebuffer_cleared /\ i \in 1 .. at - 1 /\ at # 1 /\ Len(window_stack) > 2
          BY <1>2, <4>2
        <5>2. c \notin DrawnCells
          BY <1>6, <5>1 DEF Top
        <5>3. cur_fb \notin decoration_damaged
          BY <1>1, <5>1 DEF SceneInv, DecorationInv, DrawingInv
        <5>4. c \notin BoxCells
          BY <1>3, <1>7, <5>1, <5>3 DEF DrawsBox
        <5> QED
          BY <1>8, <5>2, <5>4 DEF Blitted
      <4> QED
        BY <1>2, <2>2, <4>1, <4>2
    <3> QED
      BY <3>2, <3>3, <3>4 DEF Repaired
  <2> QED
    BY <2>1, <2>2
<1>14. at = 1 => \A c \in Cells : Top(1, c) => Boxed(cur_fb, window_stack[1], c)'
  <2> SUFFICES ASSUME at = 1, NEW c \in Cells, Top(1, c), c \notin Content(Drawn)
               PROVE  framebuffers'[cur_fb][c] = <<Drawn, "front box">>
    BY <1>1, StillOnTop DEF Boxed, Drawn
  <2>1. c \in Outer(Drawn)
    BY DEF Top, Drawn
  <2>2. ~rect[Drawn].fullscreen
    BY <1>2, <2>1, Geometry
  <2>3. c \in BoxCells
    BY <1>3, <2>1, <2>2 DEF BoxCells, DrawsBox
  <2> QED
    BY <1>3, <1>8, <2>3 DEF Blitted, BoxPixel
<1>15. \A i \in DOMAIN window_stack : visible_regions_valid \/ i >= at =>
          visible'[window_stack[i]] = window_calculate_visible_regions(window_stack[i])
  BY <1>1 DEF SceneInv, VisibleInv, Seen
<1>16. DecorationInv /\ cur_fb \notin background_damaged
  BY <1>1 DEF SceneInv, DrawingInv
<1>17. PICK changed : NextWindow(changed)
  BY BlitIs
<1> QED
  BY <1>1, <1>11, <1>12, <1>13, <1>14, <1>15, <1>16, <1>17, AdvanceScene

(* As long as every window of the ring has its owner and nothing is         *)
(* unmarked, every step keeps the scene; a window whose owner is gone is on *)
(* the way to its WINDOW_DESTROY.                                           *)
LEMMA NextScene ==
  ASSUME RingInv, FieldsInv, FieldsInv', [Next]_vars,
         ownerless = {} /\ ~unmarked => SceneInv, ownerless' = {}, ~unmarked'
  PROVE  SceneInv'
<1>1. CASE mark_scene_damaged /\ ~Drawing' /\ step' # "sleep"
  BY <1>1, MarkedScene
<1>2. CASE Commands
  BY <1>1, <1>2 DEF Commands, WINDOW_CREATE, WINDOW_DESTROY, WINDOW_FLAGS, WINDOW_MOVE, WINDOW_RESIZE,
     Command, Reshape, Drawing
<1>3. CASE FN_CROSS
  BY <1>1, <1>3 DEF FN_CROSS, Key, Drawing
<1>4. CASE Application
  <2>1. ownerless \subseteq ownerless' /\ unmarked' = unmarked
    BY <1>4 DEF Application, window_framebuffer_create, window_present, window_destroy, window_vars,
       damage_vars
  <2> QED
    BY <1>4, <2>1, ApplicationScene
<1>5. CASE ALT_TAB \/ FN_KEY
  <2>1. ownerless' = ownerless
    BY <1>5 DEF ALT_TAB, FN_KEY, Key
  <2>2. mark_scene_damaged \/ ~unmarked
    BY <1>5 DEF ALT_TAB, FN_KEY, Reshape
  <2>3. CASE mark_scene_damaged
    BY <1>1, <1>5, <2>3 DEF ALT_TAB, FN_KEY, Key, Drawing
  <2> QED
    BY <1>5, <2>1, <2>2, <2>3, AltTabScene, FnKeyScene
<1>6. CASE Wake \/ CommandsDone
  <2>1. ownerless' = ownerless /\ unmarked' = unmarked
    BY <1>6 DEF Wake, CommandsDone, window_vars, damage_vars
  <2> QED
    BY <1>6, <2>1, IdleScene
       DEF Wake, CommandsDone, Drawing, window_vars, rect_vars, content_vars, damage_vars
<1>7. CASE KeysDone
  <2>1. ownerless' = ownerless /\ unmarked' = unmarked
    BY <1>7 DEF KeysDone, window_vars
  <2> QED
    BY <1>7, <2>1, KeysDoneScene
<1>8. CASE DropOwnerless
  BY <1>8 DEF DropOwnerless
<1>9. CASE SkipWithoutFramebuffer
  <2>1. ownerless' = ownerless /\ unmarked' = unmarked
    BY <1>9 DEF SkipWithoutFramebuffer, NextWindow, FrameDone, window_vars
  <2> QED
    BY <1>9, <2>1, SkipScene
<1>10. CASE TakeCleanFlag
  <2>1. ownerless' = ownerless /\ unmarked' = unmarked
    BY <1>10 DEF TakeCleanFlag, window_vars, damage_vars
  <2> QED
    BY <1>10, <2>1, TakeScene
<1>11. CASE Blit
  <2>1. ownerless' = ownerless /\ unmarked' = unmarked
    BY <1>11 DEF Blit, NextWindow, FrameDone, window_vars
  <2> QED
    BY <1>11, <2>1, BlitScene
<1>12. CASE UNCHANGED vars
  <2>1. UNCHANGED <<window_stack, ownerless, rect, has_fb, clean, fb_dirty, visible, framebuffers,
                    frame_vars, damage_vars, step, local_vars>>
    BY <1>12 DEF vars, window_vars, rect_vars, content_vars
  <2>0. unmarked' = unmarked
    BY <2>1 DEF damage_vars
  <2>2. \A b, w : Flagged(b, w)' = Flagged(b, w)
    BY <2>1 DEF Flagged
  <2> QED
    BY <2>0, <2>1, <2>2, FlaggedScene
<1> QED
  BY <1>2, <1>3, <1>4, <1>5, <1>6, <1>7, <1>8, <1>9, <1>10, <1>11, <1>12
     DEF Next, Compositor, Keys, Render

LEMMA InitDamage == Init => DamageInv
<1> SUFFICES ASSUME Init PROVE DamageInv
  OBVIOUS
<1> USE DEF Init
<1>1. DOMAIN window_stack = {} /\ window_stack \in Seq(Window) /\ Windows = {}
  BY DEF Windows
<1>2. RingInv
  BY <1>1 DEF RingInv, Injective
<1>3. FieldsInv
  <2>1. Empty \in SomeRect
    BY DEF Empty, SomeRect
  <2>2. cur_fb \in Framebuffers
    BY Numbers DEF Framebuffers
  <2> QED
    BY <2>1, <2>2, BuffersType DEF FieldsInv
<1>4. SceneInv
  BY <1>1 DEF SceneInv, VisibleInv, DecorationInv, BuffersInv, DrawingInv, FinishedInv, Drawing
<1> QED
  BY <1>2, <1>3, <1>4 DEF DamageInv

LEMMA NextDamage ==
  ASSUME DamageInv, [Next]_vars
  PROVE  DamageInv'
<1>1. RingInv /\ FieldsInv /\ (ownerless = {} /\ ~unmarked => SceneInv)
  BY DEF DamageInv
<1>2. RingInv' /\ FieldsInv'
  BY <1>1, NextRing, NextFields
<1>3. ownerless' = {} /\ ~unmarked' => SceneInv'
  BY <1>1, <1>2, NextScene
<1> QED
  BY <1>2, <1>3 DEF DamageInv

-----------------------------------------------------------------------------
(* A set of naturals has a least element: the intervals 0..n are finite     *)
(* sets, which are well founded.                                           *)
LEMMA LeastExists ==
  ASSUME NEW T, T \subseteq Nat, T # {}
  PROVE  \E x \in T : \A y \in T : x <= y
<1> DEFINE Below == {0..t : t \in T}
<1>1. Below \subseteq FiniteSubsetsOf(Nat) /\ Below # {}
  <2>1. \A t \in T : 0..t \subseteq Nat /\ IsFiniteSet(0..t)
    BY FS_Interval
  <2> QED
    BY <2>1 DEF FiniteSubsetsOf
<1>2. PICK set \in Below : \A smaller \in Below : <<smaller, set>> \notin StrictSubsetOrdering(Nat)
  <2> HIDE DEF Below
  <2> QED
    BY <1>1, FS_StrictSubsetOrderingWellFounded, WFMin, Zenon
<1>3. PICK x \in T : set = 0..x
  BY <1>2
<1>4. ASSUME NEW y \in T, y < x PROVE FALSE
  <2>1. 0..y \subseteq 0..x /\ 0..y # 0..x /\ 0..x \subseteq Nat
    BY <1>4
  <2>2. <<0..y, 0..x>> \in StrictSubsetOrdering(Nat)
    BY <2>1 DEF StrictSubsetOrdering
  <2>3. 0..y \in Below
    OBVIOUS
  <2> HIDE DEF Below
  <2> QED
    BY <1>2, <1>3, <2>2, <2>3
<1> QED
  BY <1>4

(* What the invariant says of the window on top of a cell. *)
LEMMA TopIs ==
  ASSUME RingInv, NEW c, Over(c) # {}
  PROVE  \E i \in DOMAIN window_stack :
           Top(i, c) /\ TopAt(c) = window_stack[i] /\ (TopAt(c) = Front <=> i = 1)
<1>1. /\ DOMAIN window_stack = 1 .. Len(window_stack) /\ Len(window_stack) \in Nat
      /\ Over(c) \subseteq DOMAIN window_stack
  BY DEF RingInv, Over
<1> DEFINE i == CHOOSE i \in Over(c) : \A j \in Over(c) : i <= j
<1>2. i \in Over(c) /\ \A j \in Over(c) : i <= j
  BY <1>1, LeastExists
<1>3. TopAt(c) = window_stack[i]
  BY DEF TopAt
<1> HIDE DEF i
<1>4. Top(i, c)
  <2>1. c \in Outer(window_stack[i])
    BY <1>2 DEF Over
  <2>2. ASSUME NEW j \in 1 .. i - 1, c \in Outer(window_stack[j]) PROVE FALSE
    <3>1. j \in DOMAIN window_stack /\ j < i
      BY <1>1, <1>2
    <3>2. j \in Over(c)
      BY <2>2, <3>1 DEF Over
    <3> QED
      BY <1>1, <1>2, <3>1, <3>2
  <2> QED
    BY <2>1, <2>2 DEF Top
<1>5. i \in DOMAIN window_stack /\ 1 \in DOMAIN window_stack
  BY <1>1, <1>2
<1>6. window_stack[i] = window_stack[1] <=> i = 1
  BY <1>5 DEF RingInv, Injective
<1> QED
  BY <1>3, <1>4, <1>5, <1>6 DEF Front

LEMMA StaleFromInv == DamageInv => StaleCellsAreScheduled
<1> SUFFICES ASSUME RingInv, FieldsInv, SceneInv, ~Drawing,
                    NEW b \in Framebuffers \ background_damaged, NEW c \in Cells
             PROVE  Shows(b, c) \/ Scheduled(b, c)
  BY DEF DamageInv, StaleCellsAreScheduled, BetweenFrames, Drawing, Scheduled
<1>1. Kept(b)
  BY DEF SceneInv, BuffersInv
<1>2. CASE Over(c) = {}
  BY <1>1, <1>2 DEF Kept, Bare, Over, Shows
<1>3. CASE Over(c) # {}
  <2>1. PICK i \in DOMAIN window_stack :
          Top(i, c) /\ TopAt(c) = window_stack[i] /\ (TopAt(c) = Front <=> i = 1)
    BY <1>3, TopIs
  <2>2. visible_regions_valid /\ c \in Content(TopAt(c)) => c \in visible[TopAt(c)]
    BY <2>1, RegionIs DEF SceneInv, VisibleInv
  <2>3. TopAt(c) = Front \/ Repaired(b, TopAt(c), c)
    BY <1>1, <2>1 DEF Kept
  <2> QED
    BY <1>3, <2>2, <2>3 DEF Shows, Scheduled, Repaired, Flagged
<1> QED
  BY <1>2, <1>3

LEMMA FrameFromInv == DamageInv => FrameIsCurrent
<1> SUFFICES ASSUME RingInv, SceneInv, step = "sleep", frame_ready, NEW c \in Cells,
                    ~Shows(cur_fb, c)
             PROVE  Over(c) # {} /\ (TopAt(c) \notin clean \/ cur_fb \in fb_dirty[TopAt(c)])
  BY DEF DamageInv, FrameIsCurrent
<1>1. Over(c) # {}
  BY DEF SceneInv, FinishedInv, Bare, Over, Shows
<1>2. PICK i \in DOMAIN window_stack :
        Top(i, c) /\ TopAt(c) = window_stack[i] /\ (TopAt(c) = Front <=> i = 1)
  BY <1>1, TopIs
<1>3. /\ Repaired(cur_fb, TopAt(c), c)
      /\ TopAt(c) = Front => Boxed(cur_fb, TopAt(c), c)
  BY <1>2 DEF SceneInv, FinishedInv
<1> QED
  BY <1>1, <1>3 DEF Shows, Repaired, Boxed, Flagged

LEMMA DamageStays == Spec => []DamageInv
<1>1. Init => DamageInv
  BY InitDamage
<1>2. DamageInv /\ [Next]_vars => DamageInv'
  BY NextDamage
<1> QED
  BY <1>1, <1>2, PTL DEF Spec

(* Between two frames every outdated cell of every buffer is covered by a   *)
(* flag: what was presented, moved, closed or put behind another window     *)
(* will be repaired in each of the buffers, whatever order the commands,    *)
(* the keys, the presentations and the frames come in, unless ALT-TAB among *)
(* three or more or a clamp alone has come since the last                   *)
(* mark_scene_damaged().                                                    *)
THEOREM StaleAreScheduled == Spec => []StaleCellsAreScheduled
BY DamageStays, StaleFromInv, PTL

(* A frame that the compositor hands to the panel shows each window where   *)
(* it is, with what it presented before it was drawn, with the same         *)
(* exception.                                                               *)
THEOREM FramesAreCurrent == Spec => []FrameIsCurrent
BY DamageStays, FrameFromInv, PTL
=============================================================================
