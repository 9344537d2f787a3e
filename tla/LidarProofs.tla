----------------------------- MODULE LidarProofs -----------------------------
(***************************************************************************)
(* The pictures of a Pandora, for any number of cameras, any sizes of      *)
(* pictures and any number of starts; and the driver nodelets of the other *)
(* lidars, for scans of any length and any clock.                          *)
(***************************************************************************)
EXTENDS MCLidar, SequenceTheorems, TLAPS

-----------------------------------------------------------------------------
(* Pictures                                                                *)

\* A fragment is the number of its picture and its place; the fragments of s up to the n-th are those of one picture, in order.
Fragment == Nat \X Nat
OnePicture(s, n) == \A k \in 1 .. n : s[k] = <<s[1][1], k - 1>>
Whole == {p \in [unit : Units, size : Nat, data : Seq(Fragment)] : OnePicture(p.data, p.size)}

PictureType ==
    /\ dev \in [Units -> [pic : Nat, size : Nat, next : Nat]] /\ position \in [Units -> Nat]
    /\ pics \in [Units -> [alloc : Nat, data : Seq(Fragment)]]
    /\ list \in Seq(Whole) /\ sem = Len(list)

\* What is before the position is of one picture: of the one that is being sent, or a new connection has begun another.
Begun(u) ==
    /\ dev[u].next < dev[u].size
    /\ position[u] <= Len(pics[u].data) /\ OnePicture(pics[u].data, position[u])
    /\ position[u] # 0 => dev[u].next = 0 \/ (dev[u].next = position[u] /\ dev[u].pic = pics[u].data[1][1])

\* A buffer that was not left half-filled was made for the picture that is being sent.
Fitting(u) == pics[u] # Camera!NULL /\ u \notin stale => position[u] # 0 /\ dev[u].next = position[u] /\ pics[u].alloc = dev[u].size

\* A position stands in a buffer; and without a connection every buffer is left over.
Buffered(u) ==
    /\ position[u] # 0 => pics[u] # Camera!NULL
    /\ recv = "run" /\ ~sock /\ pics[u] # Camera!NULL => u \in stale

CameraInv == PictureType /\ overrun = {} /\ \A u \in Units : Begun(u) /\ Fitting(u) /\ Buffered(u)
-----------------------------------------------------------------------------
\* A fragment replaces what is at its place, and what is before it stays.
Put(s, n, x) == SubSeq(s, 1, n) \o <<x>> \o SubSeq(s, n + 2, Len(s))
LEMMA Replaced ==
    ASSUME NEW s \in Seq(Fragment), NEW n \in Nat, n <= Len(s), NEW x \in Fragment
    PROVE  /\ Put(s, n, x) \in Seq(Fragment) /\ Len(Put(s, n, x)) >= n + 1 /\ Put(s, n, x)[n + 1] = x
           /\ \A k \in 1 .. n : Put(s, n, x)[k] = s[k]
<1> DEFINE a == SubSeq(s, 1, n)
           b == SubSeq(s, n + 2, Len(s))
           c == a \o <<x>>
<1>1. Len(s) \in Nat /\ \A i \in 1 .. Len(s) : s[i] \in Fragment
  OBVIOUS
<1>2. a \in Seq(Fragment) /\ Len(a) = n /\ \A i \in 1 .. n : a[i] = s[i]
  <2>1. \A i \in 1 .. n : s[i] \in Fragment
    BY <1>1
  <2>2. /\ a \in Seq(Fragment) /\ Len(a) = IF 1 <= n THEN n - 1 + 1 ELSE 0
        /\ \A i \in 1 .. n - 1 + 1 : a[i] = s[1 + i - 1]
    BY <2>1, SubSeqProperties
  <2> QED BY <2>2
<1>3. b \in Seq(Fragment) /\ Len(b) \in Nat
  <2>1. \A i \in n + 2 .. Len(s) : s[i] \in Fragment
    BY <1>1
  <2>2. n + 2 \in Int /\ Len(s) \in Int
    BY <1>1
  <2>3. b \in Seq(Fragment)
    BY <2>1, <2>2, SubSeqProperties
  <2> QED BY <2>3
<1>4. <<x>> \in Seq(Fragment) /\ Len(<<x>>) = 1 /\ <<x>>[1] = x
  OBVIOUS
<1> HIDE DEF a, b
<1>5. c \in Seq(Fragment) /\ Len(c) = n + 1 /\ c[n + 1] = x /\ \A i \in 1 .. n : c[i] = s[i]
  <2>1. /\ c \in Seq(Fragment) /\ Len(c) = n + 1
        /\ \A i \in 1 .. n + 1 : c[i] = IF i <= n THEN a[i] ELSE <<x>>[i - n]
    BY <1>2, <1>4, ConcatProperties
  <2> QED BY <2>1, <1>2, <1>4
<1> HIDE DEF c
<1>6. /\ c \o b \in Seq(Fragment) /\ Len(c \o b) = n + 1 + Len(b)
      /\ \A i \in 1 .. n + 1 + Len(b) : (c \o b)[i] = IF i <= n + 1 THEN c[i] ELSE b[i - (n + 1)]
  <2>1. /\ c \o b \in Seq(Fragment) /\ Len(c \o b) = Len(c) + Len(b)
        /\ \A i \in 1 .. Len(c) + Len(b) : (c \o b)[i] = IF i <= Len(c) THEN c[i] ELSE b[i - Len(c)]
    BY <1>3, <1>5, ConcatProperties, Zenon
  <2> QED BY <2>1, <1>3, <1>5
<1>7. c \o b \in Seq(Fragment) /\ Len(c \o b) >= n + 1 /\ (c \o b)[n + 1] = x /\ \A k \in 1 .. n : (c \o b)[k] = s[k]
  BY <1>3, <1>5, <1>6
<1>8. Put(s, n, x) = c \o b
  BY DEF Put, c, a, b
<1> QED BY <1>7, <1>8

\* The buffer of a unit after its next fragment: it has one picture up to this one.
LEMMA StoreFacts ==
    ASSUME CameraInv, NEW u \in Units, Camera!InPlace(u)
    PROVE  /\ Camera!Store(u) \in [alloc : Nat, data : Seq(Fragment)]
           /\ Len(Camera!Store(u).data) >= position[u] + 1
           /\ OnePicture(Camera!Store(u).data, position[u] + 1)
           /\ Camera!Store(u).data[1][1] = dev[u].pic
           /\ Camera!Store(u).alloc = Camera!Buffer(u).alloc
<1> DEFINE b == Camera!Buffer(u)
           n == position[u]
           x == <<dev[u].pic, dev[u].next>>
           r == Put(b.data, n, x)
<1>1. /\ dev[u].pic \in Nat /\ dev[u].size \in Nat /\ dev[u].next = n /\ n \in Nat
      /\ pics[u] \in [alloc : Nat, data : Seq(Fragment)]
  BY DEF CameraInv, PictureType, Camera!InPlace
<1>2. b \in [alloc : Nat, data : Seq(Fragment)] /\ n <= Len(b.data) /\ OnePicture(b.data, n)
      /\ (n # 0 => dev[u].pic = b.data[1][1])
  <2>1. CASE pics[u] = Camera!NULL
    <3>1. n = 0
      BY <2>1 DEF CameraInv, Buffered
    <3>2. b = [alloc |-> dev[u].size, data |-> <<>>]
      BY <2>1 DEF Camera!Buffer
    <3>3. <<>> \in Seq(Fragment) /\ Len(<<>>) = 0
      OBVIOUS
    <3> QED BY <1>1, <3>1, <3>2, <3>3 DEF OnePicture
  <2>2. CASE pics[u] # Camera!NULL
    <3>1. b = pics[u]
      BY <2>2 DEF Camera!Buffer
    <3>2. /\ n <= Len(pics[u].data) /\ OnePicture(pics[u].data, n)
          /\ n # 0 => dev[u].pic = pics[u].data[1][1]
      BY <1>1 DEF CameraInv, Begun
    <3> HIDE DEF b
    <3> QED BY <1>1, <3>1, <3>2
  <2> QED BY <2>1, <2>2
<1>3. Camera!Store(u) = [b EXCEPT !.data = r]
  BY DEF Camera!Store, Put
<1>4. x \in Fragment
  BY <1>1 DEF Fragment
<1> HIDE DEF b
<1>5. r \in Seq(Fragment) /\ Len(r) >= n + 1 /\ r[n + 1] = x /\ \A k \in 1 .. n : r[k] = b.data[k]
  <2> DEFINE s == b.data
  <2>1. s \in Seq(Fragment) /\ n \in Nat /\ n <= Len(s)
    BY <1>1, <1>2
  <2> HIDE DEF x, n, s
  <2>2. Put(s, n, x) \in Seq(Fragment) /\ Len(Put(s, n, x)) >= n + 1 /\ Put(s, n, x)[n + 1] = x /\ \A k \in 1 .. n : Put(s, n, x)[k] = s[k]
    BY <2>1, <1>4, Replaced
  <2> QED BY <2>2 DEF s
<1> HIDE DEF r
<1>6. Camera!Store(u).data = r /\ Camera!Store(u).alloc = b.alloc /\ Camera!Store(u) \in [alloc : Nat, data : Seq(Fragment)]
  BY <1>2, <1>3, <1>5
<1>7. r[1][1] = dev[u].pic /\ OnePicture(r, n + 1)
  <2>1. r[1][1] = dev[u].pic
    <3>1. CASE n = 0
      BY <3>1, <1>1, <1>5
    <3>2. CASE n # 0
      <4>1. 1 \in 1 .. n
        BY <3>2, <1>1
      <4>2. r[1] = b.data[1] /\ dev[u].pic = b.data[1][1]
        <5> HIDE DEF n
        <5> QED BY <3>2, <4>1, <1>2, <1>5
      <4> QED BY <4>2
    <3> QED BY <3>1, <3>2
  <2>2. ASSUME NEW k \in 1 .. n + 1 PROVE r[k] = <<r[1][1], k - 1>>
    <3>1. CASE k = n + 1
      BY <3>1, <2>1, <1>1, <1>5
    <3>2. CASE k # n + 1
      <4>1. k \in 1 .. n /\ n # 0
        BY <3>2, <1>1
      <4>2. r[k] = <<b.data[1][1], k - 1>>
        BY <4>1, <1>2, <1>5 DEF OnePicture
      <4> QED BY <4>1, <4>2, <2>1, <1>2
    <3> QED BY <3>1, <3>2
  <2> QED BY <2>1, <2>2 DEF OnePicture
<1> QED BY <1>5, <1>6, <1>7 DEF b

\* The device goes on to the next fragment, or to the first one of another picture.
LEMMA Advanced ==
    ASSUME CameraInv, NEW u \in Units, Camera!Advance(u)
    PROVE  /\ dev' \in [Units -> [pic : Nat, size : Nat, next : Nat]] /\ dev'[u].next < dev'[u].size
           /\ \A v \in Units \ {u} : dev'[v] = dev[v]
           /\ \/ dev'[u].next = dev[u].next + 1 /\ dev'[u].size = dev[u].size /\ dev'[u].pic = dev[u].pic
              \/ dev[u].next + 1 = dev[u].size
<1>1. dev \in [Units -> [pic : Nat, size : Nat, next : Nat]] /\ dev[u].next < dev[u].size
  BY DEF CameraInv, PictureType, Begun
<1>2. CASE dev[u].next + 1 < dev[u].size
  <2>1. dev' = [dev EXCEPT ![u].next = @ + 1]
    BY <1>2 DEF Camera!Advance
  <2> QED BY <1>1, <1>2, <2>1
<1>3. CASE ~(dev[u].next + 1 < dev[u].size)
  <2>1. PICK z \in Sizes : dev' = [dev EXCEPT ![u] = Camera!Picture(u, z)]
    BY <1>3 DEF Camera!Advance
  <2>2. z \in Nat \ {0} /\ dev[u].pic \in Nat /\ (dev[u].pic + 1) % 2 \in Nat
    BY <1>1, <2>1, LidarAssumption
  <2>3. Camera!Picture(u, z) = [pic |-> (dev[u].pic + 1) % 2, size |-> z, next |-> 0]
    BY DEF Camera!Picture
  <2> HIDE DEF Camera!Picture
  <2>4. Camera!Picture(u, z) \in [pic : Nat, size : Nat, next : Nat] /\ Camera!Picture(u, z).next < Camera!Picture(u, z).size
    BY <2>2, <2>3
  <2>5. dev[u].next \in Nat /\ dev[u].size \in Nat /\ dev[u].next + 1 = dev[u].size
    BY <1>1, <1>3
  <2> QED BY <1>1, <2>1, <2>4, <2>5
<1> QED BY <1>2, <1>3

\* What the invariant says of a unit depends on these.
Same(u) ==
    /\ dev'[u] = dev[u] /\ position'[u] = position[u] /\ pics'[u] = pics[u] /\ (u \in stale' <=> u \in stale)
    /\ recv' = recv /\ sock' = sock
LEMMA SameKeeps == ASSUME NEW u \in Units, Begun(u), Fitting(u), Buffered(u), Same(u) PROVE Begun(u)' /\ Fitting(u)' /\ Buffered(u)'
BY DEF Same, Begun, Fitting, Buffered, OnePicture, Camera!NULL

\* The last fragment of a picture: the picture is passed on.
LEMMA CompleteKeeps ==
    ASSUME CameraInv, NEW u \in Units, Camera!Advance(u), Camera!InPlace(u), Camera!Complete(u), UNCHANGED <<recv, sock>>
    PROVE  CameraInv'
<1> DEFINE n == position[u]
           z == dev[u].size
           s == Camera!Store(u).data
           p == [unit |-> u, size |-> z, data |-> SubSeq(s, 1, z)]
<1>1. /\ n + 1 = z /\ n \in Nat /\ z \in Nat
      /\ list' = Append(list, p) /\ sem' = sem + 1
      /\ pics' = [pics EXCEPT ![u] = Camera!NULL] /\ position' = [position EXCEPT ![u] = 0]
      /\ stale' = stale \ {u} /\ Camera!Overrun(u)
  BY DEF Camera!Complete, CameraInv, PictureType
<1>2. s \in Seq(Fragment) /\ Len(s) >= z /\ OnePicture(s, z)
  BY <1>1, StoreFacts
<1> HIDE DEF s
<1>3. p \in Whole
  <2>1. \A i \in 1 .. z : s[i] \in Fragment
    BY <1>1, <1>2
  <2>2. /\ SubSeq(s, 1, z) \in Seq(Fragment)
        /\ \A i \in 1 .. z - 1 + 1 : SubSeq(s, 1, z)[i] = s[1 + i - 1]
    BY <1>1, <2>1, SubSeqProperties
  <2>3. \A i \in 1 .. z : SubSeq(s, 1, z)[i] = s[i]
    BY <1>1, <2>2
  <2>4. 1 \in 1 .. z
    BY <1>1
  <2>5. OnePicture(SubSeq(s, 1, z), z)
    BY <1>2, <2>3, <2>4 DEF OnePicture
  <2> QED BY <1>1, <2>2, <2>5 DEF Whole
<1> HIDE DEF p
<1>4. list' \in Seq(Whole) /\ sem' = Len(list')
  BY <1>1, <1>3 DEF CameraInv, PictureType
<1>5. Camera!NULL \in [alloc : Nat, data : Seq(Fragment)] /\ Len(Camera!NULL.data) = 0
  BY DEF Camera!NULL
<1>6. PictureType'
  BY <1>1, <1>4, <1>5, Advanced DEF CameraInv, PictureType
<1>7. overrun' = {}
  <2>1. u \notin stale => n + 1 <= Camera!Buffer(u).alloc
    <3>1. ASSUME u \notin stale, pics[u] # Camera!NULL PROVE n + 1 <= Camera!Buffer(u).alloc
      BY <3>1, <1>1 DEF CameraInv, Fitting, Camera!Buffer
    <3>2. ASSUME pics[u] = Camera!NULL PROVE n + 1 <= Camera!Buffer(u).alloc
      BY <3>2, <1>1 DEF Camera!Buffer
    <3> QED BY <3>1, <3>2
  <2>2. Camera!Buffer(u).alloc \in Nat
    BY <1>1 DEF CameraInv, PictureType, Camera!Buffer
  <2> QED BY <2>1, <2>2, <1>1 DEF Camera!Overrun, CameraInv
<1>8. Begun(u)' /\ Fitting(u)' /\ Buffered(u)'
  <2>1. position'[u] = 0 /\ pics'[u] = Camera!NULL /\ dev'[u].next < dev'[u].size /\ Camera!NULL' = Camera!NULL
    BY <1>1, Advanced DEF CameraInv, PictureType, Camera!NULL
  <2> QED BY <2>1, <1>5 DEF Begun, Fitting, Buffered, OnePicture
<1>9. ASSUME NEW v \in Units \ {u} PROVE Begun(v)' /\ Fitting(v)' /\ Buffered(v)'
  <2>1. Same(v)
    BY <1>1, Advanced DEF Same, CameraInv, PictureType
  <2> QED BY <2>1, SameKeeps DEF CameraInv
<1> QED BY <1>6, <1>7, <1>8, <1>9 DEF CameraInv

\* Another fragment of a picture.
LEMMA StoredKeeps ==
    ASSUME CameraInv, NEW u \in Units, Camera!Advance(u), Camera!InPlace(u), Camera!Stored(u), sock, UNCHANGED <<recv, sock>>
    PROVE  CameraInv'
<1> DEFINE n == position[u]
           b == Camera!Store(u)
<1>1. /\ n + 1 # dev[u].size /\ n \in Nat /\ dev[u].size \in Nat /\ dev[u].next = n /\ n < dev[u].size
      /\ list' = list /\ sem' = sem /\ stale' = stale
      /\ pics' = [pics EXCEPT ![u] = b] /\ position' = [position EXCEPT ![u] = n + 1] /\ Camera!Overrun(u)
  BY DEF Camera!Stored, Camera!InPlace, Camera!queue, CameraInv, PictureType, Begun
<1>2. b \in [alloc : Nat, data : Seq(Fragment)] /\ Len(b.data) >= n + 1 /\ OnePicture(b.data, n + 1)
      /\ b.data[1][1] = dev[u].pic /\ b.alloc = Camera!Buffer(u).alloc
  BY StoreFacts
<1> HIDE DEF b
<1>3. dev'[u].next = n + 1 /\ dev'[u].size = dev[u].size /\ dev'[u].pic = dev[u].pic /\ dev'[u].next < dev'[u].size
  BY <1>1, Advanced
<1>4. PictureType'
  <2>1. PictureType
    BY DEF CameraInv
  <2>2. dev' \in [Units -> [pic : Nat, size : Nat, next : Nat]]
    BY Advanced
  <2>3. position' \in [Units -> Nat]
    <3>1. n + 1 \in Nat
      BY <1>1
    <3> QED BY <1>1, <2>1, <3>1 DEF PictureType
  <2>4. pics' \in [Units -> [alloc : Nat, data : Seq(Fragment)]]
    BY <1>1, <1>2, <2>1 DEF PictureType
  <2> QED BY <1>1, <2>1, <2>2, <2>3, <2>4 DEF PictureType
<1>5. u \notin stale => Camera!Buffer(u).alloc = dev[u].size
  BY <1>1 DEF CameraInv, Fitting, Camera!Buffer
<1>6. overrun' = {}
  <2>1. ~(u \notin stale /\ n + 1 > Camera!Buffer(u).alloc)
    BY <1>1, <1>5
  <2> QED BY <2>1, <1>1 DEF Camera!Overrun, CameraInv
<1>7. Begun(u)' /\ Fitting(u)' /\ Buffered(u)'
  <2>1. pics'[u] = b /\ position'[u] = n + 1 /\ Camera!NULL' = Camera!NULL
    BY <1>1 DEF CameraInv, PictureType, Camera!NULL
  <2>2. b # Camera!NULL
    <3>1. Len(Camera!NULL.data) = 0
      BY DEF Camera!NULL
    <3> QED BY <3>1, <1>1, <1>2
  <2>3. Begun(u)'
    <3>1. OnePicture(pics'[u].data, position'[u])
      BY <1>2, <2>1
    <3>2. OnePicture(pics[u].data, position[u])'
      BY <3>1 DEF OnePicture
    <3> QED BY <3>2, <1>1, <1>2, <1>3, <2>1 DEF Begun
  <2>4. Fitting(u)'
    BY <1>1, <1>2, <1>3, <1>5, <2>1 DEF Fitting
  <2>5. Buffered(u)'
    BY <2>1, <2>2 DEF Buffered
  <2> QED BY <2>3, <2>4, <2>5
<1>8. ASSUME NEW v \in Units \ {u} PROVE Begun(v)' /\ Fitting(v)' /\ Buffered(v)'
  <2>1. Same(v)
    BY <1>1, Advanced DEF Same, CameraInv, PictureType
  <2> QED BY <2>1, SameKeeps DEF CameraInv
<1> QED BY <1>4, <1>6, <1>7, <1>8 DEF CameraInv

\* A fragment of another place: what the buffer has is left over.
LEMMA MisplacedKeeps ==
    ASSUME CameraInv, NEW u \in Units, Camera!Advance(u), Camera!Misplaced(u), sock, UNCHANGED <<recv, sock>>
    PROVE  CameraInv'
<1>1. /\ list' = list /\ sem' = sem /\ pics' = pics /\ overrun' = overrun /\ position' = [position EXCEPT ![u] = 0]
      /\ stale' = IF pics[u] # Camera!NULL THEN stale \union {u} ELSE stale
  BY DEF Camera!Misplaced, Camera!queue
<1>2. PictureType' /\ overrun' = {}
  BY <1>1, Advanced DEF CameraInv, PictureType
<1>3. Begun(u)' /\ Fitting(u)' /\ Buffered(u)'
  <2>1. /\ position'[u] = 0 /\ Camera!NULL' = Camera!NULL /\ dev'[u].next < dev'[u].size
        /\ Len(pics[u].data) \in Nat
    BY <1>1, Advanced DEF CameraInv, PictureType, Camera!NULL
  <2> QED BY <2>1, <1>1 DEF Begun, Fitting, Buffered, OnePicture
<1>4. ASSUME NEW v \in Units \ {u} PROVE Begun(v)' /\ Fitting(v)' /\ Buffered(v)'
  <2>1. Same(v)
    BY <1>1, Advanced DEF Same, CameraInv, PictureType
  <2> QED BY <2>1, SameKeeps DEF CameraInv
<1> QED BY <1>2, <1>3, <1>4 DEF CameraInv

\* A step that leaves the fragments alone, and does not lose the connection.
LEMMA QuietKeeps ==
    ASSUME CameraInv, UNCHANGED <<dev, Camera!frames>>, list' \in Seq(Whole), sem' = Len(list'),
           recv' = "run" /\ ~sock' => recv = "run" /\ ~sock
    PROVE  CameraInv'
<1>1. dev' = dev /\ position' = position /\ pics' = pics /\ stale' = stale /\ overrun' = overrun
  BY DEF Camera!frames
<1>2. PictureType' /\ overrun' = {}
  BY <1>1 DEF CameraInv, PictureType
<1>3. ASSUME NEW u \in Units PROVE Begun(u)' /\ Fitting(u)' /\ Buffered(u)'
  BY <1>1 DEF CameraInv, Begun, Fitting, Buffered, OnePicture, Camera!NULL
<1> QED BY <1>2, <1>3 DEF CameraInv

\* The device begins with new pictures; the buffers it finds are all left over.
LEMMA ConnectKeeps == ASSUME CameraInv, Camera!Connect PROVE CameraInv'
<1>1. PICK s \in [Units -> Sizes] : dev' = [u \in Units |-> Camera!Picture(u, s[u])]
  BY DEF Camera!Connect
<1>2. /\ recv = "run" /\ ~sock /\ sock' = TRUE /\ position' = position /\ pics' = pics /\ stale' = stale /\ overrun' = overrun
      /\ list' = list /\ sem' = sem
  BY DEF Camera!Connect, Camera!frames, Camera!queue
<1>3. ASSUME NEW u \in Units
      PROVE  dev'[u] \in [pic : Nat, size : Nat, next : Nat] /\ dev'[u].next = 0 /\ dev'[u].next < dev'[u].size
  <2>1. dev'[u] = [pic |-> (dev[u].pic + 1) % 2, size |-> s[u], next |-> 0]
    BY <1>1 DEF Camera!Picture
  <2>2. s[u] \in Nat \ {0} /\ (dev[u].pic + 1) % 2 \in Nat
    BY <1>1, LidarAssumption DEF CameraInv, PictureType
  <2> QED BY <2>1, <2>2
<1>4. PictureType' /\ overrun' = {}
  <2>1. dev' \in [Units -> [pic : Nat, size : Nat, next : Nat]]
    BY <1>1, <1>3
  <2> QED BY <2>1, <1>2 DEF CameraInv, PictureType
<1>5. ASSUME NEW u \in Units PROVE Begun(u)' /\ Fitting(u)' /\ Buffered(u)'
  BY <1>2, <1>3 DEF CameraInv, Begun, Fitting, Buffered, OnePicture, Camera!NULL
<1> QED BY <1>4, <1>5 DEF CameraInv

\* A buffer with fragments of a lost connection is left over.
LEMMA CloseKeeps == ASSUME CameraInv, Camera!CloseSocket PROVE CameraInv'
<1>1. /\ recv' = recv /\ dev' = dev /\ position' = position /\ pics' = pics /\ overrun' = overrun
      /\ list' = list /\ sem' = sem /\ stale' = stale \union {u \in Units : position[u] # 0}
  BY DEF Camera!CloseSocket, Camera!tasks, Camera!queue
<1>2. PictureType' /\ overrun' = {}
  BY <1>1 DEF CameraInv, PictureType
<1>3. ASSUME NEW u \in Units PROVE Begun(u)' /\ Fitting(u)' /\ Buffered(u)'
  BY <1>1 DEF CameraInv, Begun, Fitting, Buffered, OnePicture, Camera!NULL
<1> QED BY <1>2, <1>3 DEF CameraInv

\* A start with new threads begins without buffers.
LEMMA StartKeeps == ASSUME CameraInv, Camera!Start PROVE CameraInv'
<1>1. sock' = sock /\ dev' = dev /\ overrun' = overrun /\ list' = list /\ sem' = sem
  BY DEF Camera!Start, Camera!queue
<1>2. CASE position' = [u \in Units |-> 0] /\ pics' = [u \in Units |-> Camera!NULL]
  <2>1. Camera!NULL \in [alloc : Nat, data : Seq(Fragment)] /\ Len(Camera!NULL.data) = 0
    BY DEF Camera!NULL
  <2>2. PictureType' /\ overrun' = {}
    BY <1>1, <1>2, <2>1 DEF CameraInv, PictureType
  <2>3. ASSUME NEW u \in Units PROVE Begun(u)' /\ Fitting(u)' /\ Buffered(u)'
    <3>1. position'[u] = 0 /\ pics'[u] = Camera!NULL /\ Camera!NULL' = Camera!NULL /\ dev'[u].next < dev'[u].size
      BY <1>1, <1>2 DEF CameraInv, Begun, Camera!NULL
    <3> QED BY <3>1, <2>1 DEF Begun, Fitting, Buffered, OnePicture
  <2> QED BY <2>2, <2>3 DEF CameraInv
<1>3. CASE UNCHANGED <<Camera!tasks, position, pics, stale>>
  <2>1. UNCHANGED <<dev, Camera!frames>> /\ list' \in Seq(Whole) /\ sem' = Len(list') /\ recv' = recv
    BY <1>1, <1>3 DEF CameraInv, PictureType, Camera!frames, Camera!tasks
  <2> QED BY <2>1, <1>1, QuietKeeps
<1> QED BY <1>2, <1>3 DEF Camera!Start

LEMMA StepCamera == CameraInv /\ [Camera!Next]_cameraVars => CameraInv'
<1> SUFFICES ASSUME CameraInv, [Camera!Next]_cameraVars PROVE CameraInv'
  OBVIOUS
<1>0. list \in Seq(Whole) /\ sem = Len(list)
  BY DEF CameraInv, PictureType
<1>1. CASE Camera!PandoraClientTask
  <2>1. PICK u \in Units : Camera!Advance(u) /\ IF Camera!InPlace(u) THEN Camera!Stored(u) \/ Camera!Complete(u) ELSE Camera!Misplaced(u)
    BY <1>1 DEF Camera!PandoraClientTask
  <2>2. sock /\ UNCHANGED <<recv, sock>>
    BY <1>1 DEF Camera!PandoraClientTask, Camera!tasks
  <2> QED BY <2>1, <2>2, StoredKeeps, CompleteKeeps, MisplacedKeeps
<1>2. CASE Camera!RecvExit \/ Camera!HeartBeatTask \/ Camera!PandoraClientDestroy \/ Camera!JoinHeartBeat \/ Camera!JoinReceive \/ Camera!Stop
  <2>1. /\ UNCHANGED <<dev, Camera!frames>> /\ list' = list /\ sem' = sem
        /\ recv' = "run" /\ ~sock' => recv = "run" /\ ~sock
    BY <1>2 DEF Camera!RecvExit, Camera!HeartBeatTask, Camera!PandoraClientDestroy, Camera!JoinHeartBeat, Camera!JoinReceive, Camera!Stop,
                Camera!queue, Camera!tasks
  <2> QED BY <1>0, <2>1, QuietKeeps
<1>3. CASE Camera!processPic
  <2>1. UNCHANGED <<dev, Camera!frames>> /\ recv' = recv /\ sock' = sock
    BY <1>3 DEF Camera!processPic
  <2>2. CASE sem > 0 /\ sem' = sem - 1 /\ list' = Tail(list)
    <3>1. list' \in Seq(Whole) /\ sem' = Len(list')
      BY <1>0, <2>2
    <3> QED BY <2>1, <3>1, QuietKeeps
  <2>3. CASE UNCHANGED Camera!queue
    BY <1>0, <2>1, <2>3, QuietKeeps DEF Camera!queue
  <2> QED BY <1>3, <2>2, <2>3 DEF Camera!processPic
<1>4. CASE UNCHANGED cameraVars
  BY <1>0, <1>4, QuietKeeps DEF cameraVars, Camera!frames
<1> QED BY <1>1, <1>2, <1>3, <1>4, ConnectKeeps, CloseKeeps, StartKeeps DEF Camera!Next

LEMMA InitCamera == Camera!Init => CameraInv
<1> SUFFICES ASSUME Camera!Init PROVE CameraInv
  OBVIOUS
<1>1. /\ dev = [u \in Units |-> [pic |-> 0, size |-> 1, next |-> 0]] /\ position = [u \in Units |-> 0] /\ pics = [u \in Units |-> Camera!NULL]
      /\ list = <<>> /\ sem = 0 /\ overrun = {} /\ recv = "none"
  BY DEF Camera!Init
<1>2. Camera!NULL \in [alloc : Nat, data : Seq(Fragment)] /\ Len(Camera!NULL.data) = 0
  BY DEF Camera!NULL
<1>3. list \in Seq(Whole) /\ sem = Len(list)
  BY <1>1
<1>4. PictureType
  BY <1>1, <1>2, <1>3 DEF PictureType
<1> QED BY <1>1, <1>2, <1>4 DEF CameraInv, Begun, Fitting, Buffered, OnePicture

LEMMA InvCamera == CameraInv => Camera!CameraSafe
<1> SUFFICES ASSUME CameraInv PROVE Camera!CameraSafe
  OBVIOUS
<1>1. ASSUME NEW i \in DOMAIN list, NEW k \in 1 .. list[i].size PROVE list[i].data[k] = <<list[i].data[1][1], k - 1>>
  <2>1. list[i] \in Whole
    BY DEF CameraInv, PictureType
  <2> QED BY <2>1 DEF Whole, OnePicture
<1>2. overrun = {} /\ sem <= Len(list)
  BY DEF CameraInv, PictureType
<1> QED BY <1>1, <1>2 DEF Camera!CameraSafe
-----------------------------------------------------------------------------
(* Scans                                                                   *)

\* Packets from a device come in the order of their times, none after now.
Ordered(s, now) == \A i, j \in DOMAIN s : s[i] <= now /\ (i <= j => s[i] <= s[j])

NodesInv ==
    /\ clock \in Nat /\ gps \in Nat /\ gps <= clock \div Second /\ file \in Nat
    /\ scan \in Seq(Nat) /\ (model # "pcap" => Ordered(scan, clock))
    /\ Nodes!NodesSafe
    /\ node = "none" => thread = "none"
    /\ node = "loaded" => running \/ thread = "ended" \/ (model = "pcap" /\ thread = "last")
-----------------------------------------------------------------------------
\* Division leaves a remainder below the divisor, and keeps the order.
LEMMA DivMod ==
    ASSUME NEW x \in Nat, NEW d \in Nat \ {0}
    PROVE  x \div d \in Nat /\ x % d \in 0 .. (d - 1) /\ x = d * (x \div d) + (x % d)
OBVIOUS
LEMMA DivOrder ==
    ASSUME NEW x \in Nat, NEW y \in Nat, NEW d \in Nat \ {0}, x <= y
    PROVE  x \div d <= y \div d
<1> DEFINE p == x \div d
           q == y \div d
           r == x % d
           s == y % d
<1>1. p \in Nat /\ q \in Nat /\ r \in 0 .. (d - 1) /\ s \in 0 .. (d - 1) /\ x = d * p + r /\ y = d * q + s
  BY DivMod
<1> HIDE DEF p, q, r, s
<1>2. ASSUME p >= q + 1 PROVE FALSE
  <2>1. d * (p - q - 1) >= 0
    BY <1>1, <1>2
  <2>2. d * p >= d * q + d
    BY <1>1, <2>1
  <2> QED BY <1>1, <2>2
<1>3. p <= q
  BY <1>1, <1>2
<1> QED BY <1>3 DEF p, q

\* Times that only differ within the hour are told apart by it.
LEMMA WithinHour ==
    ASSUME NEW x \in Nat, NEW y \in Nat, NEW now \in Nat, x <= y, y <= now, x \div Hour = now \div Hour
    PROVE  2 * Hour * (now \div Hour) + (x % Hour) + (y % Hour) = x + y
<1> DEFINE q == now \div Hour
           p == y \div Hour
           f == x % Hour
           g == y % Hour
<1>1. Hour \in Nat \ {0}
  BY LidarAssumption
<1>2. q <= p /\ p <= q
  <2>1. x \div Hour <= y \div Hour
    BY <1>1, DivOrder, Zenon
  <2>2. y \div Hour <= now \div Hour
    BY <1>1, DivOrder, Zenon
  <2> QED BY <2>1, <2>2
<1>3. p \in Nat /\ g \in 0 .. (Hour - 1) /\ y = Hour * p + g
  BY <1>1, DivMod, Zenon
<1>4. x \div Hour \in Nat /\ f \in 0 .. (Hour - 1) /\ x = Hour * (x \div Hour) + f
  BY <1>1, DivMod, Zenon
<1>5. q \in Nat /\ f \in 0 .. (Hour - 1) /\ x = Hour * q + f
  BY <1>4, Zenon
<1> HIDE DEF q, p, f, g
<1>6. y = Hour * q + g /\ f \in Int /\ g \in Int
  BY <1>1, <1>2, <1>3, <1>5
<1>7. 2 * Hour * q = Hour * q + Hour * q /\ Hour * q \in Int
  BY <1>1, <1>5
<1>8. 2 * Hour * q + f + g = x + y
  BY <1>5, <1>6, <1>7
<1> QED BY <1>8 DEF q, f, g

\* A LeiShen's second is not in the future.
LEMMA WithinSecond == ASSUME NodesInv PROVE 2 * (gps * Second + (clock % Second)) <= 2 * clock
<1>1. Second \in Nat \ {0} /\ clock \in Nat /\ gps \in Nat /\ gps <= clock \div Second
  BY LidarAssumption DEF NodesInv
<1>2. clock \div Second \in Nat /\ clock % Second \in Int /\ clock = Second * (clock \div Second) + (clock % Second)
  BY <1>1, DivMod
<1> DEFINE q == clock \div Second
           r == clock % Second
<1>3. gps <= q /\ q \in Nat /\ r \in Int /\ clock = Second * q + r
  BY <1>1, <1>2
<1> HIDE DEF q, r
<1>4. Second * (q - gps) >= 0
  BY <1>1, <1>3
<1>5. gps * Second <= Second * q /\ gps * Second \in Int /\ Second * q \in Int
  BY <1>1, <1>3, <1>4
<1>6. 2 * (gps * Second + r) <= 2 * clock
  BY <1>1, <1>3, <1>5
<1> QED BY <1>6 DEF r

\* A scan with the packet that has come now.
LEMMA Appended ==
    ASSUME NEW s \in Seq(Nat), NEW t \in Nat
    PROVE  /\ Append(s, t) \in Seq(Nat) /\ Len(Append(s, t)) = Len(s) + 1
           /\ Head(Append(s, t)) = Append(s, t)[1] /\ Nodes!Last(Append(s, t)) = t
           /\ Ordered(s, t) => Ordered(Append(s, t), t)
<1> DEFINE a == Append(s, t)
<1>1. a \in Seq(Nat) /\ Len(s) \in Nat /\ Len(a) = Len(s) + 1 /\ a[Len(s) + 1] = t /\ \A i \in 1 .. Len(s) : a[i] = s[i]
  OBVIOUS
<1> HIDE DEF a
<1>2. Head(a) = a[1] /\ Nodes!Last(a) = t
  BY <1>1 DEF Nodes!Last
<1>3. ASSUME Ordered(s, t) PROVE Ordered(a, t)
  <2>1. DOMAIN a = 1 .. Len(s) + 1 /\ DOMAIN s = 1 .. Len(s)
    BY <1>1
  <2>2. \A i \in 1 .. Len(s) : s[i] \in Nat
    OBVIOUS
  <2>3. \A i, j \in 1 .. Len(s) : s[i] <= t /\ (i <= j => s[i] <= s[j])
    BY <1>3, <2>1 DEF Ordered
  <2>4. ASSUME NEW i \in 1 .. Len(s) + 1, NEW j \in 1 .. Len(s) + 1 PROVE a[i] <= t /\ (i <= j => a[i] <= a[j])
    <3>1. a[i] <= t
      <4>1. CASE i = Len(s) + 1
        BY <4>1, <1>1
      <4>2. CASE i \in 1 .. Len(s)
        <5>1. a[i] = s[i] /\ s[i] <= t
          BY <4>2, <1>1, <2>3
        <5> QED BY <5>1
      <4> QED BY <4>1, <4>2, <1>1
    <3>2. ASSUME i <= j PROVE a[i] <= a[j]
      <4>1. CASE j = Len(s) + 1
        BY <3>1, <4>1, <1>1
      <4>2. CASE j # Len(s) + 1
        <5>1. i \in 1 .. Len(s) /\ j \in 1 .. Len(s)
          BY <3>2, <4>2, <1>1
        <5>2. a[i] = s[i] /\ a[j] = s[j]
          BY <5>1, <1>1
        <5>3. s[i] <= s[j]
          BY <5>1, <3>2, <2>3
        <5> QED BY <5>2, <5>3
      <4> QED BY <4>1, <4>2
    <3> QED BY <3>1, <3>2
  <2> QED BY <2>1, <2>4 DEF Ordered
<1> QED BY <1>1, <1>2, <1>3 DEF a

\* The stamp of a scan that is complete.
LEMMA Stamped ==
    ASSUME NodesInv, NEW t \in Nat, model # "pcap" => t = clock,
           published' = [packets |-> Append(scan, t), stamp |-> Nodes!Stamp(Append(scan, t)), at |-> clock], model' = model
    PROVE  Nodes!StampsRight'
<1> DEFINE a == Append(scan, t)
           first == Head(a)
<1>0. clock \in Nat /\ scan \in Seq(Nat)
  BY DEF NodesInv
<1>1. a \in Seq(Nat) /\ Len(a) = Len(scan) + 1 /\ first = a[1] /\ Nodes!Last(a) = t /\ (model # "pcap" => Ordered(a, clock))
  BY <1>0, Appended DEF NodesInv
<1>2. first \in Nat /\ (model # "pcap" => first <= t /\ t <= clock)
  <2> DEFINE n == Len(scan) + 1
  <2>1. n \in Nat /\ a[n] = t /\ 1 \in DOMAIN a /\ n \in DOMAIN a /\ 1 <= n
    BY <1>0, <1>1
  <2>2. first \in Nat
    BY <1>1, <2>1
  <2> HIDE DEF a, first, n
  <2>3. ASSUME model # "pcap" PROVE a[1] <= a[n] /\ a[n] <= clock
    BY <2>1, <2>3, <1>1 DEF Ordered
  <2> QED BY <2>1, <2>2, <2>3, <1>1
<1>3. /\ published'.packets = a /\ published'.stamp = Nodes!Stamp(a) /\ published'.at = clock
      /\ Head(published'.packets) = first /\ Nodes!Last(published'.packets) = t
  BY <1>1
<1> HIDE DEF a, first
<1>4. ASSUME model = "velodyne", first \div Hour = clock \div Hour PROVE Nodes!Stamp(a) \in 2 * first .. 2 * t
  <2>1. Nodes!Stamp(a) = 2 * Hour * (clock \div Hour) + (first % Hour) + (t % Hour)
    BY <1>1, <1>4 DEF Nodes!Stamp, Nodes!VelodyneStamp, Nodes!computeTimeStamp, first
  <2>2. Nodes!Stamp(a) = first + t
    BY <1>0, <1>2, <1>4, <2>1, WithinHour
  <2> QED BY <1>2, <1>4, <2>2
<1>5. ASSUME model = "lslidar" PROVE Nodes!Stamp(a) <= 2 * t
  <2>1. Nodes!Stamp(a) = 2 * (gps * Second + (t % Second))
    BY <1>1, <1>5 DEF Nodes!Stamp, Nodes!LslidarStamp
  <2>2. t = clock
    BY <1>5
  <2> QED BY <2>1, <2>2, WithinSecond
<1> QED BY <1>3, <1>4, <1>5 DEF Nodes!StampsRight, Nodes!Last

\* What the invariant says of the times, and of the thread.
Times ==
    /\ clock \in Nat /\ gps \in Nat /\ gps <= clock \div Second /\ file \in Nat
    /\ scan \in Seq(Nat) /\ (model # "pcap" => Ordered(scan, clock)) /\ Nodes!StampsRight
Ending ==
    /\ Nodes!ThreadOver /\ (node = "none" => thread = "none")
    /\ node = "loaded" => running \/ thread = "ended" \/ (model = "pcap" /\ thread = "last")
LEMMA NodesParts == /\ NodesInv <=> Times /\ Ending
                    /\ NodesInv' <=> Times' /\ Ending'
<1>1. NodesInv <=> Times /\ Ending
  BY DEF NodesInv, Nodes!NodesSafe, Times, Ending
<1>2. NodesInv' <=> Times' /\ Ending'
  BY DEF NodesInv, Nodes!NodesSafe, Times, Ending
<1> QED BY <1>1, <1>2

\* The times stay right while no packet comes, whether the scan goes on or is given up.
LEMMA TimesKept ==
    ASSUME Times, scan' \in {scan, <<>>}, UNCHANGED <<model, clock, gps, published>>, file' \in Nat
    PROVE  Times'
<1>1. scan' \in Seq(Nat) /\ (model # "pcap" => Ordered(scan', clock))
  <2>1. CASE scan' = scan
    BY <2>1 DEF Times
  <2>2. CASE scan' = <<>>
    <3>1. scan' \in Seq(Nat) /\ DOMAIN scan' = {}
      BY <2>2
    <3> QED BY <3>1 DEF Ordered
  <2> QED BY <2>1, <2>2
<1>2. Nodes!StampsRight'
  BY DEF Times, Nodes!StampsRight, Nodes!Last, Nodes!Nothing
<1> QED BY <1>1, <1>2 DEF Times, Ordered

\* A packet of the device, or of the file.
LEMMA ReadKeeps ==
    ASSUME NodesInv, NEW t \in Nat, model # "pcap" => t = clock, Nodes!Read(t), thread = "poll", file' \in Nat,
           UNCHANGED <<model, clock, gps, node>>
    PROVE  NodesInv'
<1> DEFINE a == Append(scan, t)
<1>1. CASE Len(a) = Nodes!Size
  <2>1. published' = [packets |-> a, stamp |-> Nodes!Stamp(a), at |-> clock] /\ running' = TRUE /\ thread' = "top" /\ scan' = <<>>
    BY <1>1 DEF Nodes!Read
  <2>2. Nodes!StampsRight'
    BY <2>1, Stamped
  <2>3. scan' \in Seq(Nat) /\ DOMAIN scan' = {}
    BY <2>1
  <2>4. Times'
    BY <2>2, <2>3 DEF NodesInv, Times, Ordered
  <2>5. Ending'
    BY <2>1 DEF NodesInv, Ending, Nodes!NodesSafe, Nodes!ThreadOver
  <2> QED BY <2>4, <2>5, NodesParts
<1>2. CASE Len(a) # Nodes!Size
  <2>1. scan' = a /\ UNCHANGED <<published, running, thread>>
    BY <1>2 DEF Nodes!Read
  <2>2. scan' \in Seq(Nat) /\ (model # "pcap" => Ordered(scan', clock))
    BY <2>1, Appended DEF NodesInv
  <2>3. Nodes!StampsRight'
    BY <2>1 DEF NodesInv, Nodes!NodesSafe, Nodes!StampsRight, Nodes!Last, Nodes!Nothing
  <2>4. Times'
    BY <2>2, <2>3 DEF NodesInv, Times, Ordered
  <2>5. Ending'
    BY <2>1 DEF NodesInv, Ending, Nodes!NodesSafe, Nodes!ThreadOver
  <2> QED BY <2>4, <2>5, NodesParts
<1> QED BY <1>1, <1>2

\* Time goes on; the second of a LeiShen is that of now.
LEMMA ClockKeeps ==
    ASSUME NodesInv, UNCHANGED <<model, file, scan, published>>,
           \/ clock' = clock + 1 /\ gps' = gps
           \/ clock' = clock /\ gps' = clock \div Second
    PROVE  Times'
<1>1. clock \in Nat /\ gps \in Nat /\ gps <= clock \div Second /\ Second \in Nat \ {0}
  BY LidarAssumption DEF NodesInv
<1>2. clock' \in Nat /\ gps' \in Nat /\ gps' <= clock' \div Second
  <2>1. CASE clock' = clock + 1 /\ gps' = gps
    <3>1. clock' \in Nat /\ clock <= clock'
      BY <1>1, <2>1
    <3>2. clock \div Second <= clock' \div Second /\ clock \div Second \in Nat /\ clock' \div Second \in Nat
      BY <1>1, <3>1, DivOrder, DivMod, Zenon
    <3> DEFINE p == clock \div Second
               q == clock' \div Second
    <3>3. gps <= p /\ p <= q /\ p \in Nat /\ q \in Nat
      BY <1>1, <3>2, Zenon
    <3> HIDE DEF p, q
    <3>4. gps <= q
      BY <1>1, <3>3
    <3> QED BY <1>1, <2>1, <3>1, <3>4 DEF q
  <2>2. CASE clock' = clock /\ gps' = clock \div Second
    BY <1>1, <2>2, DivMod
  <2> QED BY <2>1, <2>2
<1>3. model # "pcap" => Ordered(scan', clock')
  <2>1. ASSUME model # "pcap" PROVE Ordered(scan, clock')
    <3>1. \A i \in DOMAIN scan : scan[i] \in Nat
      BY DEF NodesInv
    <3>2. Ordered(scan, clock) /\ clock <= clock'
      BY <1>1, <2>1 DEF NodesInv
    <3> QED BY <1>1, <1>2, <3>1, <3>2 DEF Ordered
  <2> QED BY <2>1
<1>4. Nodes!StampsRight'
  BY DEF NodesInv, Nodes!NodesSafe, Nodes!StampsRight, Nodes!Last, Nodes!Nothing
<1>5. file' \in Nat /\ scan' \in Seq(Nat)
  BY DEF NodesInv
<1> QED BY <1>2, <1>3, <1>4, <1>5 DEF Times, Ordered

\* The steps of the thread.
LEMMA PollKeeps == ASSUME NodesInv, Nodes!Poll PROVE NodesInv'
<1>0. Times /\ Ending /\ file \in Nat /\ clock \in Nat
  BY NodesParts DEF NodesInv
<1>1. CASE Nodes!getPacket
  BY <1>1, <1>0, ReadKeeps DEF Nodes!getPacket, Nodes!setup, Nodes!device, Nodes!replay
<1>2. CASE Nodes!ReadFile
  BY <1>2, <1>0, ReadKeeps DEF Nodes!ReadFile, Nodes!setup, Nodes!device
<1>3. CASE Nodes!DevicePacket
  <2>1. Times'
    BY <1>3, ClockKeeps DEF Nodes!DevicePacket, Nodes!setup, Nodes!device, Nodes!replay
  <2>2. Ending'
    BY <1>3, <1>0 DEF Nodes!DevicePacket, Nodes!setup, Ending, Nodes!ThreadOver
  <2> QED BY <2>1, <2>2, NodesParts
<1>4. CASE Nodes!EndOfFile \/ Nodes!NullFile
  <2>1. Times'
    <3>1. file' \in Nat
      BY <1>4, <1>0, LidarAssumption DEF Nodes!EndOfFile, Nodes!NullFile, Nodes!NoFile, Nodes!replay
    <3> QED BY <1>4, <1>0, <3>1, TimesKept DEF Nodes!EndOfFile, Nodes!NullFile, Nodes!setup, Nodes!device
  <2>2. Ending'
    BY <1>4, <1>0 DEF Nodes!EndOfFile, Nodes!NullFile, Nodes!setup, Ending, Nodes!ThreadOver
  <2> QED BY <2>1, <2>2, NodesParts
<1>5. CASE Nodes!devicePoll \/ Nodes!PollEnds \/ Nodes!Timeout
  <2>1. Times'
    BY <1>5, <1>0, TimesKept DEF Nodes!devicePoll, Nodes!PollEnds, Nodes!Timeout, Nodes!setup, Nodes!device, Nodes!replay
  <2>2. Ending'
    BY <1>5, <1>0 DEF Nodes!devicePoll, Nodes!PollEnds, Nodes!Timeout, Nodes!setup, Ending, Nodes!ThreadOver
  <2> QED BY <2>1, <2>2, NodesParts
<1> QED BY <1>1, <1>2, <1>3, <1>4, <1>5 DEF Nodes!Poll

LEMMA StepNodes == NodesInv /\ [Nodes!Next]_nodeVars => NodesInv'
<1> SUFFICES ASSUME NodesInv, [Nodes!Next]_nodeVars PROVE NodesInv'
  OBVIOUS
<1>0. Times /\ Ending /\ file \in Nat
  BY NodesParts DEF NodesInv
<1>1. CASE Nodes!Tick
  <2>1. Times'
    BY <1>1, ClockKeeps DEF Nodes!Tick, Nodes!setup, Nodes!replay
  <2>2. Ending'
    BY <1>1, <1>0 DEF Nodes!Tick, Nodes!setup, Ending, Nodes!ThreadOver
  <2> QED BY <2>1, <2>2, NodesParts
<1>2. CASE Nodes!onInit \/ Nodes!Unload \/ Nodes!Join \/ Nodes!Shutdown \/ Nodes!FallSilent \/ UNCHANGED nodeVars
  <2>1. Times'
    <3>1. file' \in Nat
      BY <1>2, <1>0, LidarAssumption DEF Nodes!onInit, Nodes!NoFile, Nodes!Unload, Nodes!Join, Nodes!Shutdown, Nodes!FallSilent, nodeVars, Nodes!replay
    <3> QED BY <1>2, <1>0, <3>1, TimesKept DEF Nodes!onInit, Nodes!Unload, Nodes!Join, Nodes!Shutdown, Nodes!FallSilent, nodeVars, Nodes!setup, Nodes!device
  <2>2. Ending'
    BY <1>2, <1>0 DEF Nodes!onInit, Nodes!Unload, Nodes!Join, Nodes!Shutdown, Nodes!FallSilent, nodeVars, Nodes!setup, Nodes!Gone, Ending, Nodes!ThreadOver
  <2> QED BY <2>1, <2>2, NodesParts
<1> QED BY <1>1, <1>2, PollKeeps DEF Nodes!Next

LEMMA InitNodes == Nodes!Init => NodesInv
<1> SUFFICES ASSUME Nodes!Init PROVE NodesInv
  OBVIOUS
<1>1. clock = 0 /\ gps = 0 /\ file = 0 /\ scan = <<>> /\ published = Nodes!Nothing /\ node = "none" /\ thread = "none"
  BY DEF Nodes!Init
<1>2. gps <= clock \div Second
  <2>1. clock \in Nat /\ Second \in Nat \ {0}
    BY <1>1, LidarAssumption
  <2> QED BY <1>1, <2>1, DivMod
<1>3. scan \in Seq(Nat) /\ DOMAIN scan = {}
  BY <1>1
<1> QED BY <1>1, <1>2, <1>3 DEF NodesInv, Nodes!NodesSafe, Nodes!StampsRight, Nodes!ThreadOver, Ordered
-----------------------------------------------------------------------------
(* Geometry: sums, multiples and rotations of the plane.                   *)

Place == Int \X Int
Times2(n, p) == <<n * p[1], n * p[2]>>

\* What is multiplied is divided without a rest.
LEMMA Exact == ASSUME NEW d \in Nat \ {0}, NEW y \in Int PROVE (d * y) \div d = y
<1> DEFINE q == (d * y) \div d
           r == (d * y) % d
<1>1. d * y \in Int
  OBVIOUS
<1>2. q \in Int /\ r \in 0 .. (d - 1) /\ d * y = d * q + r
  BY <1>1
<1> HIDE DEF q, r
<1>3. d * (y - q) = r
  BY <1>2
<1>4. ASSUME y - q >= 1 PROVE FALSE
  <2>1. d * (y - q - 1) >= 0
    BY <1>2, <1>4
  <2> QED BY <2>1, <1>2, <1>3
<1>5. ASSUME y - q <= -1 PROVE FALSE
  <2>1. d * (y - q + 1) <= 0
    BY <1>2, <1>5
  <2> QED BY <2>1, <1>2, <1>3
<1>6. q = y
  BY <1>2, <1>4, <1>5
<1> QED BY <1>6 DEF q

LEMMA PlaceParts == ASSUME NEW p \in Place PROVE p = <<p[1], p[2]>> /\ p[1] \in Int /\ p[2] \in Int
BY DEF Place

LEMMA RotateType == ASSUME NEW k \in Int, NEW p \in Place PROVE Motion!Rotate(k, p) \in Place
<1>1. p[1] \in Int /\ p[2] \in Int
  BY PlaceParts
<1> QED BY <1>1 DEF Motion!Rotate, Place

\* A rotation of a sum, and of a multiple.
LEMMA RotatePlus ==
    ASSUME NEW k \in Int, NEW p \in Place, NEW q \in Place
    PROVE  Motion!Rotate(k, Motion!Plus(p, q)) = Motion!Plus(Motion!Rotate(k, p), Motion!Rotate(k, q))
<1>1. p[1] \in Int /\ p[2] \in Int /\ q[1] \in Int /\ q[2] \in Int
  BY PlaceParts
<1>2. p = <<p[1], p[2]>> /\ q = <<q[1], q[2]>>
  BY PlaceParts
<1>3. k % 6 \in 0 .. 5
  OBVIOUS
<1> QED BY <1>1, <1>2, <1>3 DEF Motion!Rotate, Motion!Plus
LEMMA RotateTimes ==
    ASSUME NEW k \in Int, NEW n \in Int, NEW p \in Place
    PROVE  Motion!Rotate(k, Times2(n, p)) = Times2(n, Motion!Rotate(k, p))
<1> DEFINE a == p[1]
           b == p[2]
<1>1. a \in Int /\ b \in Int /\ p = <<a, b>>
  BY PlaceParts
<1>2. n * a \in Int /\ n * b \in Int /\ n * (a + b) = n * a + n * b /\ n * (-a) = -(n * a) /\ n * (-b) = -(n * b) /\ n * (-(a + b)) = -(n * a + n * b)
  BY <1>1
<1> HIDE DEF a, b
<1>3. Motion!Rotate(k, <<n * a, n * b>>) = Times2(n, Motion!Rotate(k, <<a, b>>))
  BY <1>1, <1>2 DEF Motion!Rotate, Times2
<1> QED BY <1>1, <1>3 DEF Times2

\* Rotations repeat after a turn; a step more is one rotation more.
LEMMA RotateTurn == ASSUME NEW j \in Int, NEW k \in Int, NEW p, j % 6 = k % 6 PROVE Motion!Rotate(j, p) = Motion!Rotate(k, p)
BY DEF Motion!Rotate
LEMMA RotateStep == ASSUME NEW k \in Int, NEW p \in Place PROVE Motion!Rotate(k + 1, p) = Motion!Rotate(1, Motion!Rotate(k, p))
<1> DEFINE a == p[1]
           b == p[2]
           l == k % 6
<1>1. p = <<a, b>> /\ a \in Int /\ b \in Int
  BY PlaceParts
<1>2. l \in 0 .. 5 /\ (k + 1) % 6 = IF l < 5 THEN l + 1 ELSE 0
  OBVIOUS
<1>3. \A x, y \in Int : Motion!Rotate(1, <<x, y>>) = <<-y, x + y>>
  BY DEF Motion!Rotate
<1> HIDE DEF a, b
<1>4. CASE l = 0
  <2>1. Motion!Rotate(k, p) = <<a, b>>
    BY <1>1, <1>4 DEF Motion!Rotate
  <2>2. Motion!Rotate(k + 1, p) = <<-b, a + b>>
    <3>1. (k + 1) % 6 = 1
      BY <1>2, <1>4
    <3> QED BY <1>1, <3>1 DEF Motion!Rotate
  <2>3. Motion!Rotate(1, <<a, b>>) = <<-b, (a) + (b)>>
    <3>1. a \in Int /\ b \in Int
      BY <1>1
    <3> QED BY <1>3, <3>1, Zenon
  <2>4. -b = -b /\ (a) + (b) = a + b
    BY <1>1
  <2> QED BY <2>1, <2>2, <2>3, <2>4
<1>5. CASE l = 1
  <2>1. Motion!Rotate(k, p) = <<-b, a + b>>
    BY <1>1, <1>5 DEF Motion!Rotate
  <2>2. Motion!Rotate(k + 1, p) = <<-(a + b), a>>
    <3>1. (k + 1) % 6 = 2
      BY <1>2, <1>5
    <3> QED BY <1>1, <3>1 DEF Motion!Rotate
  <2>3. Motion!Rotate(1, <<-b, a + b>>) = <<-(a + b), (-b) + (a + b)>>
    <3>1. -b \in Int /\ a + b \in Int
      BY <1>1
    <3> QED BY <1>3, <3>1, Zenon
  <2>4. -(a + b) = -(a + b) /\ (-b) + (a + b) = a
    BY <1>1
  <2> QED BY <2>1, <2>2, <2>3, <2>4
<1>6. CASE l = 2
  <2>1. Motion!Rotate(k, p) = <<-(a + b), a>>
    BY <1>1, <1>6 DEF Motion!Rotate
  <2>2. Motion!Rotate(k + 1, p) = <<-a, -b>>
    <3>1. (k + 1) % 6 = 3
      BY <1>2, <1>6
    <3> QED BY <1>1, <3>1 DEF Motion!Rotate
  <2>3. Motion!Rotate(1, <<-(a + b), a>>) = <<-a, (-(a + b)) + (a)>>
    <3>1. -(a + b) \in Int /\ a \in Int
      BY <1>1
    <3> QED BY <1>3, <3>1, Zenon
  <2>4. -a = -a /\ (-(a + b)) + (a) = -b
    BY <1>1
  <2> QED BY <2>1, <2>2, <2>3, <2>4
<1>7. CASE l = 3
  <2>1. Motion!Rotate(k, p) = <<-a, -b>>
    BY <1>1, <1>7 DEF Motion!Rotate
  <2>2. Motion!Rotate(k + 1, p) = <<b, -(a + b)>>
    <3>1. (k + 1) % 6 = 4
      BY <1>2, <1>7
    <3> QED BY <1>1, <3>1 DEF Motion!Rotate
  <2>3. Motion!Rotate(1, <<-a, -b>>) = <<-(-b), (-a) + (-b)>>
    <3>1. -a \in Int /\ -b \in Int
      BY <1>1
    <3> QED BY <1>3, <3>1, Zenon
  <2>4. -(-b) = b /\ (-a) + (-b) = -(a + b)
    BY <1>1
  <2> QED BY <2>1, <2>2, <2>3, <2>4
<1>8. CASE l = 4
  <2>1. Motion!Rotate(k, p) = <<b, -(a + b)>>
    BY <1>1, <1>8 DEF Motion!Rotate
  <2>2. Motion!Rotate(k + 1, p) = <<a + b, -a>>
    <3>1. (k + 1) % 6 = 5
      BY <1>2, <1>8
    <3> QED BY <1>1, <3>1 DEF Motion!Rotate
  <2>3. Motion!Rotate(1, <<b, -(a + b)>>) = <<-(-(a + b)), (b) + (-(a + b))>>
    <3>1. b \in Int /\ -(a + b) \in Int
      BY <1>1
    <3> QED BY <1>3, <3>1, Zenon
  <2>4. -(-(a + b)) = a + b /\ (b) + (-(a + b)) = -a
    BY <1>1
  <2> QED BY <2>1, <2>2, <2>3, <2>4
<1>9. CASE l = 5
  <2>1. Motion!Rotate(k, p) = <<a + b, -a>>
    BY <1>1, <1>9 DEF Motion!Rotate
  <2>2. Motion!Rotate(k + 1, p) = <<a, b>>
    <3>1. (k + 1) % 6 = 0
      BY <1>2, <1>9
    <3> QED BY <1>1, <3>1 DEF Motion!Rotate
  <2>3. Motion!Rotate(1, <<a + b, -a>>) = <<-(-a), (a + b) + (-a)>>
    <3>1. a + b \in Int /\ -a \in Int
      BY <1>1
    <3> QED BY <1>3, <3>1, Zenon
  <2>4. -(-a) = a /\ (a + b) + (-a) = b
    BY <1>1
  <2> QED BY <2>1, <2>2, <2>3, <2>4
<1> QED BY <1>2, <1>4, <1>5, <1>6, <1>7, <1>8, <1>9

\* One rotation after the other.
LEMMA RotateTwice ==
    ASSUME NEW j \in Int, NEW k \in Int, NEW p \in Place
    PROVE  Motion!Rotate(j, Motion!Rotate(k, p)) = Motion!Rotate(j + k, p)
<1> DEFINE q == Motion!Rotate(k, p)
<1>0. q \in Place
  BY RotateType
<1>1. Motion!Rotate(0, q) = Motion!Rotate(k, p)
  BY DEF Motion!Rotate
<1> HIDE DEF q
<1>2. Motion!Rotate(1, q) = Motion!Rotate(k + 1, p)
  <2>1. 0 + 1 = 1 /\ k + 1 = k + 1 /\ k \in Int
    OBVIOUS
  <2>2. Motion!Rotate(0 + 1, q) = Motion!Rotate(1, Motion!Rotate(0, q))
    BY <1>0, RotateStep
  <2>3. Motion!Rotate(k + 1, p) = Motion!Rotate(1, Motion!Rotate(k, p))
    BY <2>1, RotateStep
  <2> QED BY <1>1, <2>1, <2>2, <2>3
<1>3. Motion!Rotate(2, q) = Motion!Rotate(k + 2, p)
  <2>1. 1 + 1 = 2 /\ k + 1 + 1 = k + 2 /\ k + 1 \in Int
    OBVIOUS
  <2>2. Motion!Rotate(1 + 1, q) = Motion!Rotate(1, Motion!Rotate(1, q))
    BY <1>0, RotateStep
  <2>3. Motion!Rotate(k + 1 + 1, p) = Motion!Rotate(1, Motion!Rotate(k + 1, p))
    BY <2>1, RotateStep
  <2> QED BY <1>2, <2>1, <2>2, <2>3
<1>4. Motion!Rotate(3, q) = Motion!Rotate(k + 3, p)
  <2>1. 2 + 1 = 3 /\ k + 2 + 1 = k + 3 /\ k + 2 \in Int
    OBVIOUS
  <2>2. Motion!Rotate(2 + 1, q) = Motion!Rotate(1, Motion!Rotate(2, q))
    BY <1>0, RotateStep
  <2>3. Motion!Rotate(k + 2 + 1, p) = Motion!Rotate(1, Motion!Rotate(k + 2, p))
    BY <2>1, RotateStep
  <2> QED BY <1>3, <2>1, <2>2, <2>3
<1>5. Motion!Rotate(4, q) = Motion!Rotate(k + 4, p)
  <2>1. 3 + 1 = 4 /\ k + 3 + 1 = k + 4 /\ k + 3 \in Int
    OBVIOUS
  <2>2. Motion!Rotate(3 + 1, q) = Motion!Rotate(1, Motion!Rotate(3, q))
    BY <1>0, RotateStep
  <2>3. Motion!Rotate(k + 3 + 1, p) = Motion!Rotate(1, Motion!Rotate(k + 3, p))
    BY <2>1, RotateStep
  <2> QED BY <1>4, <2>1, <2>2, <2>3
<1>6. Motion!Rotate(5, q) = Motion!Rotate(k + 5, p)
  <2>1. 4 + 1 = 5 /\ k + 4 + 1 = k + 5 /\ k + 4 \in Int
    OBVIOUS
  <2>2. Motion!Rotate(4 + 1, q) = Motion!Rotate(1, Motion!Rotate(4, q))
    BY <1>0, RotateStep
  <2>3. Motion!Rotate(k + 4 + 1, p) = Motion!Rotate(1, Motion!Rotate(k + 4, p))
    BY <2>1, RotateStep
  <2> QED BY <1>5, <2>1, <2>2, <2>3
<1>7. ASSUME NEW m \in 0 .. 5, j % 6 = m, Motion!Rotate(m, q) = Motion!Rotate(k + m, p) PROVE Motion!Rotate(j, q) = Motion!Rotate(j + k, p)
  <2>1. j % 6 = m % 6 /\ (j + k) % 6 = (k + m) % 6 /\ m \in Int /\ k + m \in Int /\ j + k \in Int
    BY <1>7
  <2>2. Motion!Rotate(j, q) = Motion!Rotate(m, q)
    BY <2>1, RotateTurn
  <2>3. Motion!Rotate(j + k, p) = Motion!Rotate(k + m, p)
    BY <2>1, RotateTurn
  <2> QED BY <1>7, <2>2, <2>3
<1>8. j % 6 \in {0, 1, 2, 3, 4, 5} /\ Motion!Rotate(k + 0, p) = Motion!Rotate(k, p)
  <2>1. k + 0 = k
    OBVIOUS
  <2> QED BY <2>1
<1>9. ASSUME NEW m \in 0 .. 5 PROVE Motion!Rotate(m, q) = Motion!Rotate(k + m, p)
  BY <1>1, <1>2, <1>3, <1>4, <1>5, <1>6, <1>8
<1> QED BY <1>7, <1>8, <1>9 DEF q
-----------------------------------------------------------------------------
(* Motion                                                                  *)

Moving == motion.v \in Place /\ motion.h \in Int /\ motion.r \in Int

\* Where the car is, and what it sees.
LEMMA PoseFacts ==
    ASSUME Moving, NEW t \in Nat
    PROVE  Motion!PoseAt(t) = [x |-> Times2(t, motion.v), h |-> motion.h + motion.r * t] /\ Times2(t, motion.v) \in Place
<1> DEFINE v == motion.v
<1>1. v[1] \in Int /\ v[2] \in Int
  BY PlaceParts DEF Moving
<1> HIDE DEF v
<1>2. v[1] * t \in Int /\ v[2] * t \in Int /\ v[1] * t = t * v[1] /\ v[2] * t = t * v[2]
  BY <1>1
<1>3. ASSUME NEW y \in Int PROVE y \div 1 = y
  BY <1>3
<1>4. Motion!Scale(v, t, 1) = <<t * v[1], t * v[2]>>
  BY <1>2, <1>3 DEF Motion!Scale
<1>5. <<t * v[1], t * v[2]>> \in Place
  BY <1>2 DEF Place
<1> QED BY <1>4, <1>5 DEF Times2, Motion!PoseAt, v

LEMMA MeasuredFacts ==
    ASSUME Moving, NEW w \in Place, NEW t \in Nat
    PROVE  /\ Motion!Minus(w, Times2(t, motion.v)) \in Place
           /\ Motion!Measured(w, t) = Motion!Rotate(-(motion.h + motion.r * t), Motion!Minus(w, Times2(t, motion.v)))
           /\ Motion!Measured(w, t) \in Place
<1> DEFINE x == Times2(t, motion.v)
           h == motion.h + motion.r * t
<1>1. Motion!PoseAt(t) = [x |-> x, h |-> h] /\ x \in Place /\ h \in Int
  BY PoseFacts DEF Moving
<1> HIDE DEF x, h
<1>2. Motion!Minus(w, x) \in Place
  <2>1. w[1] \in Int /\ w[2] \in Int /\ x[1] \in Int /\ x[2] \in Int
    BY <1>1, PlaceParts
  <2> QED BY <2>1 DEF Motion!Minus, Place
<1>3. Motion!Measured(w, t) = Motion!Rotate(-h, Motion!Minus(w, x))
  BY <1>1 DEF Motion!Measured
<1>4. -h \in Int
  BY <1>1
<1> QED BY <1>2, <1>3, <1>4, RotateType DEF x, h

\* A share of the way, which is a whole number of steps.
LEMMA Shared ==
    ASSUME NEW span \in Nat \ {0}, NEW share \in Int, NEW y \in Int
    PROVE  (((-span) * y) * share) \div span = (-share) * y
<1> DEFINE z == -(share * y)
<1>1. z \in Int /\ ((-span) * y) * share = span * z /\ (-share) * y = z
  OBVIOUS
<1> HIDE DEF z
<1>2. (span * z) \div span = z
  BY <1>1, Exact
<1> QED BY <1>1, <1>2

\* The way of the car from the first pose to the last is taken off as far as a point has not gone it.
LEMMA WayBack ==
    ASSUME Moving, NEW lo \in Nat, NEW hi \in Nat, lo < hi, NEW share \in Int, NEW k \in Int
    PROVE  /\ Motion!Scale(Motion!Rotate(k, Motion!Minus(Times2(lo, motion.v), Times2(hi, motion.v))), share, hi - lo)
                = Motion!Rotate(k, Times2(-share, motion.v))
           /\ Times2(-share, motion.v) \in Place
<1> DEFINE v == motion.v
           u == Motion!Rotate(k, v)
           span == hi - lo
<1>1. v \in Place /\ v[1] \in Int /\ v[2] \in Int
  BY PlaceParts DEF Moving
<1> HIDE DEF v
<1>2. span \in Nat \ {0} /\ -span \in Int /\ -share \in Int
  OBVIOUS
<1>3. Motion!Minus(Times2(lo, v), Times2(hi, v)) = Times2(-span, v)
  <2>1. lo * v[1] - hi * v[1] = (-span) * v[1] /\ lo * v[2] - hi * v[2] = (-span) * v[2]
    BY <1>1
  <2> HIDE DEF span
  <2> QED BY <2>1 DEF Motion!Minus, Times2
<1>4. Motion!Rotate(k, Times2(-span, v)) = Times2(-span, u) /\ Motion!Rotate(k, Times2(-share, v)) = Times2(-share, u)
  BY <1>1, <1>2, RotateTimes
<1>5. u \in Place /\ u[1] \in Int /\ u[2] \in Int
  <2>1. u \in Place
    BY <1>1, RotateType
  <2> QED BY <2>1, PlaceParts
<1> HIDE DEF u, span
<1>6. Motion!Scale(Times2(-span, u), share, span) = Times2(-share, u)
  <2>1. (((-span) * u[1]) * share) \div span = (-share) * u[1]
    BY <1>2, <1>5, Shared
  <2>2. (((-span) * u[2]) * share) \div span = (-share) * u[2]
    BY <1>2, <1>5, Shared
  <2> QED BY <2>1, <2>2 DEF Motion!Scale, Times2
<1>7. Times2(-share, v) \in Place
  <2>1. (-share) * v[1] \in Int /\ (-share) * v[2] \in Int
    BY <1>1
  <2> QED BY <2>1 DEF Times2, Place
<1> QED BY <1>3, <1>4, <1>6, <1>7 DEF v, span

\* A turn of less than half a turn is the short way round.
LEMMA ShortWay == ASSUME NEW a \in Int, NEW b \in Int, b - a \in -3 .. 2 PROVE ((a - b + 2) % 6) - 2 = a - b
<1> DEFINE d == a - b + 2
<1>1. d \in 0 .. 5
  OBVIOUS
<1> HIDE DEF d
<1>2. d % 6 = d
  BY <1>1
<1> QED BY <1>2 DEF d

\* A point that was measured on the way stands, after its correction, where it would have been measured at the end.
LEMMA Corrected ==
    ASSUME Moving, NEW lo \in Nat, NEW hi \in Nat, lo < hi, motion.r * (hi - lo) \in -3 .. 2,
           call.min = lo, call.max = hi, call.pose_min = Motion!PoseAt(lo), call.pose_max = Motion!PoseAt(hi),
           NEW q, q.t \in lo .. hi, q.w \in Place, q.p = Motion!Measured(q.w, q.t)
    PROVE  Motion!Compensated(q) = Motion!Measured(q.w, hi)
<1> DEFINE t == q.t
           w == q.w
           v == motion.v
           h == motion.h
           r == motion.r
           share == hi - t
           m == Motion!Minus(w, Times2(t, v))
           k == -(h + r * hi)
           ti == Motion!Rotate(k, Times2(-share, v))
<1>1. t \in Nat /\ share \in Int /\ v \in Place /\ h \in Int /\ r \in Int /\ k \in Int /\ hi - lo # 0 /\ hi - lo \in Nat \ {0}
  BY DEF Moving
<1>2. m \in Place /\ q.p = Motion!Rotate(-(h + r * t), m) /\ q.p \in Place
  BY <1>1, MeasuredFacts
<1>3. Motion!Measured(w, hi) = Motion!Rotate(k, Motion!Minus(w, Times2(hi, v)))
  BY MeasuredFacts
<1>4. Motion!Scale(Motion!Translation(call.pose_min, call.pose_max), share, hi - lo) = ti /\ Times2(-share, v) \in Place
  <2>1. call.pose_min.x = Times2(lo, v) /\ call.pose_max.x = Times2(hi, v) /\ call.pose_max.h = h + r * hi
    <3>1. Motion!PoseAt(lo) = [x |-> Times2(lo, v), h |-> h + r * lo]
      BY PoseFacts
    <3>2. Motion!PoseAt(hi) = [x |-> Times2(hi, v), h |-> h + r * hi]
      BY PoseFacts
    <3> QED BY <3>1, <3>2
  <2>2. Motion!Translation(call.pose_min, call.pose_max) = Motion!Rotate(k, Motion!Minus(Times2(lo, v), Times2(hi, v)))
    BY <2>1 DEF Motion!Translation
  <2> HIDE DEF k, share
  <2> QED BY <1>1, <2>2, WayBack
<1>5. Motion!Rotation(call.pose_min, call.pose_max) = -(r * (hi - lo))
  <2>1. call.pose_min.h = h + r * lo /\ call.pose_max.h = h + r * hi
    BY PoseFacts
  <2> DEFINE x == h + r * lo
             y == h + r * hi
  <2>2. x \in Int /\ y \in Int /\ y - x = r * (hi - lo) /\ y - x \in -3 .. 2
    <3>1. h \in Int /\ r \in Int /\ r * (hi - lo) \in -3 .. 2
      BY <1>1
    <3> HIDE DEF h, r
    <3>2. x \in Int /\ y \in Int /\ y - x = r * (hi - lo)
      BY <3>1
    <3> HIDE DEF x, y
    <3> QED BY <3>1, <3>2
  <2> HIDE DEF x, y
  <2>3. ((x - y + 2) % 6) - 2 = x - y
    BY <2>2, ShortWay
  <2>4. x - y = -(r * (hi - lo))
    BY <2>2
  <2> QED BY <2>1, <2>3, <2>4 DEF Motion!Rotation, x, y
<1>6. Motion!Compensated(q) = Motion!Plus(Motion!Rotate(-(r * share), q.p), ti)
  <2>1. q.p # Motion!NaN
    BY <1>2, PlaceParts DEF Motion!NaN
  <2> DEFINE turn == -(r * (hi - lo))
             span == hi - lo
  <2>2. Motion!Compensated(q) = IF turn = 0 THEN Motion!Plus(q.p, ti) ELSE Motion!Plus(Motion!Rotate((turn * share) \div span, q.p), ti)
    <3> HIDE DEF ti, turn
    <3> QED BY <1>1, <1>4, <1>5, <2>1 DEF Motion!Compensated, Motion!Moved, Motion!Turned, turn
  <2>3. CASE turn = 0
    <3>1. r = 0
      BY <2>3, <1>1
    <3>2. -(r * share) = 0
      BY <3>1, <1>1
    <3>3. Motion!Rotate(0, q.p) = q.p
      BY DEF Motion!Rotate
    <3> QED BY <2>2, <2>3, <3>2, <3>3
  <2>4. CASE turn # 0
    <3>1. (turn * share) \div span = -(r * share)
      <4> DEFINE z == -(r * share)
      <4>1. z \in Int /\ turn * share = span * z /\ span \in Nat \ {0}
        BY <1>1
      <4> HIDE DEF z, span, turn
      <4>2. (span * z) \div span = z
        BY <4>1, Exact
      <4>3. (turn * share) \div span = z
        BY <4>1, <4>2
      <4> QED BY <4>3 DEF z
    <3> HIDE DEF turn, span
    <3> QED BY <2>2, <2>4, <3>1
  <2> QED BY <2>3, <2>4
<1>7. Motion!Rotate(-(r * share), q.p) = Motion!Rotate(k, m)
  <2>1. -(r * share) \in Int /\ -(h + r * t) \in Int /\ -(r * share) + -(h + r * t) = k
    BY <1>1
  <2> HIDE DEF m, k, share
  <2>2. Motion!Rotate(-(r * share), Motion!Rotate(-(h + r * t), m)) = Motion!Rotate(-(r * share) + -(h + r * t), m)
    BY <2>1, <1>2, RotateTwice
  <2> QED BY <2>1, <2>2, <1>2
<1>8. Motion!Plus(m, Times2(-share, v)) = Motion!Minus(w, Times2(hi, v))
  <2>1. w[1] \in Int /\ w[2] \in Int /\ v[1] \in Int /\ v[2] \in Int
    BY <1>1, PlaceParts
  <2>2. /\ w[1] - t * v[1] + (-share) * v[1] = w[1] - hi * v[1]
        /\ w[2] - t * v[2] + (-share) * v[2] = w[2] - hi * v[2]
    BY <1>1, <2>1
  <2> HIDE DEF t, w, v, share
  <2> QED BY <2>2 DEF Motion!Plus, Motion!Minus, Times2, m
<1>9. Motion!Plus(Motion!Rotate(k, m), ti) = Motion!Rotate(k, Motion!Plus(m, Times2(-share, v)))
  <2> HIDE DEF m, k, share
  <2> QED BY <1>1, <1>2, <1>4, RotatePlus
<1> HIDE DEF m, k, share, ti
<1> QED BY <1>3, <1>6, <1>7, <1>8, <1>9
\* A point as the lidar has measured it; and the points of one scan.
Fields == {"x", "y", "z", "intensity", "timestamp"}
Points == [t : Nat, w : Place, hidden : BOOLEAN, p : Place \cup {Motion!NaN}]
Seen(q) == q.p = IF q.hidden THEN Motion!NaN ELSE Motion!Measured(q.w, q.t)
Spans(m, lo, hi) ==
    /\ lo \in Nat /\ hi \in Nat /\ lo <= hi /\ hi - lo <= ScanLen
    /\ \A q \in m : q.t \in lo .. hi
    /\ \E a, b \in m : a.t = lo /\ b.t = hi
Scan(m) == (\A q \in m : Seen(q)) /\ (m # {} => \E a, b \in m : Spans(m, a.t, b.t))

Calls ==
    [pc : {"idle", "can_min", "look_min", "can_max", "look_max", "compensate"}, msg : SUBSET Points, min : Nat, max : Nat,
     pose_min : [x : Place, h : Int] \cup {0}, pose_max : [x : Place, h : Int] \cup {0}]

MotionType ==
    /\ motion \in [v : Place, r : TurnRates, h : Int, fields : SUBSET Fields]
    /\ made \in Nat /\ offsets \subseteq motion.fields
    /\ waiting \in Seq(SUBSET Points) /\ Len(waiting) <= QueueSize
    /\ call \in Calls
    /\ out.stamp \in Nat

\* The last time of the cloud at work, or else of the one published: what waits is later, in the order of its times.
Reached == IF call.pc = "idle" THEN out.stamp ELSE call.max
Waiting ==
    /\ Reached <= made /\ out.stamp <= Reached
    /\ \A i \in DOMAIN waiting : Scan(waiting[i]) /\ \A q \in waiting[i] : Reached < q.t /\ q.t <= made
    /\ \A i, j \in DOMAIN waiting : i < j => \A q \in waiting[i], r \in waiting[j] : q.t < r.t

\* The cloud at work, with the poses that have been looked up.
AtWork ==
    call.pc # "idle" =>
      /\ Scan(call.msg) /\ Spans(call.msg, call.min, call.max) /\ out.stamp < call.max /\ "timestamp" \in motion.fields
      /\ call.pc \in {"can_max", "look_max", "compensate"} => call.pose_min = Motion!PoseAt(call.min)
      /\ call.pc = "compensate" => call.pose_max = Motion!PoseAt(call.max)

\* The cloud that was published.
Shown == Motion!Placed /\ Motion!Ascending /\ (out.msg # {} => "timestamp" \in motion.fields)

MotionInv == MotionType /\ Waiting /\ AtWork /\ Shown
-----------------------------------------------------------------------------
\* The car goes on as before: what is seen, and where it is, does not change.
LEMMA SameView ==
    ASSUME motion' = motion
    PROVE  /\ \A w, t : Motion!Measured(w, t)' = Motion!Measured(w, t)
           /\ \A t : Motion!PoseAt(t)' = Motion!PoseAt(t)
           /\ \A m : Scan(m)' <=> Scan(m)
<1>1. \A t : Motion!PoseAt(t)' = Motion!PoseAt(t)
  BY DEF Motion!PoseAt, Motion!Scale
<1>2. \A w, t : Motion!Measured(w, t)' = Motion!Measured(w, t)
  BY <1>1 DEF Motion!Measured, Motion!Minus, Motion!Rotate
<1>3. \A m : Scan(m)' <=> Scan(m)
  BY <1>2 DEF Scan, Seen, Spans, Motion!NaN
<1> QED BY <1>1, <1>2, <1>3
LEMMA SameScans ==
    ASSUME MotionInv, motion' = motion, waiting' = waiting
    PROVE \A i \in DOMAIN waiting' : Scan(waiting[i])'
<1>1. \A i \in DOMAIN waiting : Scan(waiting[i])
  BY DEF MotionInv, Waiting
<1> QED BY <1>1, SameView

LEMMA SameShown == ASSUME MotionInv, motion' = motion, out' = out PROVE Shown'
<1>1. Motion!Placed'
  BY SameView DEF MotionInv, Shown, Motion!Placed, Motion!OneTime, Motion!NaN
<1> QED BY <1>1 DEF MotionInv, Shown, Motion!Ascending

\* A step of the callback, as long as it keeps its cloud, or gives it up.
LEMMA CallKeeps ==
    ASSUME MotionInv, UNCHANGED <<motion, made, offsets, waiting, out>>, call.pc # "idle",
           \/ call' = Motion!NoCall
           \/ /\ call'.pc \in {"look_min", "can_max", "look_max", "compensate"}
              /\ call' \in Calls
              /\ call'.msg = call.msg /\ call'.min = call.min /\ call'.max = call.max
              /\ call'.pc \in {"can_max", "look_max", "compensate"} => call'.pose_min = Motion!PoseAt(call.min)
              /\ call'.pc = "compensate" => call'.pose_max = Motion!PoseAt(call.max)
    PROVE  MotionInv'
<1>1. Shown'
  BY SameShown
<1>2. CASE call' = Motion!NoCall
  <2>1. Motion!NoCall \in Calls /\ Motion!NoCall.pc = "idle"
    BY DEF Motion!NoCall, Calls
  <2>2. MotionType'
    BY <1>2, <2>1 DEF MotionInv, MotionType
  <2>3. Reached' = out.stamp /\ out.stamp < call.max /\ Reached = call.max
    BY <1>2, <2>1 DEF MotionInv, Reached, AtWork
  <2>4. Waiting'
    <3>1. out.stamp \in Nat /\ call.max \in Nat /\ made \in Nat
      BY DEF MotionInv, MotionType, Calls
    <3>2. Reached' <= made /\ out.stamp <= Reached'
      BY <2>3, <3>1 DEF MotionInv, Waiting
    <3>3. ASSUME NEW i \in DOMAIN waiting, NEW q \in waiting[i] PROVE Reached' < q.t /\ q.t <= made
      <4>1. q.t \in Nat
        BY DEF MotionInv, MotionType, Points
      <4>2. call.max < q.t /\ q.t <= made
        BY <2>3 DEF MotionInv, Waiting
      <4> QED BY <4>1, <4>2, <2>3, <3>1
    <3>4. \A i, j \in DOMAIN waiting : i < j => \A q \in waiting[i], r \in waiting[j] : q.t < r.t
      BY DEF MotionInv, Waiting
    <3> QED BY <3>2, <3>3, <3>4, SameScans DEF Waiting
  <2>5. AtWork'
    BY <1>2, <2>1 DEF AtWork
  <2> QED BY <1>1, <2>2, <2>4, <2>5 DEF MotionInv
<1>3. CASE call' # Motion!NoCall
  <2>1. MotionType'
    BY <1>3 DEF MotionInv, MotionType
  <2>2. Reached' = Reached
    BY <1>3 DEF Reached
  <2>3. Waiting'
    BY <2>2, SameScans DEF MotionInv, Waiting
  <2>4. AtWork'
    <3>1. Scan(call.msg) /\ Spans(call.msg, call.min, call.max) /\ out.stamp < call.max /\ "timestamp" \in motion.fields
      BY DEF MotionInv, AtWork
    <3>2. Scan(call'.msg) /\ Spans(call'.msg, call'.min, call'.max)
      BY <1>3, <3>1
    <3>3. Scan(call.msg)'
      BY <3>2, SameView
    <3>4. Spans(call.msg, call.min, call.max)'
      BY <3>2 DEF Spans
    <3> QED BY <1>3, <3>1, <3>3, <3>4, SameView DEF AtWork
  <2> QED BY <1>1, <2>1, <2>3, <2>4 DEF MotionInv
<1> QED BY <1>2, <1>3

\* The poses are asked for and taken.
LEMMA QueryKeeps == ASSUME MotionInv, Motion!canTransform \/ Motion!lookupTransform \/ Motion!QueryFails PROVE MotionInv'
<1>0. /\ call \in Calls
      /\ UNCHANGED <<motion, made, offsets, waiting, out>> /\ call.pc # "idle"
  BY DEF MotionInv, MotionType, Motion!canTransform, Motion!lookupTransform, Motion!QueryFails
<1>1. /\ call.pc \in {"can_max", "look_max", "compensate"} => call.pose_min = Motion!PoseAt(call.min)
      /\ Motion!PoseAt(call.min) \in [x : Place, h : Int] /\ Motion!PoseAt(call.max) \in [x : Place, h : Int]
  <2>1. call.min \in Nat /\ call.max \in Nat
    BY <1>0 DEF Calls
  <2>2. Moving
    BY MotionAssumption DEF MotionInv, MotionType, Moving
  <2>3. ASSUME NEW t \in Nat PROVE Motion!PoseAt(t) \in [x : Place, h : Int]
    <3>1. motion.h + motion.r * t \in Int
      BY <2>2 DEF Moving
    <3> QED BY <2>2, <3>1, PoseFacts
  <2> QED BY <1>0, <2>1, <2>3 DEF MotionInv, AtWork
<1>2. CASE Motion!canTransform
  <2>1. CASE call.pc = "can_min" /\ call' = [call EXCEPT !.pc = "look_min"]
    BY <1>0, <1>1, <2>1, CallKeeps DEF Calls
  <2>2. CASE call.pc = "can_max" /\ call' = [call EXCEPT !.pc = "look_max"]
    BY <1>0, <1>1, <2>2, CallKeeps DEF Calls
  <2> QED BY <1>2, <2>1, <2>2 DEF Motion!canTransform
<1>3. CASE Motion!lookupTransform
  <2>1. CASE call.pc = "look_min" /\ call' = [call EXCEPT !.pc = "can_max", !.pose_min = Motion!PoseAt(call.min)]
    BY <1>0, <1>1, <2>1, CallKeeps DEF Calls
  <2>2. CASE call.pc = "look_max" /\ call' = [call EXCEPT !.pc = "compensate", !.pose_max = Motion!PoseAt(call.max)]
    BY <1>0, <1>1, <2>2, CallKeeps DEF Calls
  <2> QED BY <1>3, <2>1, <2>2 DEF Motion!lookupTransform
<1>4. CASE Motion!QueryFails
  BY <1>0, <1>4, CallKeeps DEF Motion!QueryFails
<1> QED BY <1>2, <1>3, <1>4

LEMMA PoseKeeps == ASSUME MotionInv, UNCHANGED <<motion, made, offsets, waiting, call, out>> PROVE MotionInv'
<1>1. MotionType'
  BY DEF MotionInv, MotionType
<1>2. Waiting'
  BY SameScans DEF MotionInv, Waiting, Reached
<1>3. AtWork'
  <2>1. CASE call.pc = "idle"
    BY <2>1 DEF AtWork
  <2>2. CASE call.pc # "idle"
    <3>1. Scan(call.msg) /\ Spans(call.msg, call.min, call.max)
      BY <2>2 DEF MotionInv, AtWork
    <3>2. Scan(call'.msg)
      BY <3>1
    <3>3. Scan(call.msg)' /\ Spans(call.msg, call.min, call.max)'
      BY <3>1, <3>2, SameView DEF Spans
    <3> QED BY <2>2, <3>3, SameView DEF MotionInv, AtWork
  <2> QED BY <2>1, <2>2
<1> QED BY <1>1, <1>2, <1>3, SameShown DEF MotionInv

\* A point that is measured as the lidar sees it, or not at all.
Point(t, w, b, p) == [t |-> t, w |-> w, hidden |-> b, p |-> p]
LEMMA PointFacts ==
    ASSUME NEW t \in Nat, NEW w \in Place, NEW b \in BOOLEAN, NEW p, Motion!Measured(w, t) \in Place,
           p = IF b THEN Motion!NaN ELSE Motion!Measured(w, t)
    PROVE  Point(t, w, b, p) \in Points /\ Seen(Point(t, w, b, p)) /\ Point(t, w, b, p).t = t
<1> DEFINE q == Point(t, w, b, p)
<1>1. q.t = t /\ q.w = w /\ q.hidden = b /\ q.p = p
  BY DEF Point
<1>2. p \in Place \cup {Motion!NaN}
  OBVIOUS
<1>3. q \in Points
  BY <1>2 DEF Points, Point
<1> HIDE DEF q
<1>4. Seen(q)
  BY <1>1, Zenon DEF Seen
<1> QED BY <1>1, <1>3, <1>4 DEF q

\* A new cloud: the points of the times after those made before, at the end of the queue.
LEMMA CloudKeeps ==
    ASSUME MotionInv, NEW n \in 0 .. ScanLen, NEW hidden, NEW none, Motion!Cloud(n, hidden, none)
    PROVE  MotionInv'
<1> DEFINE lo == made + 1
           hi == made + 1 + n
           Dot(w, t) == Point(t, w, <<w, t>> = hidden, IF <<w, t>> = hidden THEN Motion!NaN ELSE Motion!Measured(w, t))
           new == IF none THEN {} ELSE {Dot(w, t) : w \in Landmarks, t \in lo .. hi}
           rest == IF Len(waiting) = QueueSize THEN Tail(waiting) ELSE waiting
<1>1. UNCHANGED <<motion, offsets, call, out>> /\ made' = hi /\ waiting' = Append(rest, new)
  BY DEF Motion!Cloud, Point
<1>2. made \in Nat /\ n \in Nat /\ n <= ScanLen /\ ScanLen \in Nat /\ lo \in Nat /\ hi \in Nat /\ hi - lo = n /\ made < lo /\ lo <= hi /\ QueueSize \in Nat \ {0}
  BY MotionAssumption DEF MotionInv, MotionType
<1>3. Moving
  BY MotionAssumption DEF MotionInv, MotionType, Moving
<1>4. ASSUME NEW q \in new PROVE q \in Points /\ Seen(q) /\ q.t \in lo .. hi
  <2>1. ASSUME NEW w \in Landmarks, NEW t \in lo .. hi
        PROVE  Dot(w, t) \in Points /\ Seen(Dot(w, t)) /\ Dot(w, t).t = t
    <3>1. w \in Place /\ t \in Nat
      BY <1>2, MotionAssumption DEF Place
    <3>2. Motion!Measured(w, t) \in Place
      BY <1>3, <3>1, MeasuredFacts
    <3> DEFINE b == <<w, t>> = hidden
               p == IF b THEN Motion!NaN ELSE Motion!Measured(w, t)
    <3>3. b \in BOOLEAN /\ p = (IF b THEN Motion!NaN ELSE Motion!Measured(w, t))
      OBVIOUS
    <3>4. Dot(w, t) = Point(t, w, b, p)
      OBVIOUS
    <3> HIDE DEF b, p, Dot
    <3> QED BY <3>1, <3>2, <3>3, <3>4, PointFacts
  <2> HIDE DEF Dot
  <2>2. PICK w \in Landmarks, t \in lo .. hi : q = Dot(w, t)
    BY <1>4
  <2> QED BY <2>1, <2>2
<1>5. Scan(new)
  <2>1. ASSUME new # {} PROVE \E a, b \in new : Spans(new, a.t, b.t)
    <3>1. PICK w \in Landmarks : ~none
      BY <2>1
    <3>2. lo \in lo .. hi /\ hi \in lo .. hi
      BY <1>2
    <3>3. Dot(w, lo) \in new /\ Dot(w, hi) \in new /\ Dot(w, lo).t = lo /\ Dot(w, hi).t = hi
      BY <3>1, <3>2 DEF Point
    <3> HIDE DEF Dot, new
    <3>4. \A q \in new : q.t \in lo .. hi
      BY <1>4
    <3> HIDE DEF lo, hi
    <3>5. Spans(new, lo, hi)
      BY <1>2, <3>3, <3>4 DEF Spans
    <3> QED BY <3>3, <3>5
  <2> HIDE DEF new
  <2> QED BY <1>4, <2>1 DEF Scan
<1>6. new \in SUBSET Points
  BY <1>4
<1> HIDE DEF new, Dot
<1>7. rest \in Seq(SUBSET Points) /\ Len(rest) < QueueSize
      /\ \E d \in {0, 1} : Len(rest) = Len(waiting) - d /\ \A i \in 1 .. Len(rest) : rest[i] = waiting[i + d]
  <2>1. waiting \in Seq(SUBSET Points) /\ Len(waiting) <= QueueSize /\ Len(waiting) \in Nat
    BY DEF MotionInv, MotionType
  <2>2. CASE Len(waiting) = QueueSize
    <3>1. rest = Tail(waiting) /\ waiting # <<>>
      BY <1>2, <2>1, <2>2
    <3>2. rest \in Seq(SUBSET Points) /\ Len(rest) = Len(waiting) - 1 /\ \A i \in 1 .. Len(rest) : rest[i] = waiting[i + 1]
      BY <2>1, <3>1
    <3> QED BY <1>2, <2>1, <2>2, <3>2
  <2>3. CASE Len(waiting) # QueueSize
    <3>1. rest = waiting
      BY <2>3
    <3> HIDE DEF rest
    <3>2. Len(rest) = Len(waiting) - 0 /\ \A i \in 1 .. Len(rest) : rest[i] = waiting[i + 0]
      BY <2>1, <3>1
    <3>3. Len(rest) < QueueSize
      BY <1>2, <2>1, <2>3, <3>1
    <3>4. \E d \in {0, 1} : Len(rest) = Len(waiting) - d /\ \A i \in 1 .. Len(rest) : rest[i] = waiting[i + d]
      BY <3>2, Zenon
    <3> QED BY <2>1, <3>1, <3>3, <3>4
  <2> QED BY <2>2, <2>3
<1> HIDE DEF rest
<1>8. /\ waiting' \in Seq(SUBSET Points) /\ Len(waiting') = Len(rest) + 1 /\ Len(rest) \in Nat
      /\ waiting'[Len(rest) + 1] = new /\ \A i \in 1 .. Len(rest) : waiting'[i] = rest[i]
  BY <1>1, <1>6, <1>7
<1>9. MotionType'
  <2>1. Len(waiting') <= QueueSize
    BY <1>2, <1>7, <1>8
  <2> HIDE DEF lo, hi
  <2> QED BY <1>1, <1>2, <1>8, <2>1 DEF MotionInv, MotionType
<1>10. PICK d \in {0, 1} : Len(rest) = Len(waiting) - d /\ \A i \in 1 .. Len(rest) : rest[i] = waiting[i + d]
  BY <1>7
<1>11. ASSUME NEW i \in 1 .. Len(rest) PROVE i + d \in DOMAIN waiting /\ waiting'[i] = waiting[i + d]
  <2>1. Len(waiting) \in Nat /\ DOMAIN waiting = 1 .. Len(waiting)
    BY DEF MotionInv, MotionType
  <2>2. i + d \in 1 .. Len(waiting)
    BY <1>8, <1>10, <2>1
  <2> QED BY <1>8, <1>10, <2>1, <2>2
<1>12. Reached' = Reached /\ Reached \in Nat
  BY <1>1 DEF Reached, MotionInv, MotionType, Calls
<1>13. Waiting'
  <2>1. DOMAIN waiting' = 1 .. Len(rest) + 1
    BY <1>8
  <2>2. Reached <= made /\ Reached <= made' /\ out.stamp <= Reached
    <3>1. Reached <= made /\ out.stamp <= Reached
      BY DEF MotionInv, Waiting
    <3> QED BY <1>1, <1>2, <1>12, <3>1
  <2>3. ASSUME NEW i \in 1 .. Len(rest) + 1
        PROVE  Scan(waiting'[i]) /\ \A q \in waiting'[i] : Reached < q.t /\ q.t <= made'
    <3>1. CASE i = Len(rest) + 1
      <4>1. \A q \in new : q.t \in lo .. hi
        BY <1>4
      <4>2. \A q \in new : Reached < q.t /\ q.t <= hi
        BY <1>2, <1>12, <2>2, <4>1
      <4> QED BY <1>1, <1>5, <1>8, <3>1, <4>2
    <3>2. CASE i # Len(rest) + 1
      <4>1. i \in 1 .. Len(rest)
        BY <1>8, <3>2
      <4>2. i + d \in DOMAIN waiting /\ waiting'[i] = waiting[i + d]
        BY <4>1, <1>11
      <4>3. Scan(waiting[i + d]) /\ \A q \in waiting[i + d] : q.t \in Nat /\ Reached < q.t /\ q.t <= made
        BY <4>2 DEF MotionInv, Waiting, MotionType, Points
      <4>4. \A q \in waiting[i + d] : q.t <= hi
        BY <1>2, <4>3
      <4> QED BY <1>1, <4>2, <4>3, <4>4
    <3> QED BY <3>1, <3>2
  <2>4. ASSUME NEW i \in 1 .. Len(rest) + 1, NEW j \in 1 .. Len(rest) + 1, i < j, NEW q \in waiting'[i], NEW r \in waiting'[j] PROVE q.t < r.t
    <3>1. i \in 1 .. Len(rest)
      BY <1>8, <2>4
    <3>2. i + d \in DOMAIN waiting /\ q \in waiting[i + d]
      BY <1>11, <3>1
    <3>3. q.t <= made /\ q.t \in Nat
      BY <3>2 DEF MotionInv, Waiting, MotionType, Points
    <3>4. CASE j = Len(rest) + 1
      <4>1. r \in new
        BY <1>8, <3>4
      <4>2. r.t \in lo .. hi
        BY <4>1, <1>4
      <4> DEFINE x == q.t
                 y == r.t
      <4>3. y \in lo .. hi /\ x \in Nat /\ x <= made
        BY <3>3, <4>2
      <4> HIDE DEF x, y
      <4>4. lo \in Int /\ hi \in Int /\ made \in Nat /\ made < lo
        BY <1>2
      <4> HIDE DEF lo, hi
      <4>5. y \in Int /\ lo <= y
        BY <4>3, <4>4
      <4>6. x < y
        BY <4>3, <4>4, <4>5
      <4> QED BY <4>6 DEF x, y
    <3>5. CASE j # Len(rest) + 1
      <4>1. j \in 1 .. Len(rest)
        BY <1>8, <3>5
      <4>2. j + d \in DOMAIN waiting /\ r \in waiting[j + d]
        BY <1>11, <4>1
      <4>3. i + d < j + d
        BY <2>4, <1>10
      <4> QED BY <3>2, <4>2, <4>3 DEF MotionInv, Waiting
    <3> QED BY <3>4, <3>5
  <2>5. \A i \in DOMAIN waiting' : Scan(waiting[i])'
    BY <1>1, <2>1, <2>3, SameView
  <2> QED BY <1>1, <1>12, <2>1, <2>2, <2>3, <2>4, <2>5 DEF Waiting
<1>14. AtWork'
  <2>1. CASE call.pc = "idle"
    BY <1>1, <2>1 DEF AtWork
  <2>2. CASE call.pc # "idle"
    <3>1. Scan(call.msg) /\ Spans(call.msg, call.min, call.max)
      BY <2>2 DEF MotionInv, AtWork
    <3>2. Scan(call'.msg)
      BY <1>1, <3>1
    <3>3. Scan(call.msg)' /\ Spans(call.msg, call.min, call.max)'
      BY <1>1, <3>1, <3>2, SameView DEF Spans
    <3> QED BY <1>1, <2>2, <3>3, SameView DEF MotionInv, AtWork
  <2> QED BY <2>1, <2>2
<1> QED BY <1>1, <1>9, <1>13, <1>14, SameShown DEF MotionInv

\* The first and the last time of a cloud, as they are found.
LEMMA Extremes ==
    ASSUME NEW m \in SUBSET Points, NEW lo, NEW hi, Spans(m, lo, hi)
    PROVE  Motion!TimestampMin(m) = lo /\ Motion!TimestampMax(m) = hi
<1>1. lo \in Nat /\ hi \in Nat /\ \A q \in m : q.t \in Nat /\ lo <= q.t /\ q.t <= hi
  BY DEF Spans, Points
<1>2. PICK a \in m, b \in m : a.t = lo /\ b.t = hi
  BY DEF Spans
<1> DEFINE T == {q.t : q \in m}
           x == Motion!TimestampMin(m)
           y == Motion!TimestampMax(m)
<1>3. lo \in T /\ hi \in T
  BY <1>2
<1>4. x \in T /\ \A q \in m : x <= q.t
  <2>1. \E t \in T : \A q \in m : t <= q.t
    BY <1>1, <1>3
  <2> QED BY <2>1 DEF Motion!TimestampMin
<1>5. y \in T /\ \A q \in m : y >= q.t
  <2>1. \E t \in T : \A q \in m : t >= q.t
    BY <1>1, <1>3
  <2> QED BY <2>1 DEF Motion!TimestampMax
<1> HIDE DEF x, y
<1>6. x \in Nat /\ lo <= x /\ y \in Nat /\ y <= hi
  BY <1>1, <1>4, <1>5
<1>7. x <= lo /\ hi <= y
  BY <1>1, <1>2, <1>4, <1>5
<1>8. x = lo /\ y = hi
  BY <1>1, <1>6, <1>7
<1> QED BY <1>8 DEF x, y

\* The callback takes the oldest cloud, and works on it if it has points with times.
LEMMA CallbackKeeps == ASSUME MotionInv, Motion!pointcloud_callback PROVE MotionInv'
<1> DEFINE msg == Head(waiting)
<1>1. /\ call.pc = "idle" /\ waiting # <<>> /\ waiting' = Tail(waiting) /\ UNCHANGED <<motion, made, out>>
      /\ offsets' = IF msg = {} THEN offsets ELSE Motion!KnownOffsets
      /\ call' = IF Motion!check_message(msg)
                 THEN [call EXCEPT !.pc = "can_min", !.msg = msg, !.min = Motion!TimestampMin(msg), !.max = Motion!TimestampMax(msg)]
                 ELSE call
  BY DEF Motion!pointcloud_callback
<1>2. /\ waiting \in Seq(SUBSET Points) /\ Len(waiting) \in Nat \ {0} /\ Len(waiting) <= QueueSize /\ QueueSize \in Nat
      /\ msg = waiting[1] /\ msg \in SUBSET Points /\ 1 \in DOMAIN waiting
      /\ waiting' \in Seq(SUBSET Points) /\ Len(waiting') = Len(waiting) - 1
      /\ \A i \in DOMAIN waiting' : i + 1 \in DOMAIN waiting /\ waiting'[i] = waiting[i + 1] /\ i \in Nat /\ 1 < i + 1
  <2>1. waiting \in Seq(SUBSET Points) /\ Len(waiting) <= QueueSize
    BY DEF MotionInv, MotionType
  <2> QED BY <1>1, <2>1, MotionAssumption
<1> HIDE DEF msg
<1>3. Shown'
  BY <1>1, SameShown
<1>4. /\ offsets' \subseteq motion'.fields /\ Motion!KnownOffsets = motion.fields
      /\ Len(waiting') <= QueueSize
  BY <1>1, <1>2 DEF MotionInv, MotionType, Motion!KnownOffsets
<1>5. Reached = out.stamp /\ out.stamp \in Nat /\ made \in Nat /\ out.stamp <= made
  BY <1>1 DEF MotionInv, MotionType, Waiting, Reached
<1>6. \A i \in DOMAIN waiting' : Scan(waiting[i])'
  <2>1. \A i \in DOMAIN waiting' : Scan(waiting'[i])
    BY <1>2 DEF MotionInv, Waiting
  <2> QED BY <1>1, <2>1, SameView
<1>7. \A i \in DOMAIN waiting : \A q \in waiting[i] : q.t \in Nat /\ out.stamp < q.t /\ q.t <= made
  BY <1>2, <1>5 DEF MotionInv, Waiting, Points
<1>8. \A i, j \in DOMAIN waiting' : i < j => \A q \in waiting'[i], r \in waiting'[j] : q.t < r.t
  <2>1. \A i, j \in DOMAIN waiting : i < j => \A q \in waiting[i], r \in waiting[j] : q.t < r.t
    BY DEF MotionInv, Waiting
  <2>2. \A i, j \in DOMAIN waiting' : i < j => i + 1 < j + 1
    BY <1>2
  <2> QED BY <1>2, <2>1, <2>2
<1>9. CASE ~Motion!check_message(msg)
  <2>1. call' = call
    BY <1>1, <1>9
  <2>2. MotionType'
    BY <1>1, <1>2, <1>4, <2>1 DEF MotionInv, MotionType
  <2>3. Reached' = Reached
    BY <1>1, <2>1 DEF Reached
  <2>4. Waiting'
    BY <1>1, <1>2, <1>5, <1>6, <1>7, <1>8, <2>3 DEF Waiting
  <2>5. AtWork'
    BY <1>1, <2>1 DEF AtWork
  <2> QED BY <1>3, <2>2, <2>4, <2>5 DEF MotionInv
<1>10. CASE Motion!check_message(msg)
  <2>1. msg # {} /\ "timestamp" \in motion.fields
    BY <1>4, <1>10 DEF Motion!check_message
  <2>2. Scan(msg)
    BY <1>2 DEF MotionInv, Waiting
  <2>3. PICK a \in msg, b \in msg : Spans(msg, a.t, b.t)
    BY <2>1, <2>2 DEF Scan
  <2>4. /\ a.t \in Nat /\ b.t \in Nat /\ out.stamp < b.t /\ b.t <= made
        /\ Motion!TimestampMin(msg) = a.t /\ Motion!TimestampMax(msg) = b.t
    BY <1>2, <1>7, <2>3, Extremes
  <2>5. call' = [call EXCEPT !.pc = "can_min", !.msg = msg, !.min = a.t, !.max = b.t]
    BY <1>1, <1>10, <2>4
  <2>6. call' \in Calls /\ call'.pc = "can_min" /\ call'.msg = msg /\ call'.min = a.t /\ call'.max = b.t
    BY <1>2, <2>4, <2>5 DEF MotionInv, MotionType, Calls
  <2>7. MotionType'
    BY <1>1, <1>2, <1>4, <2>6 DEF MotionInv, MotionType
  <2>8. Reached' = b.t
    BY <2>6 DEF Reached
  <2>9. Waiting'
    <3>1. ASSUME NEW i \in DOMAIN waiting', NEW q \in waiting'[i] PROVE b.t < q.t /\ q.t <= made
      <4>1. i + 1 \in DOMAIN waiting /\ q \in waiting[i + 1] /\ 1 < i + 1 /\ b \in waiting[1]
        BY <1>2
      <4> QED BY <1>2, <1>7, <4>1 DEF MotionInv, Waiting
    <3>2. out.stamp <= b.t
      BY <1>5, <2>4
    <3> QED BY <1>1, <1>6, <1>8, <2>4, <2>8, <3>1, <3>2 DEF Waiting
  <2>10. AtWork'
    <3>1. Scan(call'.msg) /\ Spans(call'.msg, call'.min, call'.max)
      BY <2>2, <2>3, <2>6
    <3>2. Scan(call.msg)' /\ Spans(call.msg, call.min, call.max)'
      BY <1>1, <3>1, SameView DEF Spans
    <3> QED BY <1>1, <2>1, <2>4, <2>6, <3>2 DEF AtWork
  <2> QED BY <1>3, <2>7, <2>9, <2>10 DEF MotionInv
<1> QED BY <1>9, <1>10

\* In a part of the longest scan the car turns no farther than in all of it.
LEMMA WithinTurn ==
    ASSUME NEW r \in Int, NEW n \in Nat, NEW d \in Nat, d <= n, r * n \in -3 .. 2
    PROVE  r * d \in -3 .. 2
<1> DEFINE e == n - d
           x == r * d
           y == r * e
<1>1. e \in Nat /\ x \in Int /\ y \in Int
  OBVIOUS
<1>2. r * n = x + y
  OBVIOUS
<1>3. (r >= 0 => x >= 0 /\ y >= 0) /\ (r < 0 => x <= 0 /\ y <= 0)
  BY <1>1
<1>4. x + y \in -3 .. 2
  BY <1>2
<1> HIDE DEF e, x, y
<1>5. x \in -3 .. 2
  BY <1>1, <1>3, <1>4
<1> QED BY <1>5 DEF x

\* The cloud is corrected, and published with the time of its last point.
LEMMA CompensateKeeps == ASSUME MotionInv, Motion!motion_compensation PROVE MotionInv'
<1> DEFINE lo == call.min
           hi == call.max
           m == call.msg
           Fix(q) == [q EXCEPT !.p = Motion!Compensated(q)]
<1>1. /\ call.pc = "compensate" /\ call' = Motion!NoCall /\ UNCHANGED <<motion, made, offsets, waiting>>
      /\ out' = [msg |-> {Fix(q) : q \in m}, stamp |-> hi, before |-> out.stamp]
  BY DEF Motion!motion_compensation
<1>2. /\ lo \in Nat /\ hi \in Nat /\ m \in SUBSET Points /\ out.stamp \in Nat /\ out.stamp < hi /\ "timestamp" \in motion.fields
      /\ Scan(m) /\ Spans(m, lo, hi) /\ call.pose_min = Motion!PoseAt(lo) /\ call.pose_max = Motion!PoseAt(hi)
  BY <1>1 DEF MotionInv, MotionType, AtWork, Calls
<1>3. Moving /\ motion.r \in TurnRates
  BY MotionAssumption DEF MotionInv, MotionType, Moving
<1>4. ASSUME NEW q \in m PROVE Motion!Compensated(q) = IF q.hidden \/ lo = hi THEN Motion!NaN ELSE Motion!Measured(q.w, hi)
  <2>1. q \in Points /\ Seen(q) /\ q.t \in lo .. hi
    BY <1>2 DEF Scan, Spans
  <2>2. CASE lo = hi
    <3>1. hi - lo = 0
      BY <1>2, <2>2
    <3>2. Motion!Compensated(q) = Motion!NaN
      BY <3>1 DEF Motion!Compensated
    <3> QED BY <2>2, <3>2
  <2>3. CASE lo # hi /\ q.hidden
    <3>1. q.p = Motion!NaN
      BY <2>1, <2>3 DEF Seen
    <3>2. Motion!Compensated(q) = Motion!NaN
      BY <3>1 DEF Motion!Compensated
    <3> QED BY <2>3, <3>2
  <2>4. CASE lo # hi /\ ~q.hidden
    <3>1. q.p = Motion!Measured(q.w, q.t) /\ q.w \in Place
      BY <2>1, <2>4 DEF Seen, Points
    <3>2. lo < hi /\ hi - lo \in Nat /\ hi - lo <= ScanLen
      BY <1>2, <2>4 DEF Spans
    <3>3. motion.r * (hi - lo) \in -3 .. 2
      <4>1. motion.r \in Int /\ ScanLen \in Nat /\ motion.r * ScanLen \in -3 .. 2
        BY <1>3, MotionAssumption
      <4> QED BY <3>2, <4>1, WithinTurn
    <3>4. Motion!Compensated(q) = Motion!Measured(q.w, hi)
      BY <1>2, <1>3, <2>1, <3>1, <3>2, <3>3, Corrected
    <3> QED BY <2>4, <3>4
  <2> QED BY <2>2, <2>3, <2>4
<1>5. ASSUME NEW q \in m PROVE Fix(q).t = q.t /\ Fix(q).w = q.w /\ Fix(q).hidden = q.hidden /\ Fix(q).p = Motion!Compensated(q)
  <2>1. q \in Points
    BY <1>2
  <2> QED BY <2>1 DEF Points
<1>6. out'.msg = {Fix(q) : q \in m} /\ out'.stamp = hi /\ out'.before = out.stamp
  BY <1>1
<1> HIDE DEF Fix
<1>7. Motion!OneTime(out'.msg) <=> lo = hi
  <2>1. PICK a \in m, b \in m : a.t = lo /\ b.t = hi
    BY <1>2 DEF Spans
  <2>2. ASSUME Motion!OneTime(out'.msg) PROVE lo = hi
    <3>1. Fix(a) \in out'.msg /\ Fix(b) \in out'.msg
      BY <1>6
    <3>2. Fix(a).t = Fix(b).t
      BY <2>2, <3>1 DEF Motion!OneTime
    <3> QED BY <1>5, <2>1, <3>2
  <2>3. ASSUME lo = hi PROVE Motion!OneTime(out'.msg)
    <3>1. \A q \in m : q.t = lo
      <4>1. \A q \in m : q.t \in lo .. hi
        BY <1>2 DEF Spans
      <4> HIDE DEF lo, hi
      <4> QED BY <1>2, <2>3, <4>1
    <3>2. \A q \in out'.msg : q.t = lo
      BY <1>5, <1>6, <3>1
    <3> QED BY <3>2 DEF Motion!OneTime
  <2> QED BY <2>2, <2>3
<1>8. ASSUME NEW r \in out'.msg PROVE r.p = IF r.hidden \/ Motion!OneTime(out'.msg) THEN Motion!NaN ELSE Motion!Measured(r.w, out'.stamp)
  <2>1. PICK q \in m : r = Fix(q)
    BY <1>6
  <2>2. r.p = IF q.hidden \/ lo = hi THEN Motion!NaN ELSE Motion!Measured(q.w, hi)
    BY <1>4, <1>5, <2>1
  <2> QED BY <1>5, <1>6, <1>7, <2>1, <2>2
<1>9. Motion!Placed'
  BY <1>1, <1>8, SameView DEF Motion!Placed, Motion!OneTime, Motion!NaN
<1>10. Shown'
  BY <1>1, <1>2, <1>6, <1>9 DEF Shown, Motion!Ascending
<1>11. Motion!NoCall \in Calls /\ Motion!NoCall.pc = "idle"
  BY DEF Motion!NoCall, Calls
<1>12. MotionType'
  BY <1>1, <1>2, <1>6, <1>11 DEF MotionInv, MotionType
<1>13. Reached' = hi /\ Reached = hi
  BY <1>1, <1>6, <1>11 DEF Reached
<1>14. Waiting'
  <2>1. \A i \in DOMAIN waiting' : Scan(waiting[i])'
    BY <1>1, SameScans
  <2> QED BY <1>1, <1>2, <1>6, <1>13, <2>1 DEF MotionInv, Waiting
<1>15. AtWork'
  BY <1>1, <1>11 DEF AtWork
<1> QED BY <1>10, <1>12, <1>14, <1>15 DEF MotionInv

LEMMA StepMotion == MotionInv /\ [Motion!Next]_motionVars => MotionInv'
<1> SUFFICES ASSUME MotionInv, [Motion!Next]_motionVars PROVE MotionInv'
  OBVIOUS
<1>1. CASE Motion!Pose
  BY <1>1, PoseKeeps DEF Motion!Pose
<1>2. ASSUME NEW n \in 0 .. ScanLen, NEW none \in BOOLEAN, NEW hidden \in (Landmarks \X {made + 1}) \cup {<<>>}, Motion!Cloud(n, hidden, none) PROVE MotionInv'
  BY <1>2, CloudKeeps
<1>3. CASE Motion!pointcloud_callback
  BY <1>3, CallbackKeeps
<1>4. CASE Motion!canTransform \/ Motion!lookupTransform \/ Motion!QueryFails
  BY <1>4, QueryKeeps
<1>5. CASE Motion!motion_compensation
  BY <1>5, CompensateKeeps
<1>6. CASE UNCHANGED motionVars
  BY <1>6, PoseKeeps DEF motionVars
<1> QED BY <1>1, <1>2, <1>3, <1>4, <1>5, <1>6 DEF Motion!Next

LEMMA InitMotion == Motion!Init => MotionInv
<1> SUFFICES ASSUME Motion!Init PROVE MotionInv
  OBVIOUS
<1>1. /\ motion \in [v : Velocities, r : TurnRates, h : Headings, fields : Layouts]
      /\ made = 0 /\ offsets = {} /\ waiting = <<>> /\ call = Motion!NoCall /\ out = [msg |-> {}, stamp |-> 0, before |-> -1]
  BY DEF Motion!Init
<1>2. motion \in [v : Place, r : TurnRates, h : Int, fields : SUBSET Fields]
  <2>1. Velocities \subseteq Place /\ Headings \subseteq Int /\ Layouts \subseteq SUBSET Fields
    BY MotionAssumption DEF Place, Fields
  <2> QED BY <1>1, <2>1
<1>3. call \in Calls /\ call.pc = "idle"
  BY <1>1 DEF Motion!NoCall, Calls
<1>4. waiting \in Seq(SUBSET Points) /\ Len(waiting) = 0 /\ DOMAIN waiting = {}
  BY <1>1
<1>5. MotionType
  BY <1>1, <1>2, <1>3, <1>4, MotionAssumption DEF MotionType
<1>6. Waiting /\ AtWork
  BY <1>1, <1>3, <1>4 DEF Waiting, Reached, AtWork
<1>7. Shown
  BY <1>1 DEF Shown, Motion!Placed, Motion!Ascending
<1> QED BY <1>5, <1>6, <1>7 DEF MotionInv

LEMMA InvMotion == MotionInv => Motion!CompensatorSafe
<1> SUFFICES ASSUME MotionInv PROVE Motion!CompensatorSafe
  OBVIOUS
<1>1. Motion!TypeOK
  BY DEF MotionInv, MotionType, Motion!TypeOK, Fields, Calls
<1> QED BY <1>1 DEF MotionInv, Shown, Motion!CompensatorSafe
-----------------------------------------------------------------------------
IInv == CameraInv /\ NodesInv /\ MotionInv

\* The parts take turns, and leave each other alone.
LEMMA StepParts == [Next]_vars => [Camera!Next]_cameraVars /\ [Nodes!Next]_nodeVars /\ [Motion!Next]_motionVars
BY DEF Next, vars, CameraPart, CalibPart, LidarPart, NodesPart

\* The pictures, the scans and the corrected clouds keep their invariants, for every size of a picture, every number of cameras, packets and starts, and every way the car moves.
THEOREM Invariance == Spec => []IInv
<1>1. Init => IInv
  BY InitCamera, InitNodes, InitMotion DEF Init, IInv
<1>2. IInv /\ [Next]_vars => IInv'
  BY StepParts, StepCamera, StepNodes, StepMotion DEF IInv
<1> QED BY <1>1, <1>2, PTL DEF Spec

\* A picture that the Pandora client passes on has the fragments of one picture in their order, whatever connections were lost, and is never longer than the buffer that was made for it; a scan of a Velodyne is stamped between its first and its last packet while the hour does not change, and one of a LeiShen not after its capture; the nodelet is given back only when its thread is over; and the points of a published cloud stand where the lidar would have measured them at its stamp, whichever poses tf forgot in the meantime, and stamps ascend.
THEOREM CapturesKept == Spec => []CapturesWhole
<1>1. IInv => CapturesWhole
  BY InvCamera, InvMotion DEF IInv, NodesInv, CapturesWhole
<1> QED BY <1>1, Invariance, PTL
=============================================================================
