-------------------------- MODULE RoomStateProofs --------------------------
(***************************************************************************)
(* Lemmas about the operators of RoomState, for every set of users and     *)
(* every limit, from the caches outwards: each says that a sound room      *)
(* stays sound, and what the operation leaves alone.  The proofs about one *)
(* room, about the server's rooms and about Simon's rest on them.          *)
(***************************************************************************)
EXTENDS RoomState, FiniteSetTheorems, TLAPS

\* The disqualified users of a room, and the users its player cache should hold.
Disqualified(r) == {u \in User : r.disqualified[u]}
ActivePlayers(r) == {u \in User : is_player(r, u) /\ ~r.disqualified[u]}

\* What no operation below changes.
SameMembers(r, s) ==
    /\ members(s) = members(r)
    /\ s.owner = r.owner
    /\ s.game = r.game

-----------------------------------------------------------------------------

\* Every set of users is finite and has a natural number of elements.
LEMMA UserSets ==
    ASSUME NEW S \in SUBSET User
    PROVE  IsFiniteSet(S) /\ Cardinality(S) \in Nat
BY RoomConstants, FS_Subset, FS_CardinalityType

\* Counting a set of users inside and outside another one.
LEMMA CardSplit ==
    ASSUME NEW S \in SUBSET User, NEW T \in SUBSET User
    PROVE  Cardinality(S) = Cardinality(S \ T) + Cardinality(S \cap T)
<1>1. IsFiniteSet(S) /\ IsFiniteSet(S \cap T) /\ IsFiniteSet(S \ T)
  BY UserSets
<1>2. Cardinality(S) \in Nat /\ Cardinality(S \cap T) \in Nat /\ Cardinality(S \ T) \in Nat
  BY <1>1, FS_CardinalityType
<1>3. Cardinality(S \ T) = Cardinality(S) - Cardinality(S \cap T)
  BY <1>1, FS_Difference
<1>. QED  BY <1>2, <1>3

\* A union has at most as many elements as its parts together.
LEMMA CardUnion ==
    ASSUME NEW S \in SUBSET User, NEW T \in SUBSET User
    PROVE  Cardinality(S \cup T) <= Cardinality(S) + Cardinality(T)
<1>1. IsFiniteSet(S) /\ IsFiniteSet(T) /\ IsFiniteSet(S \cap T)
  BY UserSets
<1>2. Cardinality(S) \in Nat /\ Cardinality(T) \in Nat /\ Cardinality(S \cap T) \in Nat
  BY <1>1, FS_CardinalityType
<1>3. Cardinality(S \cup T) = Cardinality(S) + Cardinality(T) - Cardinality(S \cap T)
  BY <1>1, FS_Union
<1>. QED  BY <1>2, <1>3

\* A subset has at most as many elements.
LEMMA CardMono ==
    ASSUME NEW S \in SUBSET User, NEW T \in SUBSET S
    PROVE  Cardinality(T) <= Cardinality(S)
BY UserSets, FS_Subset

-----------------------------------------------------------------------------

\* What _cached_remove does to the fields of a room.
LEMMA CachedRemove ==
    ASSUME NEW r \in RoomRecord, NEW S \in SUBSET User
    PROVE  LET a == cached_remove(r, S)
               disq == {u \in S : r.disqualified[u]}
           IN  /\ a \in RoomRecord
               /\ a.status = r.status /\ a.disqualified = r.disqualified
               /\ a.joined_before = r.joined_before /\ a.owner = r.owner
               /\ a.game = r.game /\ a.game_started = r.game_started
               /\ a.fault = r.fault
               /\ a.cached_users = r.cached_users \ S
               /\ a.cached_users_as_spectators = r.cached_users_as_spectators \ S
               /\ a.players_disqualified = r.players_disqualified - Cardinality(disq)
               /\ a.cached_spectators = r.cached_spectators
                     \ ({u \in S : is_spectator(r, u)} \cup disq)
               /\ a.cached_players = r.cached_players
                     \ ({u \in S : is_player(r, u)} \ disq)
<1> DEFINE disq == {u \in S : r.disqualified[u]}
           spec == {u \in S : is_spectator(r, u)}
           play == {u \in S : is_player(r, u)}
           n == r.players_disqualified - Cardinality(disq)
           cu == r.cached_users \ S
           cus == r.cached_users_as_spectators \ S
           cs == r.cached_spectators \ (spec \cup disq)
           cp == r.cached_players \ (play \ disq)
           a == cached_remove(r, S)
<1>1. Cardinality(disq) \in Nat
  BY UserSets
<1>2. /\ n \in Int
      /\ cu \in SUBSET User /\ cus \in SUBSET User
      /\ cs \in SUBSET User /\ cp \in SUBSET User
  BY <1>1 DEF RoomRecord
<1>3. a = [r EXCEPT !.cached_users = cu,
                    !.cached_users_as_spectators = cus,
                    !.players_disqualified = n,
                    !.cached_spectators = cs,
                    !.cached_players = cp]
  BY DEF cached_remove
<1>4. /\ a \in RoomRecord
      /\ a.status = r.status /\ a.disqualified = r.disqualified
      /\ a.joined_before = r.joined_before /\ a.owner = r.owner
      /\ a.game = r.game /\ a.game_started = r.game_started
      /\ a.fault = r.fault
      /\ a.cached_users = cu
      /\ a.cached_users_as_spectators = cus
      /\ a.players_disqualified = n
      /\ a.cached_spectators = cs
      /\ a.cached_players = cp
  <2> HIDE DEF n, cu, cus, cs, cp, a
  <2>. QED  BY <1>2, <1>3 DEF RoomRecord
<1>5. QED
  BY <1>4

\* What _cached_add does to the fields of a room.
LEMMA CachedAdd ==
    ASSUME NEW r \in RoomRecord, NEW S \in SUBSET User
    PROVE  LET a == cached_add(r, S)
               disq == {u \in S : r.disqualified[u]}
           IN  /\ a \in RoomRecord
               /\ a.status = r.status /\ a.disqualified = r.disqualified
               /\ a.joined_before = r.joined_before /\ a.owner = r.owner
               /\ a.game = r.game /\ a.game_started = r.game_started
               /\ a.fault = r.fault
               /\ a.cached_users = r.cached_users \cup S
               /\ a.cached_users_as_spectators = r.cached_users_as_spectators \cup S
               /\ a.players_disqualified = r.players_disqualified + Cardinality(disq)
               /\ a.cached_spectators = r.cached_spectators
                     \cup ({u \in S : is_spectator(r, u)} \cup disq)
               /\ a.cached_players = r.cached_players
                     \cup ({u \in S : is_player(r, u)} \ disq)
<1> DEFINE disq == {u \in S : r.disqualified[u]}
           spec == {u \in S : is_spectator(r, u)}
           play == {u \in S : is_player(r, u)}
           n == r.players_disqualified + Cardinality(disq)
           cu == r.cached_users \cup S
           cus == r.cached_users_as_spectators \cup S
           cs == r.cached_spectators \cup (spec \cup disq)
           cp == r.cached_players \cup (play \ disq)
           a == cached_add(r, S)
<1>1. Cardinality(disq) \in Nat
  BY UserSets
<1>2. /\ n \in Int
      /\ cu \in SUBSET User /\ cus \in SUBSET User
      /\ cs \in SUBSET User /\ cp \in SUBSET User
  BY <1>1 DEF RoomRecord
<1>3. a = [r EXCEPT !.cached_users = cu,
                    !.cached_users_as_spectators = cus,
                    !.players_disqualified = n,
                    !.cached_spectators = cs,
                    !.cached_players = cp]
  BY DEF cached_add
<1>4. /\ a \in RoomRecord
      /\ a.status = r.status /\ a.disqualified = r.disqualified
      /\ a.joined_before = r.joined_before /\ a.owner = r.owner
      /\ a.game = r.game /\ a.game_started = r.game_started
      /\ a.fault = r.fault
      /\ a.cached_users = cu
      /\ a.cached_users_as_spectators = cus
      /\ a.players_disqualified = n
      /\ a.cached_spectators = cs
      /\ a.cached_players = cp
  <2> HIDE DEF n, cu, cus, cs, cp, a
  <2>. QED  BY <1>2, <1>3 DEF RoomRecord
<1>5. QED
  BY <1>4

-----------------------------------------------------------------------------

\* The caches of r agree with its members, those of S left aside: the state
\* between the constructor and the destructor of a MemberGuard for S.
ConsistentOutside(r, S) ==
    /\ r.cached_users = members(r) \ S
    /\ r.cached_users_as_spectators = members(r) \ S
    /\ r.cached_players = ActivePlayers(r) \ S
    /\ r.cached_spectators = {u \in User : is_spectator(r, u) \/ r.disqualified[u]} \ S
    /\ r.players_disqualified = Cardinality(Disqualified(r) \ S)

\* MemberGuard's constructor takes exactly the guarded members out of the caches.
LEMMA GuardOpens ==
    ASSUME NEW r \in RoomRecord, NEW S \in SUBSET User,
           Consistent(r), DisqualifiedAreMembers(r)
    PROVE  ConsistentOutside(cached_remove(r, S), S)
<1> DEFINE a == cached_remove(r, S)
           disq == {u \in S : r.disqualified[u]}
<1>1. /\ a \in RoomRecord
      /\ a.status = r.status /\ a.disqualified = r.disqualified
      /\ a.cached_users = r.cached_users \ S
      /\ a.cached_users_as_spectators = r.cached_users_as_spectators \ S
      /\ a.players_disqualified = r.players_disqualified - Cardinality(disq)
      /\ a.cached_spectators = r.cached_spectators
            \ ({u \in S : is_spectator(r, u)} \cup disq)
      /\ a.cached_players = r.cached_players
            \ ({u \in S : is_player(r, u)} \ disq)
  BY CachedRemove
<1> HIDE DEF a
<1>2. a.cached_users = members(a) \ S /\ a.cached_users_as_spectators = members(a) \ S
  BY <1>1 DEF Consistent, members
<1>3. a.cached_players = ActivePlayers(a) \ S
  BY <1>1 DEF Consistent, ActivePlayers, is_player
<1>4. a.cached_spectators =
        {u \in User : is_spectator(a, u) \/ a.disqualified[u]} \ S
  BY <1>1 DEF Consistent, is_spectator
<1>5. a.players_disqualified = Cardinality(Disqualified(a) \ S)
  <2>1. Disqualified(a) = Disqualified(r) /\ Disqualified(r) \in SUBSET User
    BY <1>1 DEF Disqualified
  <2>2. disq = Disqualified(r) \cap S
    BY DEF Disqualified
  <2>3. r.players_disqualified = Cardinality(Disqualified(r))
    BY DEF Consistent, Disqualified
  <2>4. Cardinality(Disqualified(r)) =
          Cardinality(Disqualified(r) \ S) + Cardinality(Disqualified(r) \cap S)
    BY <2>1, CardSplit
  <2>5. /\ Cardinality(Disqualified(r)) \in Nat
        /\ Cardinality(Disqualified(r) \ S) \in Nat
        /\ Cardinality(Disqualified(r) \cap S) \in Nat
    BY <2>1, UserSets
  <2> HIDE DEF disq
  <2>. QED  BY <1>1, <2>1, <2>2, <2>3, <2>4, <2>5
<1>. QED  BY <1>2, <1>3, <1>4, <1>5 DEF ConsistentOutside, a

\* MemberGuard's destructor makes the caches whole again, whatever was done to
\* the status and the flag of the guarded members.
LEMMA GuardCloses ==
    ASSUME NEW b \in RoomRecord, NEW S \in SUBSET members(b),
           ConsistentOutside(b, S)
    PROVE  Consistent(cached_add(b, S))
<1> DEFINE s == cached_add(b, S)
           disq == {u \in S : b.disqualified[u]}
<1>0. S \in SUBSET User
  BY DEF members
<1>1. /\ s \in RoomRecord
      /\ s.status = b.status /\ s.disqualified = b.disqualified
      /\ s.cached_users = b.cached_users \cup S
      /\ s.cached_users_as_spectators = b.cached_users_as_spectators \cup S
      /\ s.players_disqualified = b.players_disqualified + Cardinality(disq)
      /\ s.cached_spectators = b.cached_spectators
            \cup ({u \in S : is_spectator(b, u)} \cup disq)
      /\ s.cached_players = b.cached_players
            \cup ({u \in S : is_player(b, u)} \ disq)
  BY <1>0, CachedAdd
<1> HIDE DEF s
<1>2. s.cached_users = members(s) /\ s.cached_users_as_spectators = members(s)
  BY <1>1 DEF ConsistentOutside, members
<1>3. s.cached_players = {u \in User : is_player(s, u) /\ ~s.disqualified[u]}
  BY <1>0, <1>1 DEF ConsistentOutside, ActivePlayers, is_player
<1>4. s.cached_spectators = {u \in User : is_spectator(s, u) \/ s.disqualified[u]}
  BY <1>0, <1>1 DEF ConsistentOutside, is_spectator
<1>5. s.players_disqualified = Cardinality({u \in User : s.disqualified[u]})
  <2>1. Disqualified(b) \in SUBSET User /\ {u \in User : s.disqualified[u]} = Disqualified(b)
    BY <1>1 DEF Disqualified
  <2>2. disq = Disqualified(b) \cap S
    BY <1>0 DEF Disqualified
  <2>3. b.players_disqualified = Cardinality(Disqualified(b) \ S)
    BY DEF ConsistentOutside
  <2>4. Cardinality(Disqualified(b)) =
          Cardinality(Disqualified(b) \ S) + Cardinality(Disqualified(b) \cap S)
    BY <1>0, <2>1, CardSplit
  <2>. QED  BY <1>1, <2>1, <2>2, <2>3, <2>4
<1>. QED  BY <1>2, <1>3, <1>4, <1>5 DEF Consistent, s

\* A guarded change of status: the room stays well-typed and consistent, and
\* nothing else changes.
LEMMA GuardedStatus ==
    ASSUME NEW r \in RoomRecord, Consistent(r), DisqualifiedAreMembers(r),
           NEW S \in SUBSET members(r), NEW status \in Status
    PROVE  LET s == guarded_status(r, S, status)
           IN  /\ s \in RoomRecord
               /\ Consistent(s)
               /\ DisqualifiedAreMembers(s)
               /\ SameMembers(r, s)
               /\ s.status = [u \in User |-> IF u \in S THEN status ELSE r.status[u]]
               /\ s.disqualified = r.disqualified
               /\ s.joined_before = r.joined_before
               /\ s.game_started = r.game_started
               /\ s.fault = r.fault
<1> DEFINE a == cached_remove(r, S)
           b == assign_status(a, S, status)
           s == cached_add(b, S)
<1>0. S \in SUBSET User
  BY DEF members
<1>1. /\ a \in RoomRecord
      /\ a.status = r.status /\ a.disqualified = r.disqualified
      /\ a.joined_before = r.joined_before /\ a.owner = r.owner
      /\ a.game = r.game /\ a.game_started = r.game_started /\ a.fault = r.fault
  BY <1>0, CachedRemove
<1>2. ConsistentOutside(a, S)
  BY <1>0, GuardOpens
<1> HIDE DEF a
<1>3. /\ b \in RoomRecord
      /\ b.status = [u \in User |-> IF u \in S THEN status ELSE r.status[u]]
      /\ b.disqualified = r.disqualified
      /\ b.joined_before = r.joined_before /\ b.owner = r.owner
      /\ b.game = r.game /\ b.game_started = r.game_started /\ b.fault = r.fault
      /\ b.cached_users = a.cached_users
      /\ b.cached_users_as_spectators = a.cached_users_as_spectators
      /\ b.players_disqualified = a.players_disqualified
      /\ b.cached_spectators = a.cached_spectators
      /\ b.cached_players = a.cached_players
  BY <1>1 DEF assign_status, RoomRecord
<1> HIDE DEF b
<1>4. members(b) = members(r)
  BY <1>3 DEF members, Status, ABSENT, PLAYER, PLAYER_WAITLIST, SPECTATOR
<1>5. ConsistentOutside(b, S)
  <2>1. members(b) = members(a)
    BY <1>1, <1>4 DEF members
  <2>2. ActivePlayers(b) \ S = ActivePlayers(a) \ S
    BY <1>1, <1>3 DEF ActivePlayers, is_player
  <2>3. {u \in User : is_spectator(b, u) \/ b.disqualified[u]} \ S =
        {u \in User : is_spectator(a, u) \/ a.disqualified[u]} \ S
    BY <1>1, <1>3 DEF is_spectator
  <2>4. Disqualified(b) = Disqualified(a)
    BY <1>1, <1>3 DEF Disqualified
  <2>. QED  BY <1>2, <1>3, <2>1, <2>2, <2>3, <2>4 DEF ConsistentOutside
<1>6. guarded_status(r, S, status) = s
  BY DEF guarded_status, a, b
<1>7. Consistent(s)
  BY <1>3, <1>4, <1>5, GuardCloses
<1>8. /\ s \in RoomRecord
      /\ s.status = b.status /\ s.disqualified = b.disqualified
      /\ s.joined_before = b.joined_before /\ s.owner = b.owner
      /\ s.game = b.game /\ s.game_started = b.game_started /\ s.fault = b.fault
  BY <1>0, <1>3, CachedAdd
<1> HIDE DEF s
<1>9. members(s) = members(r)
  BY <1>4, <1>8 DEF members
<1>10. DisqualifiedAreMembers(s)
  BY <1>3, <1>8, <1>9 DEF DisqualifiedAreMembers
<1>. QED  BY <1>3, <1>6, <1>7, <1>8, <1>9, <1>10 DEF SameMembers

\* A guarded change of the disqualified flag, likewise.
LEMMA GuardedDisqualified ==
    ASSUME NEW r \in RoomRecord, Consistent(r), DisqualifiedAreMembers(r),
           NEW S \in SUBSET members(r), NEW flag \in BOOLEAN
    PROVE  LET s == guarded_disqualified(r, S, flag)
           IN  /\ s \in RoomRecord
               /\ Consistent(s)
               /\ DisqualifiedAreMembers(s)
               /\ SameMembers(r, s)
               /\ s.status = r.status
               /\ s.disqualified =
                    [u \in User |-> IF u \in S THEN flag ELSE r.disqualified[u]]
               /\ s.joined_before = r.joined_before
               /\ s.game_started = r.game_started
               /\ s.fault = r.fault
<1> DEFINE a == cached_remove(r, S)
           b == assign_disqualified(a, S, flag)
           s == cached_add(b, S)
<1>0. S \in SUBSET User
  BY DEF members
<1>1. /\ a \in RoomRecord
      /\ a.status = r.status /\ a.disqualified = r.disqualified
      /\ a.joined_before = r.joined_before /\ a.owner = r.owner
      /\ a.game = r.game /\ a.game_started = r.game_started /\ a.fault = r.fault
  BY <1>0, CachedRemove
<1>2. ConsistentOutside(a, S)
  BY <1>0, GuardOpens
<1> HIDE DEF a
<1>3. /\ b \in RoomRecord
      /\ b.status = r.status
      /\ b.disqualified = [u \in User |-> IF u \in S THEN flag ELSE r.disqualified[u]]
      /\ b.joined_before = r.joined_before /\ b.owner = r.owner
      /\ b.game = r.game /\ b.game_started = r.game_started /\ b.fault = r.fault
      /\ b.cached_users = a.cached_users
      /\ b.cached_users_as_spectators = a.cached_users_as_spectators
      /\ b.players_disqualified = a.players_disqualified
      /\ b.cached_spectators = a.cached_spectators
      /\ b.cached_players = a.cached_players
  BY <1>1 DEF assign_disqualified, RoomRecord
<1> HIDE DEF b
<1>4. members(b) = members(r) /\ members(b) = members(a)
  BY <1>1, <1>3 DEF members
<1>5. ConsistentOutside(b, S)
  <2>2. ActivePlayers(b) \ S = ActivePlayers(a) \ S
    BY <1>1, <1>3 DEF ActivePlayers, is_player
  <2>3. {u \in User : is_spectator(b, u) \/ b.disqualified[u]} \ S =
        {u \in User : is_spectator(a, u) \/ a.disqualified[u]} \ S
    BY <1>1, <1>3 DEF is_spectator
  <2>4. Disqualified(b) \ S = Disqualified(a) \ S
    BY <1>1, <1>3 DEF Disqualified
  <2>. QED  BY <1>2, <1>3, <1>4, <2>2, <2>3, <2>4 DEF ConsistentOutside
<1>6. guarded_disqualified(r, S, flag) = s
  BY DEF guarded_disqualified, a, b
<1>7. Consistent(s)
  BY <1>3, <1>4, <1>5, GuardCloses
<1>8. /\ s \in RoomRecord
      /\ s.status = b.status /\ s.disqualified = b.disqualified
      /\ s.joined_before = b.joined_before /\ s.owner = b.owner
      /\ s.game = b.game /\ s.game_started = b.game_started /\ s.fault = b.fault
  BY <1>0, <1>3, CachedAdd
<1> HIDE DEF s
<1>9. members(s) = members(r)
  BY <1>4, <1>8 DEF members
<1>10. DisqualifiedAreMembers(s)
  BY <1>3, <1>8, <1>9 DEF DisqualifiedAreMembers
<1>. QED  BY <1>3, <1>6, <1>7, <1>8, <1>9, <1>10 DEF SameMembers

-----------------------------------------------------------------------------

\* player_count() counts the active and the disqualified players.
LEMMA PlayerCount ==
    ASSUME NEW r \in RoomRecord, Consistent(r)
    PROVE  /\ player_count(r) = Cardinality(ActivePlayers(r)) + Cardinality(Disqualified(r))
           /\ Cardinality(ActivePlayers(r)) \in Nat
           /\ Cardinality(Disqualified(r)) \in Nat
           /\ player_count(r) \in Nat
<1>1. r.cached_players = ActivePlayers(r) /\ r.players_disqualified = Cardinality(Disqualified(r))
  BY DEF Consistent, ActivePlayers, Disqualified
<1>2. ActivePlayers(r) \in SUBSET User /\ Disqualified(r) \in SUBSET User
  BY DEF ActivePlayers, Disqualified
<1>3. Cardinality(ActivePlayers(r)) \in Nat /\ Cardinality(Disqualified(r)) \in Nat
  BY <1>2, UserSets
<1>. QED  BY <1>1, <1>3 DEF player_count

\* Turning at most as many members into players as there are free places.
LEMMA PromotionSound ==
    ASSUME NEW r, Sound(r), NEW S \in SUBSET members(r),
           Cardinality(S) <= PlayerLimit - player_count(r)
    PROVE  LET s == guarded_status(r, S, PLAYER)
           IN  Sound(s) /\ SameMembers(r, s) /\ s.game_started = r.game_started
<1> DEFINE s == guarded_status(r, S, PLAYER)
<1>1. r \in RoomRecord /\ Consistent(r) /\ DisqualifiedAreMembers(r) /\ S \in SUBSET User
  BY DEF Sound, members
<1>2. PLAYER \in Status
  BY DEF Status
<1>3. /\ s \in RoomRecord /\ Consistent(s) /\ DisqualifiedAreMembers(s)
      /\ SameMembers(r, s) /\ s.game_started = r.game_started
      /\ s.status = [u \in User |-> IF u \in S THEN PLAYER ELSE r.status[u]]
      /\ s.disqualified = r.disqualified
  BY <1>1, <1>2, GuardedStatus
<1> HIDE DEF s
<1>4. Disqualified(s) = Disqualified(r)
  BY <1>3 DEF Disqualified
<1>5. ActivePlayers(s) \in SUBSET (ActivePlayers(r) \cup S)
  BY <1>3 DEF ActivePlayers, is_player
<1>6. Cardinality(ActivePlayers(s)) <= Cardinality(ActivePlayers(r)) + Cardinality(S)
  <2>1. ActivePlayers(r) \in SUBSET User /\ ActivePlayers(r) \cup S \in SUBSET User
    BY <1>1 DEF ActivePlayers
  <2>2. Cardinality(ActivePlayers(s)) <= Cardinality(ActivePlayers(r) \cup S)
    BY <1>5, <2>1, CardMono
  <2>3. Cardinality(ActivePlayers(r) \cup S) <= Cardinality(ActivePlayers(r)) + Cardinality(S)
    BY <1>1, <2>1, CardUnion
  <2>4. /\ Cardinality(ActivePlayers(s)) \in Nat /\ Cardinality(ActivePlayers(r)) \in Nat
        /\ Cardinality(ActivePlayers(r) \cup S) \in Nat /\ Cardinality(S) \in Nat
    BY <1>1, <1>5, <2>1, UserSets
  <2>. QED  BY <2>2, <2>3, <2>4
<1>7. WithinLimit(s)
  <2>1. Cardinality(S) \in Nat /\ PlayerLimit \in Nat
    BY <1>1, UserSets, RoomConstants
  <2>. QED  BY <1>1, <1>3, <1>4, <1>6, <2>1, PlayerCount DEF WithinLimit
<1>. QED  BY <1>3, <1>7 DEF Sound, s

\* Turning members into something other than players, or leaving active players
\* what they are.
LEMMA DemotionSound ==
    ASSUME NEW r, Sound(r), NEW S \in SUBSET members(r), NEW status \in Status,
           status # PLAYER \/ S \in SUBSET ActivePlayers(r)
    PROVE  LET s == guarded_status(r, S, status)
           IN  Sound(s) /\ SameMembers(r, s) /\ s.game_started = r.game_started
<1> DEFINE s == guarded_status(r, S, status)
<1>1. r \in RoomRecord /\ Consistent(r) /\ DisqualifiedAreMembers(r) /\ S \in SUBSET User
  BY DEF Sound, members
<1>2. /\ s \in RoomRecord /\ Consistent(s) /\ DisqualifiedAreMembers(s)
      /\ SameMembers(r, s) /\ s.game_started = r.game_started
      /\ s.status = [u \in User |-> IF u \in S THEN status ELSE r.status[u]]
      /\ s.disqualified = r.disqualified
  BY <1>1, GuardedStatus
<1> HIDE DEF s
<1>3. Disqualified(s) = Disqualified(r)
  BY <1>2 DEF Disqualified
<1>4. ActivePlayers(r) \in SUBSET User /\ ActivePlayers(s) \in SUBSET ActivePlayers(r)
  BY <1>2 DEF ActivePlayers, is_player
<1>5. Cardinality(ActivePlayers(s)) <= Cardinality(ActivePlayers(r))
  BY <1>4, CardMono
<1>6. WithinLimit(s)
  BY <1>1, <1>2, <1>3, <1>5, PlayerCount, RoomConstants DEF WithinLimit, Sound
<1>. QED  BY <1>2, <1>6 DEF Sound, s

\* disqualify_player moves players between the two counts of player_count().
LEMMA DisqualifySound ==
    ASSUME NEW r, Sound(r), NEW S \in SUBSET members(r)
    PROVE  LET s == disqualify_player(r, S)
           IN  Sound(s) /\ SameMembers(r, s) /\ s.game_started = r.game_started
<1> DEFINE T == {u \in S : is_player(r, u)}
           s == guarded_disqualified(r, T, TRUE)
<1>1. /\ r \in RoomRecord /\ Consistent(r) /\ DisqualifiedAreMembers(r)
      /\ T \in SUBSET members(r) /\ T \in SUBSET User
  BY DEF Sound, members
<1>2. /\ s \in RoomRecord /\ Consistent(s) /\ DisqualifiedAreMembers(s)
      /\ SameMembers(r, s) /\ s.game_started = r.game_started
      /\ s.status = r.status
      /\ s.disqualified = [v \in User |-> IF v \in T THEN TRUE ELSE r.disqualified[v]]
  BY <1>1, GuardedDisqualified
<1>3. disqualify_player(r, S) = s
  BY DEF disqualify_player
<1> HIDE DEF s
<1>4. \A u \in T : is_player(r, u)
  OBVIOUS
<1> HIDE DEF T
<1>5. /\ ActivePlayers(r) \in SUBSET User /\ Disqualified(r) \in SUBSET User
      /\ ActivePlayers(s) \in SUBSET User /\ Disqualified(s) \in SUBSET User
  BY DEF ActivePlayers, Disqualified
<1>6. /\ ActivePlayers(r) \cap Disqualified(r) = {}
      /\ ActivePlayers(s) \cap Disqualified(s) = {}
  BY DEF ActivePlayers, Disqualified
<1>7. ActivePlayers(s) \cup Disqualified(s) = ActivePlayers(r) \cup Disqualified(r)
  BY <1>1, <1>2, <1>4 DEF ActivePlayers, Disqualified, is_player
<1> DEFINE U == ActivePlayers(r) \cup Disqualified(r)
<1>8. /\ U \in SUBSET User
      /\ U \ Disqualified(r) = ActivePlayers(r) /\ U \cap Disqualified(r) = Disqualified(r)
      /\ U \ Disqualified(s) = ActivePlayers(s) /\ U \cap Disqualified(s) = Disqualified(s)
  BY <1>5, <1>6, <1>7
<1> HIDE DEF U
<1>9. Cardinality(U) = Cardinality(U \ Disqualified(r)) + Cardinality(U \cap Disqualified(r))
  BY <1>5, <1>8, CardSplit
<1>10. Cardinality(U) = Cardinality(U \ Disqualified(s)) + Cardinality(U \cap Disqualified(s))
  BY <1>5, <1>8, CardSplit
<1>11. Cardinality(ActivePlayers(r)) + Cardinality(Disqualified(r))
         = Cardinality(ActivePlayers(s)) + Cardinality(Disqualified(s))
  BY <1>8, <1>9, <1>10
<1>12. player_count(s) = player_count(r)
  BY <1>1, <1>2, <1>11, PlayerCount
<1>. QED  BY <1>2, <1>3, <1>12 DEF Sound, WithinLimit

\* reset_players turns the disqualified back into what they were.
LEMMA ResetSound ==
    ASSUME NEW r, Sound(r)
    PROVE  LET s == reset_players(r)
           IN  Sound(s) /\ SameMembers(r, s) /\ s.game_started = r.game_started
<1> DEFINE S == {u \in members(r) : r.disqualified[u]}
           s == guarded_disqualified(r, S, FALSE)
<1>1. r \in RoomRecord /\ Consistent(r) /\ DisqualifiedAreMembers(r)
  BY DEF Sound
<1>2. /\ s \in RoomRecord /\ Consistent(s) /\ DisqualifiedAreMembers(s)
      /\ SameMembers(r, s) /\ s.game_started = r.game_started
      /\ s.status = r.status
      /\ s.disqualified = [v \in User |-> IF v \in S THEN FALSE ELSE r.disqualified[v]]
  <2> S \in SUBSET members(r) /\ FALSE \in BOOLEAN
    OBVIOUS
  <2> HIDE DEF S
  <2>. QED  BY <1>1, GuardedDisqualified
<1>3. reset_players(r) = s
  BY DEF reset_players
<1>4. S = Disqualified(r)
  BY DEF Disqualified, DisqualifiedAreMembers, members, Sound
<1> HIDE DEF s, S
<1>5. Disqualified(s) = {}
  BY <1>1, <1>2, <1>4 DEF Disqualified
<1>6. ActivePlayers(s) \in SUBSET (ActivePlayers(r) \cup Disqualified(r))
  BY <1>1, <1>2, <1>4 DEF ActivePlayers, Disqualified, is_player
<1>7. player_count(s) <= player_count(r)
  <2>1. ActivePlayers(r) \in SUBSET User /\ Disqualified(r) \in SUBSET User
    BY DEF ActivePlayers, Disqualified
  <2>2. Cardinality(ActivePlayers(s)) <= Cardinality(ActivePlayers(r) \cup Disqualified(r))
    BY <1>6, <2>1, CardMono
  <2>3. Cardinality(ActivePlayers(r) \cup Disqualified(r))
          <= Cardinality(ActivePlayers(r)) + Cardinality(Disqualified(r))
    BY <2>1, CardUnion
  <2>4. Cardinality(Disqualified(s)) = 0
    BY <1>5, FS_EmptySet
  <2>5. Cardinality(ActivePlayers(r) \cup Disqualified(r)) \in Nat
    BY <2>1, UserSets
  <2>. QED  BY <1>1, <1>2, <2>2, <2>3, <2>4, <2>5, PlayerCount
<1>8. WithinLimit(s)
  BY <1>1, <1>2, <1>7, PlayerCount, RoomConstants DEF WithinLimit, Sound
<1>. QED  BY <1>2, <1>3, <1>8 DEF Sound

-----------------------------------------------------------------------------

\* Fields that soundness says nothing about.
LEMMA FlagsSound ==
    ASSUME NEW r, Sound(r)
    PROVE  /\ \A b \in BOOLEAN :
                /\ Sound([r EXCEPT !.game_started = b])
                /\ SameMembers(r, [r EXCEPT !.game_started = b])
                /\ [r EXCEPT !.game_started = b].game_started = b
           /\ Sound(undefined(r)) /\ SameMembers(r, undefined(r))
           /\ undefined(r).game_started = r.game_started
           /\ Sound([r EXCEPT !.game = TRUE])
           /\ members([r EXCEPT !.game = TRUE]) = members(r)
           /\ [r EXCEPT !.game = TRUE].owner = r.owner
           /\ [r EXCEPT !.game = TRUE].game = TRUE
<1> USE DEF Sound, Consistent, DisqualifiedAreMembers, WithinLimit, player_count,
        SameMembers, members, is_player, is_spectator
<1>1. ASSUME NEW b \in BOOLEAN
      PROVE  /\ Sound([r EXCEPT !.game_started = b])
             /\ SameMembers(r, [r EXCEPT !.game_started = b])
             /\ [r EXCEPT !.game_started = b].game_started = b
  BY DEF RoomRecord
<1>2. /\ Sound(undefined(r)) /\ SameMembers(r, undefined(r))
      /\ undefined(r).game_started = r.game_started
  BY DEF undefined, RoomRecord
<1>3. /\ Sound([r EXCEPT !.game = TRUE])
      /\ members([r EXCEPT !.game = TRUE]) = members(r)
      /\ [r EXCEPT !.game = TRUE].owner = r.owner
      /\ [r EXCEPT !.game = TRUE].game = TRUE
  BY DEF RoomRecord
<1>. QED  BY <1>1, <1>2, <1>3

\* What first(S, n) selects.
LEMMA FirstIsBounded ==
    ASSUME NEW r, NEW S \in SUBSET User, NEW n \in Int, NEW P \in first(r, S, n)
    PROVE  P \in SUBSET S /\ (n >= 0 => Cardinality(P) <= n)
<1>1. P \in SUBSET S /\ Cardinality(P) = IF n <= 0 THEN 0
                            ELSE IF n < Cardinality(S) THEN n ELSE Cardinality(S)
  BY DEF first
<1>2. Cardinality(S) \in Nat
  BY UserSets
<1>. QED  BY <1>1, <1>2

\* set_player_limit only ever moves players to the waitlist.
LEMMA SetPlayerLimitSound ==
    ASSUME NEW r, Sound(r), NEW limit \in Nat, NEW s \in set_player_limit(r, limit)
    PROVE  Sound(s) /\ SameMembers(r, s) /\ s.game_started = r.game_started
<1> DEFINE overflow == player_count(r) - limit
           past_end == limit >= 1 /\ overflow > Cardinality(r.cached_players)
<1>1. r.cached_players \in SUBSET User /\ r.cached_players \in SUBSET members(r)
  <2>1. r.cached_players = {u \in User : is_player(r, u) /\ ~r.disqualified[u]}
    BY DEF Sound, Consistent
  <2>. QED  BY <2>1 DEF members, is_player, PLAYER, ABSENT
<1>2. player_count(r) \in Nat /\ Cardinality(r.cached_players) \in Nat
  BY <1>1, PlayerCount, UserSets DEF Sound
<1>3. CASE limit < 1 \/ overflow <= 0
  <2>1. ~past_end
    BY <1>2, <1>3
  <2>2. s = r
    BY <1>3, <2>1 DEF set_player_limit
  <2>. QED  BY <2>2 DEF SameMembers
<1>4. CASE past_end
  <2>1. ~(limit < 1 \/ overflow <= 0)
    BY <1>2, <1>4
  <2>2. s = undefined(r)
    BY <1>4, <2>1 DEF set_player_limit
  <2>. QED  BY <2>2, FlagsSound
<1>5. CASE ~(limit < 1 \/ overflow <= 0) /\ ~past_end
  <2>1. PICK P \in first(r, r.cached_players, overflow) :
               s = guarded_status(r, P, PLAYER_WAITLIST)
    BY <1>5 DEF set_player_limit
  <2>2. P \in SUBSET members(r)
    BY <1>1, <2>1 DEF first
  <2>3. PLAYER_WAITLIST \in Status /\ PLAYER_WAITLIST # PLAYER
    BY DEF Status, PLAYER, PLAYER_WAITLIST
  <2>. QED  BY <2>1, <2>2, <2>3, DemotionSound
<1>. QED  BY <1>3, <1>4, <1>5

\* end_game and the part of start_game before the controller's start().
LEMMA EndGameSound ==
    ASSUME NEW r, Sound(r)
    PROVE  /\ Sound(end_game(r)) /\ SameMembers(r, end_game(r))
           /\ Sound(begin_game(r)) /\ SameMembers(r, begin_game(r))
           /\ end_game(r).game_started = FALSE
<1> DEFINE q == reset_players(r)
<1>1. Sound(q) /\ SameMembers(r, q)
  BY ResetSound
<1> HIDE DEF q
<1>2. /\ Sound([q EXCEPT !.game_started = FALSE])
      /\ SameMembers(q, [q EXCEPT !.game_started = FALSE])
      /\ [q EXCEPT !.game_started = FALSE].game_started = FALSE
      /\ Sound([q EXCEPT !.game_started = TRUE])
      /\ SameMembers(q, [q EXCEPT !.game_started = TRUE])
  BY <1>1, FlagsSound
<1>3. end_game(r) = [q EXCEPT !.game_started = FALSE]
  BY DEF end_game, q
<1>4. begin_game(r) = [q EXCEPT !.game_started = TRUE]
  BY DEF begin_game, q
<1>. QED  BY <1>1, <1>2, <1>3, <1>4 DEF SameMembers

\* flush_waitlist promotes no more members than there are free places.
LEMMA FlushSound ==
    ASSUME NEW r, Sound(r), NEW s \in flush_waitlist(r)
    PROVE  Sound(s) /\ SameMembers(r, s) /\ s.game_started = r.game_started
<1> DEFINE W == {u \in spectators(r) : is_waitlisted(r, u)}
           free == PlayerLimit - player_count(r)
<1>1. CASE r.game_started \/ spectator_count(r) = 0
  <2>1. s = r
    BY <1>1 DEF flush_waitlist
  <2>. QED  BY <2>1 DEF SameMembers
<1>2. CASE ~(r.game_started \/ spectator_count(r) = 0)
  <2>1. PICK P \in first(r, W, free) : s = guarded_status(r, P, PLAYER)
    BY <1>2 DEF flush_waitlist
  <2>2. spectators(r) = members(r)
    BY <1>2 DEF spectators, Sound, Consistent
  <2>3. W \in SUBSET members(r) /\ W \in SUBSET User
    BY <2>2 DEF members
  <2>4. free \in Nat
    BY PlayerCount, RoomConstants DEF Sound, WithinLimit
  <2>5. P \in SUBSET members(r) /\ Cardinality(P) <= free
    <3> HIDE DEF W, free
    <3>. QED  BY <2>1, <2>3, <2>4, FirstIsBounded
  <2>. QED  BY <2>1, <2>5, PromotionSound
<1>. QED  BY <1>1, <1>2

\* Off the caches and the map: the room is sound without the user.
LEMMA DetachSound ==
    ASSUME NEW r, Sound(r), NEW u \in members(r)
    PROVE  LET s == detach(r, u)
           IN  /\ Sound(s)
               /\ members(s) = members(r) \ {u}
               /\ s.owner = r.owner
               /\ s.game = r.game
               /\ s.game_started = r.game_started
<1> DEFINE a == cached_remove(r, {u})
           s == detach(r, u)
<1>1. /\ r \in RoomRecord /\ Consistent(r) /\ DisqualifiedAreMembers(r) /\ WithinLimit(r)
      /\ u \in User /\ {u} \in SUBSET User
  BY DEF Sound, members
<1>2. /\ a \in RoomRecord
      /\ a.status = r.status /\ a.disqualified = r.disqualified
      /\ a.owner = r.owner /\ a.game = r.game /\ a.game_started = r.game_started
  BY <1>1, CachedRemove
<1>3. ConsistentOutside(a, {u})
  BY <1>1, GuardOpens
<1> HIDE DEF a
<1>4. /\ s \in RoomRecord
      /\ s.status = [r.status EXCEPT ![u] = ABSENT]
      /\ s.disqualified = [r.disqualified EXCEPT ![u] = FALSE]
      /\ s.owner = r.owner /\ s.game = r.game /\ s.game_started = r.game_started
      /\ s.cached_users = a.cached_users
      /\ s.cached_users_as_spectators = a.cached_users_as_spectators
      /\ s.players_disqualified = a.players_disqualified
      /\ s.cached_spectators = a.cached_spectators
      /\ s.cached_players = a.cached_players
  <2> DEFINE st == [a.status EXCEPT ![u] = ABSENT]
             dq == [a.disqualified EXCEPT ![u] = FALSE]
             jb == [v \in User |-> IF v = u THEN {} ELSE a.joined_before[v] \ {u}]
  <2>1. s = [a EXCEPT !.status = st, !.disqualified = dq, !.joined_before = jb]
    BY DEF detach, erase_member, a
  <2>2. /\ st \in [User -> Status \cup {ABSENT}] /\ dq \in [User -> BOOLEAN]
        /\ jb \in [User -> SUBSET User]
    BY <1>1, <1>2 DEF RoomRecord
  <2>3. st = [r.status EXCEPT ![u] = ABSENT] /\ dq = [r.disqualified EXCEPT ![u] = FALSE]
    BY <1>2
  <2> HIDE DEF st, dq, jb
  <2>. QED  BY <1>1, <1>2, <2>1, <2>2, <2>3 DEF RoomRecord
<1> HIDE DEF s
<1>5. r.status \in [User -> Status \cup {ABSENT}] /\ r.disqualified \in [User -> BOOLEAN]
  BY <1>1 DEF RoomRecord
<1>6. members(s) = members(r) \ {u}
  BY <1>1, <1>4, <1>5 DEF members
<1>7. DisqualifiedAreMembers(s)
  BY <1>1, <1>4, <1>5, <1>6 DEF DisqualifiedAreMembers
<1>8. ActivePlayers(s) = ActivePlayers(r) \ {u} /\ Disqualified(s) = Disqualified(r) \ {u}
  BY <1>1, <1>4, <1>5 DEF ActivePlayers, Disqualified, is_player, ABSENT, PLAYER
<1>9. Consistent(s)
  <2>1. members(a) \ {u} = members(s)
    BY <1>2, <1>6 DEF members
  <2>2. ActivePlayers(a) \ {u} = ActivePlayers(s) /\ Disqualified(a) \ {u} = Disqualified(s)
    BY <1>2, <1>8 DEF ActivePlayers, Disqualified, is_player
  <2>3. {v \in User : is_spectator(a, v) \/ a.disqualified[v]} \ {u} =
        {v \in User : is_spectator(s, v) \/ s.disqualified[v]}
    BY <1>1, <1>2, <1>4, <1>5 DEF is_spectator, ABSENT, SPECTATOR, PLAYER_WAITLIST
  <2>. QED
    BY <1>3, <1>4, <2>1, <2>2, <2>3
    DEF Consistent, ConsistentOutside, ActivePlayers, Disqualified
<1>10. WithinLimit(s)
  <2>1. /\ ActivePlayers(r) \in SUBSET User /\ Disqualified(r) \in SUBSET User
        /\ ActivePlayers(s) \in SUBSET ActivePlayers(r)
        /\ Disqualified(s) \in SUBSET Disqualified(r)
    BY <1>8 DEF ActivePlayers, Disqualified
  <2>2. /\ Cardinality(ActivePlayers(s)) <= Cardinality(ActivePlayers(r))
        /\ Cardinality(Disqualified(s)) <= Cardinality(Disqualified(r))
    BY <2>1, CardMono
  <2>. QED  BY <1>1, <1>4, <1>9, <2>2, PlayerCount, RoomConstants DEF WithinLimit
<1>. QED  BY <1>4, <1>6, <1>7, <1>9, <1>10 DEF Sound, s

\* The rest of _remove_user hands the room over to a member, or to nobody when
\* there is none left.
LEMMA SettleSound ==
    ASSUME NEW r, Sound(r), NEW u \in User,
           u \notin members(r),
           r.owner = u \/ Owned(r),
           NEW s \in settle(r, u)
    PROVE  Sound(s) /\ Owned(s) /\ members(s) = members(r)
<1>1. PICK f \in flush_waitlist(r) : s \in shift_owner(f, u)
  BY DEF settle
<1>2. Sound(f) /\ members(f) = members(r) /\ f.owner = r.owner
  BY FlushSound DEF SameMembers
<1>3. f \in RoomRecord /\ f.cached_users = members(f)
  BY <1>2 DEF Sound, Consistent
<1>4. ASSUME NEW o \in User \cup {NoOwner}
      PROVE  /\ Sound([f EXCEPT !.owner = o])
             /\ members([f EXCEPT !.owner = o]) = members(f)
             /\ [f EXCEPT !.owner = o].owner = o
  BY <1>2, <1>3 DEF Sound, Consistent, DisqualifiedAreMembers, WithinLimit, player_count,
        members, is_player, is_spectator, RoomRecord
<1>5. CASE f.owner # u
  <2>1. s = f
    BY <1>1, <1>5 DEF shift_owner
  <2>. QED  BY <1>2, <1>5, <2>1 DEF Owned
<1>6. CASE f.owner = u /\ members(f) = {}
  <2>1. s = [f EXCEPT !.owner = NoOwner]
    BY <1>1, <1>6 DEF shift_owner
  <2>. QED  BY <1>2, <1>4, <1>6, <2>1 DEF Owned
<1>7. CASE f.owner = u /\ members(f) # {}
  <2>1. PICK v \in begin(f, f.cached_users) : s = [f EXCEPT !.owner = v]
    BY <1>1, <1>7 DEF shift_owner
  <2>2. v \in members(f) /\ v \in User
    BY <1>3, <2>1 DEF begin, members
  <2>. QED  BY <1>2, <1>4, <2>1, <2>2 DEF Owned
<1>. QED  BY <1>5, <1>6, <1>7

\* add_user gives a member a status that fits: the first member of an empty room
\* becomes its owner.
LEMMA AdmitSound ==
    ASSUME NEW r, Sound(r), Owned(r), NEW u \in User, NEW method \in Method,
           join_status(r, u, method) \in Status
    PROVE  LET s == admit(r, u, join_status(r, u, method))
           IN  Sound(s) /\ Owned(s) /\ members(s) = members(r) \cup {u} /\ s.game = r.game
               /\ s.game_started = r.game_started
<1> DEFINE status == join_status(r, u, method)
           s == admit(r, u, status)
<1>1. /\ r \in RoomRecord /\ Consistent(r) /\ DisqualifiedAreMembers(r) /\ WithinLimit(r)
      /\ player_count(r) \in Nat /\ PlayerLimit \in Nat
  BY PlayerCount, RoomConstants DEF Sound
<1>2. status = PLAYER => u \in ActivePlayers(r) \/ player_count(r) < PlayerLimit
  <2>1. players(r) = ActivePlayers(r)
    BY <1>1 DEF players, Consistent, ActivePlayers
  <2>2. SUFFICES ASSUME status = PLAYER, u \notin ActivePlayers(r)
                 PROVE  player_count(r) < PlayerLimit
    OBVIOUS
  <2>3. player_count(r) - (IF u \in players(r) THEN 1 ELSE 0) < PlayerLimit
    BY <2>2 DEF join_status, Method, PLAYER, SPECTATOR
  <2>. QED  BY <1>1, <2>1, <2>2, <2>3
<1> HIDE DEF status
<1>3. CASE u \in members(r)
  <2>1. s = guarded_status(r, {u}, status) /\ {u} \in SUBSET members(r) /\ status \in Status
    BY <1>3 DEF admit, status
  <2>2. CASE status # PLAYER \/ u \in ActivePlayers(r)
    <3>1. Sound(s) /\ SameMembers(r, s) /\ s.game_started = r.game_started
      BY <2>1, <2>2, DemotionSound
    <3>. QED  BY <1>3, <3>1 DEF SameMembers, Owned, status
  <2>3. CASE status = PLAYER /\ player_count(r) < PlayerLimit
    <3>1. Cardinality({u}) = 1
      BY FS_Singleton
    <3>2. Sound(s) /\ SameMembers(r, s) /\ s.game_started = r.game_started
      BY <1>1, <2>1, <2>3, <3>1, PromotionSound
    <3>. QED  BY <1>3, <3>2 DEF SameMembers, Owned, status
  <2>. QED  BY <1>2, <2>2, <2>3
<1>4. CASE u \notin members(r)
  <2> DEFINE b == insert_member(r, u, status)
             c == cached_add(b, {u})
  <2>1. /\ b \in RoomRecord
        /\ b.status = [r.status EXCEPT ![u] = status]
        /\ b.disqualified = [r.disqualified EXCEPT ![u] = FALSE]
        /\ b.owner = r.owner /\ b.game = r.game /\ b.game_started = r.game_started
        /\ b.cached_users = r.cached_users
        /\ b.cached_users_as_spectators = r.cached_users_as_spectators
        /\ b.players_disqualified = r.players_disqualified
        /\ b.cached_spectators = r.cached_spectators
        /\ b.cached_players = r.cached_players
    <3>1. members(r) \in SUBSET User /\ status \in Status
      BY DEF members, status
    <3>. QED  BY <1>1, <3>1 DEF insert_member, RoomRecord
  <2> HIDE DEF b
  <2>2. /\ r.status \in [User -> Status \cup {ABSENT}]
        /\ r.disqualified \in [User -> BOOLEAN] /\ status \in Status /\ status # ABSENT
        /\ r.status[u] = ABSENT /\ ~r.disqualified[u]
    BY <1>1, <1>4 DEF RoomRecord, members, DisqualifiedAreMembers, status, Status,
       ABSENT, PLAYER, PLAYER_WAITLIST, SPECTATOR
  <2>3. members(b) = members(r) \cup {u} /\ Disqualified(b) = Disqualified(r)
        /\ u \notin Disqualified(r)
    BY <2>1, <2>2 DEF members, Disqualified
  <2>4. ConsistentOutside(b, {u})
    <3>1. members(b) \ {u} = members(r)
      BY <1>4, <2>3
    <3>2. ActivePlayers(b) \ {u} = ActivePlayers(r)
      BY <2>1, <2>2 DEF ActivePlayers, is_player, ABSENT, PLAYER
    <3>3. {v \in User : is_spectator(b, v) \/ b.disqualified[v]} \ {u} =
          {v \in User : is_spectator(r, v) \/ r.disqualified[v]}
      BY <2>1, <2>2 DEF is_spectator, ABSENT, SPECTATOR, PLAYER_WAITLIST
    <3>4. Disqualified(b) \ {u} = Disqualified(r)
      BY <2>3
    <3>. QED
      BY <1>1, <2>1, <3>1, <3>2, <3>3, <3>4
      DEF Consistent, ConsistentOutside, ActivePlayers, Disqualified
  <2>5. Consistent(c)
    BY <2>1, <2>3, <2>4, GuardCloses
  <2>6. /\ c \in RoomRecord /\ c.status = b.status /\ c.disqualified = b.disqualified
        /\ c.owner = b.owner /\ c.game = b.game /\ c.game_started = b.game_started
    <3>1. {u} \in SUBSET User
      OBVIOUS
    <3>. QED  BY <2>1, <3>1, CachedAdd
  <2>7. s = [c EXCEPT !.owner = IF c.owner = NoOwner THEN u ELSE c.owner]
    BY <1>4 DEF admit, b
  <2> HIDE DEF c, s
  <2>8. /\ members(c) = members(r) \cup {u} /\ Disqualified(c) = Disqualified(r)
        /\ ActivePlayers(c) \in SUBSET (ActivePlayers(r) \cup (IF status = PLAYER THEN {u} ELSE {}))
    BY <2>1, <2>2, <2>3, <2>6 DEF members, Disqualified, ActivePlayers, is_player
  <2>9. WithinLimit(c)
    <3> DEFINE X == IF status = PLAYER THEN {u} ELSE {}
    <3>1. ActivePlayers(r) \in SUBSET User /\ X \in SUBSET User
          /\ ActivePlayers(r) \cup X \in SUBSET User
      BY DEF ActivePlayers
    <3>2. Cardinality(X) = IF status = PLAYER THEN 1 ELSE 0
      BY FS_Singleton, FS_EmptySet
    <3> HIDE DEF X
    <3>3. Cardinality(ActivePlayers(c)) <= Cardinality(ActivePlayers(r) \cup X)
      BY <2>8, <3>1, CardMono DEF X
    <3>4. Cardinality(ActivePlayers(r) \cup X) <= Cardinality(ActivePlayers(r)) + Cardinality(X)
      BY <3>1, CardUnion
    <3>5. Cardinality(ActivePlayers(r) \cup X) \in Nat
      BY <3>1, UserSets
    <3>6. u \notin ActivePlayers(r)
      BY <2>2 DEF ActivePlayers, is_player, ABSENT, PLAYER
    <3>. QED
      BY <1>1, <1>2, <2>5, <2>6, <2>8, <3>2, <3>3, <3>4, <3>5, <3>6, PlayerCount
      DEF WithinLimit
  <2>10. DisqualifiedAreMembers(c)
    BY <1>1, <2>8 DEF DisqualifiedAreMembers, Disqualified
  <2>11. c.owner \in User \cup {NoOwner}
    BY <2>6 DEF RoomRecord
  <2>12. /\ Sound(s) /\ members(s) = members(c) /\ s.game = c.game
         /\ s.game_started = c.game_started
         /\ s.owner = IF c.owner = NoOwner THEN u ELSE c.owner
    BY <2>5, <2>6, <2>7, <2>9, <2>10, <2>11
    DEF Sound, Consistent, DisqualifiedAreMembers, WithinLimit, player_count,
        members, is_player, is_spectator, RoomRecord
  <2>13. Owned(s)
    BY <2>1, <2>6, <2>8, <2>12 DEF Owned
  <2>. QED  BY <2>1, <2>6, <2>8, <2>12, <2>13 DEF s, status
<1>. QED  BY <1>3, <1>4

\* The constructor makes a sound room without members.
LEMMA NewRoomSound ==
    ASSUME NEW started \in BOOLEAN
    PROVE  LET r == new_room(started)
           IN  Sound(r) /\ Owned(r) /\ members(r) = {}
<1> DEFINE r == new_room(started)
<1>1. r \in RoomRecord
  BY DEF new_room, RoomRecord
<1>2. members(r) = {} /\ r.owner = NoOwner
  BY DEF new_room, members
<1>3. Disqualified(r) = {} /\ ActivePlayers(r) = {}
  BY DEF new_room, Disqualified, ActivePlayers, is_player, ABSENT, PLAYER
<1>4. Consistent(r)
  <2>1. r.players_disqualified = Cardinality({u \in User : r.disqualified[u]})
    BY <1>3, FS_EmptySet DEF new_room, Disqualified
  <2>2. r.cached_spectators = {u \in User : is_spectator(r, u) \/ r.disqualified[u]}
    BY DEF new_room, is_spectator, ABSENT, SPECTATOR, PLAYER_WAITLIST
  <2>3. r.cached_players = {u \in User : is_player(r, u) /\ ~r.disqualified[u]}
    BY <1>3 DEF new_room, ActivePlayers
  <2>4. r.cached_users = members(r) /\ r.cached_users_as_spectators = members(r)
    BY <1>2 DEF new_room
  <2>. QED  BY <2>1, <2>2, <2>3, <2>4 DEF Consistent
<1>5. DisqualifiedAreMembers(r)
  BY DEF new_room, DisqualifiedAreMembers
<1> HIDE DEF r
<1>6. WithinLimit(r)
  BY <1>1, <1>3, <1>4, PlayerCount, FS_EmptySet, RoomConstants DEF WithinLimit
<1>. QED  BY <1>1, <1>2, <1>4, <1>5, <1>6 DEF Sound, Owned, r

-----------------------------------------------------------------------------
(* What the operations do to the fields that soundness leaves open.         *)

\* Two sound rooms with the same members and flags are the same room: the caches
\* hold nothing of their own.
LEMMA RoomIsItsMembers ==
    ASSUME NEW r, NEW s, Sound(r), Sound(s),
           s.status = r.status, s.disqualified = r.disqualified,
           s.joined_before = r.joined_before, s.owner = r.owner,
           s.game = r.game, s.game_started = r.game_started, s.fault = r.fault
    PROVE  s = r
<1>1. r \in RoomRecord /\ s \in RoomRecord /\ Consistent(r) /\ Consistent(s)
  BY DEF Sound
<1>2. /\ s.cached_users = r.cached_users
      /\ s.cached_users_as_spectators = r.cached_users_as_spectators
      /\ s.cached_players = r.cached_players
      /\ s.cached_spectators = r.cached_spectators
      /\ s.players_disqualified = r.players_disqualified
  BY <1>1 DEF Consistent, members, is_player, is_spectator
<1>. QED  BY <1>1, <1>2 DEF RoomRecord

\* disqualify_player marks the players among the members it is called for.
LEMMA DisqualifyEffect ==
    ASSUME NEW r, Sound(r), NEW S \in SUBSET members(r)
    PROVE  LET s == disqualify_player(r, S)
           IN  /\ s.status = r.status
               /\ s.disqualified =
                    [u \in User |-> r.disqualified[u] \/ (u \in S /\ is_player(r, u))]
               /\ s.joined_before = r.joined_before
               /\ s.fault = r.fault
<1> DEFINE T == {u \in S : is_player(r, u)}
           s == guarded_disqualified(r, T, TRUE)
<1>1. /\ r \in RoomRecord /\ Consistent(r) /\ DisqualifiedAreMembers(r)
      /\ T \in SUBSET members(r)
  BY DEF Sound
<1>2. /\ s.status = r.status
      /\ s.disqualified = [v \in User |-> IF v \in T THEN TRUE ELSE r.disqualified[v]]
      /\ s.joined_before = r.joined_before
      /\ s.fault = r.fault
  BY <1>1, GuardedDisqualified
<1>3. disqualify_player(r, S) = s
  BY DEF disqualify_player
<1> HIDE DEF s
<1>4. r.disqualified \in [User -> BOOLEAN]
  BY <1>1 DEF RoomRecord
<1>5. [v \in User |-> IF v \in T THEN TRUE ELSE r.disqualified[v]] =
      [u \in User |-> r.disqualified[u] \/ (u \in S /\ is_player(r, u))]
  BY <1>4 DEF is_player
<1>. QED  BY <1>2, <1>3, <1>5

\* reset_players leaves nobody disqualified, and so do both ends of a game.
LEMMA ResetEffect ==
    ASSUME NEW r, Sound(r)
    PROVE  \A s \in {reset_players(r), end_game(r), begin_game(r)} :
               /\ s.status = r.status
               /\ s.disqualified = [u \in User |-> FALSE]
               /\ s.joined_before = r.joined_before
               /\ s.fault = r.fault
<1> DEFINE S == {u \in members(r) : r.disqualified[u]}
           q == guarded_disqualified(r, S, FALSE)
<1>1. /\ r \in RoomRecord /\ Consistent(r) /\ DisqualifiedAreMembers(r)
      /\ S \in SUBSET members(r)
  BY DEF Sound
<1>2. /\ q \in RoomRecord
      /\ q.status = r.status
      /\ q.disqualified = [v \in User |-> IF v \in S THEN FALSE ELSE r.disqualified[v]]
      /\ q.joined_before = r.joined_before
      /\ q.fault = r.fault
  BY <1>1, GuardedDisqualified
<1>3. q = reset_players(r)
  BY DEF reset_players
<1> HIDE DEF q
<1>4. r.disqualified \in [User -> BOOLEAN]
  BY <1>1 DEF RoomRecord
<1>5. [v \in User |-> IF v \in S THEN FALSE ELSE r.disqualified[v]] = [u \in User |-> FALSE]
  BY <1>1, <1>4 DEF DisqualifiedAreMembers
<1> HIDE DEF S
<1>6. /\ end_game(r) = [q EXCEPT !.game_started = FALSE]
      /\ begin_game(r) = [q EXCEPT !.game_started = TRUE]
  BY <1>3 DEF end_game, begin_game
<1>7. ASSUME NEW b \in BOOLEAN
      PROVE  LET s == [q EXCEPT !.game_started = b]
             IN  /\ s.status = q.status /\ s.disqualified = q.disqualified
                 /\ s.joined_before = q.joined_before /\ s.fault = q.fault
  BY <1>2 DEF RoomRecord
<1>8. /\ end_game(r).status = r.status /\ begin_game(r).status = r.status
      /\ end_game(r).disqualified = q.disqualified
      /\ begin_game(r).disqualified = q.disqualified
      /\ end_game(r).joined_before = r.joined_before
      /\ begin_game(r).joined_before = r.joined_before
      /\ end_game(r).fault = r.fault /\ begin_game(r).fault = r.fault
  BY <1>2, <1>6, <1>7
<1>9. q.disqualified = [u \in User |-> FALSE]
  BY <1>2, <1>5
<1>. QED  BY <1>2, <1>3, <1>8, <1>9

\* start_game starts the game before the controller hears of it.
LEMMA BeginGameStarts ==
    ASSUME NEW r, Sound(r)
    PROVE  begin_game(r).game_started = TRUE
<1> DEFINE q == reset_players(r)
<1>1. q \in RoomRecord
  BY ResetSound DEF Sound
<1>2. begin_game(r) = [q EXCEPT !.game_started = TRUE]
  BY DEF begin_game
<1> HIDE DEF q
<1>. QED  BY <1>1, <1>2 DEF RoomRecord

\* flush_waitlist promotes waitlisted members, outside of games, and the ones who
\* have waited longest first.
LEMMA FlushEffect ==
    ASSUME NEW r, Sound(r), NEW s \in flush_waitlist(r)
    PROVE  /\ s.disqualified = r.disqualified
           /\ s.joined_before = r.joined_before
           /\ s.fault = r.fault
           /\ r.game_started => s.status = r.status
           /\ \A u \in User : \/ s.status[u] = r.status[u]
                              \/ r.status[u] = PLAYER_WAITLIST /\ s.status[u] = PLAYER
           /\ \A u, v \in User : /\ is_waitlisted(r, u) /\ s.status[u] = PLAYER
                                 /\ is_waitlisted(r, v) /\ s.status[v] = PLAYER_WAITLIST
                                 => precedes(r, u, v)
<1> DEFINE W == {u \in spectators(r) : is_waitlisted(r, u)}
           free == PlayerLimit - player_count(r)
<1>0. PLAYER # PLAYER_WAITLIST
  BY DEF PLAYER, PLAYER_WAITLIST
<1>1. CASE r.game_started \/ spectator_count(r) = 0
  <2>1. s = r
    BY <1>1 DEF flush_waitlist
  <2>. QED  BY <1>0, <2>1 DEF is_waitlisted
<1>2. CASE ~(r.game_started \/ spectator_count(r) = 0)
  <2>1. PICK P \in first(r, W, free) : s = guarded_status(r, P, PLAYER)
    BY <1>2 DEF flush_waitlist
  <2>2. spectators(r) = members(r) /\ r \in RoomRecord
    BY <1>2 DEF spectators, Sound, Consistent
  <2>3. W = {u \in User : is_waitlisted(r, u)}
    BY <2>2 DEF members, is_waitlisted, ABSENT, PLAYER_WAITLIST
  <2>4. P \in SUBSET W /\ \A u \in P, v \in W \ P : precedes(r, u, v)
    BY <2>1 DEF first
  <2>5. P \in SUBSET members(r) /\ P \in SUBSET User /\ PLAYER \in Status
    BY <2>2, <2>4 DEF members, Status
  <2>6. /\ s.status = [u \in User |-> IF u \in P THEN PLAYER ELSE r.status[u]]
        /\ s.disqualified = r.disqualified
        /\ s.joined_before = r.joined_before
        /\ s.fault = r.fault
    BY <2>1, <2>5, GuardedStatus DEF Sound
  <2> HIDE DEF W
  <2>7. \A u \in User : (u \in P => is_waitlisted(r, u))
    BY <2>3, <2>4
  <2>8. \A u, v \in User : /\ is_waitlisted(r, u) /\ s.status[u] = PLAYER
                           /\ is_waitlisted(r, v) /\ s.status[v] = PLAYER_WAITLIST
                           => precedes(r, u, v)
    <3> SUFFICES ASSUME NEW u \in User, NEW v \in User,
                        is_waitlisted(r, u), s.status[u] = PLAYER,
                        is_waitlisted(r, v), s.status[v] = PLAYER_WAITLIST
                 PROVE  precedes(r, u, v)
      OBVIOUS
    <3>1. u \in P /\ v \in W \ P
      BY <1>0, <2>3, <2>6 DEF is_waitlisted
    <3>. QED  BY <2>4, <3>1
  <2>. QED  BY <1>2, <2>6, <2>7, <2>8 DEF is_waitlisted
<1>. QED  BY <1>1, <1>2

\* shift_owner changes the owner and nothing else, and only when it has left; the
\* longest-standing member follows.
LEMMA ShiftOwnerEffect ==
    ASSUME NEW r, Sound(r), NEW u \in User, NEW s \in shift_owner(r, u)
    PROVE  /\ s.status = r.status
           /\ s.disqualified = r.disqualified
           /\ s.joined_before = r.joined_before
           /\ s.game = r.game
           /\ s.game_started = r.game_started
           /\ s.fault = r.fault
           /\ s.owner # r.owner =>
                /\ r.owner = u
                /\ \A v \in members(r) \ {s.owner} : precedes(r, s.owner, v)
<1>1. r \in RoomRecord /\ r.cached_users = members(r)
  BY DEF Sound, Consistent
<1>2. CASE r.owner # u
  BY <1>2 DEF shift_owner
<1>3. CASE r.owner = u /\ members(r) = {}
  <2>1. s = [r EXCEPT !.owner = NoOwner]
    BY <1>3 DEF shift_owner
  <2>. QED  BY <1>1, <1>3, <2>1 DEF RoomRecord
<1>4. CASE r.owner = u /\ members(r) # {}
  <2>1. PICK w \in begin(r, members(r)) : s = [r EXCEPT !.owner = w]
    BY <1>1, <1>4 DEF shift_owner
  <2>2. \A v \in members(r) \ {w} : precedes(r, w, v)
    BY <2>1 DEF begin
  <2>. QED  BY <1>1, <1>4, <2>1, <2>2 DEF RoomRecord
<1>. QED  BY <1>2, <1>3, <1>4

\* _members.erase forgets all of one member and nothing of the others.
LEMMA DetachEffect ==
    ASSUME NEW r, Sound(r), NEW u \in members(r)
    PROVE  LET s == detach(r, u)
           IN  /\ s.status = [r.status EXCEPT ![u] = ABSENT]
               /\ s.disqualified = [r.disqualified EXCEPT ![u] = FALSE]
               /\ \A v \in User \ {u} : s.joined_before[v] = r.joined_before[v] \ {u}
               /\ s.fault = r.fault
<1> DEFINE a == cached_remove(r, {u})
           s == detach(r, u)
<1>1. r \in RoomRecord /\ {u} \in SUBSET User
  BY DEF Sound, members
<1>2. /\ a \in RoomRecord
      /\ a.status = r.status /\ a.disqualified = r.disqualified
      /\ a.joined_before = r.joined_before /\ a.fault = r.fault
  BY <1>1, CachedRemove
<1>3. s = [a EXCEPT !.status[u] = ABSENT,
                    !.disqualified[u] = FALSE,
                    !.joined_before = [v \in User |-> IF v = u THEN {} ELSE @[v] \ {u}]]
  BY DEF detach, erase_member
<1> HIDE DEF a
<1>4. s = [a EXCEPT !.status = [a.status EXCEPT ![u] = ABSENT],
                    !.disqualified = [a.disqualified EXCEPT ![u] = FALSE],
                    !.joined_before =
                        [v \in User |-> IF v = u THEN {} ELSE a.joined_before[v] \ {u}]]
  BY <1>3
<1> HIDE DEF s
<1>5. /\ s.status = [a.status EXCEPT ![u] = ABSENT]
      /\ s.disqualified = [a.disqualified EXCEPT ![u] = FALSE]
      /\ s.joined_before = [v \in User |-> IF v = u THEN {} ELSE a.joined_before[v] \ {u}]
      /\ s.fault = a.fault
  BY <1>2, <1>4 DEF RoomRecord
<1>. QED  BY <1>2, <1>5 DEF s

\* add_user touches the one member only, and never its disqualification unless
\* it is new.
LEMMA AdmitEffect ==
    ASSUME NEW r, Sound(r), NEW u \in User, NEW status \in Status
    PROVE  LET s == admit(r, u, status)
           IN  /\ s.status = [r.status EXCEPT ![u] = status]
               /\ s.disqualified = r.disqualified
               /\ s.owner = IF r.owner = NoOwner /\ u \notin members(r) THEN u ELSE r.owner
               /\ s.fault = r.fault
<1> DEFINE s == admit(r, u, status)
<1>1. r \in RoomRecord /\ {u} \in SUBSET User
  BY DEF Sound
<1>2. CASE u \in members(r)
  <2>1. s = guarded_status(r, {u}, status) /\ {u} \in SUBSET members(r)
    BY <1>2 DEF admit
  <2>2. /\ s.status = [v \in User |-> IF v \in {u} THEN status ELSE r.status[v]]
        /\ s.disqualified = r.disqualified
        /\ s.owner = r.owner
        /\ s.fault = r.fault
    BY <2>1, GuardedStatus DEF Sound, SameMembers
  <2>3. [v \in User |-> IF v \in {u} THEN status ELSE r.status[v]] = [r.status EXCEPT ![u] = status]
    BY <1>1 DEF RoomRecord
  <2>. QED  BY <1>2, <2>2, <2>3
<1>3. CASE u \notin members(r)
  <2> DEFINE b == insert_member(r, u, status)
             c == cached_add(b, {u})
  <2>1. /\ b \in RoomRecord
        /\ b.status = [r.status EXCEPT ![u] = status]
        /\ b.disqualified = [r.disqualified EXCEPT ![u] = FALSE]
        /\ b.owner = r.owner /\ b.fault = r.fault
    <3>1. members(r) \in SUBSET User
      BY DEF members
    <3>. QED  BY <1>1, <3>1 DEF insert_member, RoomRecord
  <2> HIDE DEF b
  <2>2. /\ c \in RoomRecord
        /\ c.status = b.status /\ c.disqualified = b.disqualified
        /\ c.owner = b.owner /\ c.fault = b.fault
    BY <1>1, <2>1, CachedAdd
  <2>3. s = [c EXCEPT !.owner = IF c.owner = NoOwner THEN u ELSE c.owner]
    BY <1>3 DEF admit, b
  <2> HIDE DEF c, s
  <2>4. s.status = c.status /\ s.disqualified = c.disqualified /\ s.fault = c.fault
        /\ s.owner = IF c.owner = NoOwner THEN u ELSE c.owner
    BY <2>2, <2>3 DEF RoomRecord
  <2>5. [r.disqualified EXCEPT ![u] = FALSE] = r.disqualified
    <3>1. r.disqualified \in [User -> BOOLEAN] /\ r.disqualified[u] = FALSE
      BY <1>1, <1>3 DEF RoomRecord, Sound, DisqualifiedAreMembers
    <3>. QED  BY <3>1
  <2>. QED  BY <1>3, <2>1, <2>2, <2>4, <2>5 DEF s
<1>. QED  BY <1>2, <1>3

\* The rest of _remove_user: promotions outside of games, in the order of the
\* waitlist, and the succession of an owner who has left.
LEMMA SettleEffect ==
    ASSUME NEW r, Sound(r), NEW u \in User, NEW s \in settle(r, u)
    PROVE  /\ s.disqualified = r.disqualified
           /\ s.joined_before = r.joined_before
           /\ s.game = r.game
           /\ s.game_started = r.game_started
           /\ s.fault = r.fault
           /\ r.game_started => s.status = r.status
           /\ \A v \in User : \/ s.status[v] = r.status[v]
                              \/ r.status[v] = PLAYER_WAITLIST /\ s.status[v] = PLAYER
           /\ \A v, w \in User : /\ is_waitlisted(r, v) /\ s.status[v] = PLAYER
                                 /\ is_waitlisted(r, w) /\ s.status[w] = PLAYER_WAITLIST
                                 => precedes(r, v, w)
           /\ s.owner # r.owner =>
                /\ r.owner = u
                /\ \A v \in members(r) \ {s.owner} : precedes(r, s.owner, v)
<1>1. PICK f \in flush_waitlist(r) : s \in shift_owner(f, u)
  BY DEF settle
<1>2. Sound(f) /\ SameMembers(r, f) /\ f.game_started = r.game_started
  BY FlushSound
<1>3. /\ f.disqualified = r.disqualified
      /\ f.joined_before = r.joined_before
      /\ f.fault = r.fault
      /\ r.game_started => f.status = r.status
      /\ \A v \in User : \/ f.status[v] = r.status[v]
                         \/ r.status[v] = PLAYER_WAITLIST /\ f.status[v] = PLAYER
      /\ \A v, w \in User : /\ is_waitlisted(r, v) /\ f.status[v] = PLAYER
                            /\ is_waitlisted(r, w) /\ f.status[w] = PLAYER_WAITLIST
                            => precedes(r, v, w)
  BY FlushEffect
<1>4. /\ s.status = f.status
      /\ s.disqualified = f.disqualified
      /\ s.joined_before = f.joined_before
      /\ s.game = f.game
      /\ s.game_started = f.game_started
      /\ s.fault = f.fault
      /\ s.owner # f.owner =>
           /\ f.owner = u
           /\ \A v \in members(f) \ {s.owner} : precedes(f, s.owner, v)
  BY <1>1, <1>2, ShiftOwnerEffect
<1>. QED  BY <1>2, <1>3, <1>4 DEF SameMembers, precedes

\* set_player_limit sends players to the waitlist and does nothing else.
LEMMA SetPlayerLimitEffect ==
    ASSUME NEW r, Sound(r), NEW limit \in Nat, NEW s \in set_player_limit(r, limit)
    PROVE  /\ s.joined_before = r.joined_before
           /\ \A v \in User : \/ s.status[v] = r.status[v]
                              \/ r.status[v] = PLAYER /\ s.status[v] = PLAYER_WAITLIST
<1>1. \/ s = r
      \/ s = undefined(r)
      \/ \E P \in SUBSET r.cached_players : s = guarded_status(r, P, PLAYER_WAITLIST)
  BY DEF set_player_limit, first
<1>2. r \in RoomRecord /\ Consistent(r)
  BY DEF Sound
<1>3. CASE s = r
  BY <1>3
<1>4. CASE s = undefined(r)
  BY <1>2, <1>4 DEF undefined, RoomRecord
<1>5. ASSUME NEW P \in SUBSET r.cached_players, s = guarded_status(r, P, PLAYER_WAITLIST)
      PROVE  /\ s.joined_before = r.joined_before
             /\ \A v \in User : \/ s.status[v] = r.status[v]
                                \/ r.status[v] = PLAYER /\ s.status[v] = PLAYER_WAITLIST
  <2>1. \A v \in P : v \in User /\ r.status[v] = PLAYER
    BY <1>2 DEF Consistent, is_player
  <2>2. P \in SUBSET members(r) /\ PLAYER_WAITLIST \in Status
    BY <2>1 DEF members, Status, PLAYER, ABSENT
  <2>3. /\ s.joined_before = r.joined_before
        /\ s.status = [v \in User |-> IF v \in P THEN PLAYER_WAITLIST ELSE r.status[v]]
    BY <1>5, <2>2, GuardedStatus DEF Sound
  <2>. QED  BY <2>1, <2>3
<1>. QED  BY <1>1, <1>3, <1>4, <1>5
=============================================================================
