------------------------ MODULE TlsTransportProofs --------------------------
(* Proofs about TlsTransport, for every size of the blocks, the RAM, the    *)
(* words, the nonce and the seeds.                                          *)
EXTENDS TlsTransport, SequenceTheorems, TLAPS

-----------------------------------------------------------------------------
(* What memcpy() does to the buffer.                                        *)

Bytes == Words \X (1 .. WordSize)

LEMMA ChunkType == ASSUME sz \in Nat PROVE chunk \in 0 .. WordSize /\ chunk <= sz
  BY TransportAssumption DEF chunk

LEMMA Appended ==
  ASSUME out \in Seq(Bytes), sz \in Nat, w' \in Words, memcpy
  PROVE  /\ out' \in Seq(Bytes) /\ sz' = sz - chunk
         /\ Len(out') = Len(out) + chunk
         /\ \A i \in 1 .. Len(out) : out'[i] = out[i]
         /\ \A i \in 1 .. chunk : out'[Len(out) + i] = <<w', i>>
<1> DEFINE piece == [i \in 1 .. chunk |-> <<w', i>>]
<1>1. chunk \in Nat /\ chunk <= WordSize /\ WordSize \in Nat
  BY ChunkType, TransportAssumption
<1>2. piece \in [1 .. chunk -> Bytes]
  <2> SUFFICES ASSUME NEW i \in 1 .. chunk PROVE <<w', i>> \in Bytes
    OBVIOUS
  <2> QED BY <1>1 DEF Bytes
<1>3. piece \in Seq(Bytes) /\ Len(piece) = chunk
  <2>1. piece \in Seq(Bytes)
    BY <1>1, <1>2, SeqDef
  <2> QED BY <1>1, <1>2, <2>1, LenProperties
<1>4. \A i \in 1 .. chunk : piece[i] = <<w', i>>
  OBVIOUS
<1>5. out' = out \o piece /\ sz' = sz - chunk
  BY DEF memcpy
<1>6. Len(out) \in Nat
  BY LenProperties
<1> HIDE DEF piece
<1>7. /\ out \o piece \in Seq(Bytes)
      /\ Len(out \o piece) = Len(out) + Len(piece)
      /\ \A i \in 1 .. Len(out) + Len(piece) :
           (out \o piece)[i] = IF i <= Len(out) THEN out[i] ELSE piece[i - Len(out)]
  BY <1>3, ConcatProperties
<1>8. \A i \in 1 .. Len(out) : out'[i] = out[i]
  BY <1>3, <1>5, <1>6, <1>7, <1>1
<1>9. ASSUME NEW i \in 1 .. chunk PROVE out'[Len(out) + i] = <<w', i>>
  <2>1. /\ Len(out) + i \in 1 .. Len(out) + Len(piece)
        /\ ~(Len(out) + i <= Len(out)) /\ (Len(out) + i) - Len(out) = i
    BY <1>1, <1>3, <1>6
  <2>2. out'[Len(out) + i] = piece[i]
    BY <1>5, <1>7, <2>1
  <2> QED BY <1>4, <2>2
<1> QED BY <1>3, <1>5, <1>7, <1>8, <1>9

-----------------------------------------------------------------------------
(* Types.                                                                   *)

LEMMA DrawType ==
  ASSUME TypeOK, sz > 0, w' \in Words, drawn' \in {drawn, drawn + 1}, memcpy
  PROVE  out' \in Seq(Bytes) /\ sz' \in Nat /\ drawn' \in Nat
<1>1. out \in Seq(Bytes) /\ sz \in Nat /\ drawn \in Nat
  BY DEF TypeOK, Bytes
<1>2. sz' = sz - chunk /\ chunk \in 0 .. WordSize /\ chunk <= sz /\ WordSize \in Nat
  BY <1>1, Appended, ChunkType, TransportAssumption
<1> QED BY <1>1, <1>2, Appended

LEMMA BeginType ==
  ASSUME NEW n \in Nat, Begin(n)
  PROVE  w' \in Words /\ out' \in Seq(Bytes) /\ sz' \in Nat /\ drawn' \in Nat
  BY EmptySeq DEF Begin

(* The heap's operations, given that what is freed is in use. *)
LEMMA HeapOperations ==
  ASSUME HeapTypeOK, NEW k \in Kinds
  PROVE  /\ malloc(k) \/ borrow(k) \/ no_memory(k) => HeapTypeOK'
         /\ free(k) /\ live[k] > 0 => HeapTypeOK'
<1>1. heap_end \in Nat /\ Size[k] \in Nat /\ heap_end + Size[k] \in Nat
  BY HeapAssumption DEF HeapTypeOK, heap_end
<1>2. ASSUME NEW f \in [Kinds -> Nat], NEW n \in Nat PROVE [f EXCEPT ![k] = n] \in [Kinds -> Nat]
  OBVIOUS
<1>3. /\ live[k] \in Nat /\ freed[k] \in Nat
      /\ [live EXCEPT ![k] = live[k] + 1] \in [Kinds -> Nat]
      /\ [freed EXCEPT ![k] = freed[k] + 1] \in [Kinds -> Nat]
      /\ live[k] > 0 => [live EXCEPT ![k] = live[k] - 1] \in [Kinds -> Nat]
      /\ freed[k] > 0 => [freed EXCEPT ![k] = freed[k] - 1] \in [Kinds -> Nat]
  BY DEF HeapTypeOK
<1>4. malloc(k) => HeapTypeOK'
  BY <1>1, <1>3 DEF malloc, HeapTypeOK
<1>5. borrow(k) => HeapTypeOK'
  BY <1>1, <1>3 DEF borrow, HeapTypeOK, heapVars
<1>6. no_memory(k) => HeapTypeOK'
  BY <1>1 DEF no_memory, HeapTypeOK
<1>7. free(k) /\ live[k] > 0 => HeapTypeOK'
  BY <1>1, <1>3 DEF free, HeapTypeOK
<1> QED BY <1>4, <1>5, <1>6, <1>7

-----------------------------------------------------------------------------
(* The inductive invariant.                                                 *)

(* The context and the session are complete or there is none. *)
SessionInv ==
  /\ call = "boot" => s_ctx = None
  /\ s_ctx # None => s_ctx = Settings /\ usable.ca /\ usable.suite
  /\ s_ctx = None => s_ssl = None /\ call # "seed"
  /\ s_ssl # None => call # "seed" /\ s_ssl = Settings \cup {"sn"}

(* The heap has grown by the blocks that were ever in use at one time. *)
Count(k) == live[k] + freed[k]
Held(k) == Count(k) * Size[k]
HeapInv ==
  /\ HeapSteady /\ OutOfStack
  /\ heap_end = RamStart + Held("ctx") + Held("ssl") + Held("aes")

(* A word that was drawn for this nonce is in it, and not in an earlier one. *)
NonceInv ==
  call = "nonce" /\ drawn > 0 =>
    w \in WordsOf(out) /\ (kept # None => w \notin WordsOf(kept))

IInv == TypeOK /\ SessionInv /\ HeapInv /\ SeedGenuine /\ NonceInv

-----------------------------------------------------------------------------
(* The context and the session.                                             *)

LEMMA SessionKept == SessionInv /\ Next => SessionInv'
<1> SUFFICES ASSUME SessionInv, Next PROVE SessionInv'
  OBVIOUS
<1> USE TransportAssumption DEF SessionInv, tlsVars, rngVars, Overwrite
<1>1. CASE MQTT_TLS_NewContext
  BY <1>1 DEF MQTT_TLS_NewContext, ContextNoMemory, ContextRejected, NewContext
<1>2. CASE MQTT_TLS_NewSession
  BY <1>2 DEF MQTT_TLS_NewSession, SessionNoMemory, wolfSSL_new, SeedInit,
              SeedInitFails, SeedWord, SeedFails, SessionReady, GiveUp
<1>3. CASE wolfSSL_free
  BY <1>3 DEF wolfSSL_free
<1>4. CASE encrypt_packet
  BY <1>4 DEF encrypt_packet, Encrypt, generate_nonce, EncryptNoMemory, Encrypted
<1>5. CASE Generator
  BY <1>5 DEF Generator
<1> QED BY <1>1, <1>2, <1>3, <1>4, <1>5 DEF Next

-----------------------------------------------------------------------------
(* The seed: words that are new each time do not repeat a byte.             *)

LEMMA SeedKept == TypeOK /\ SeedGenuine /\ Next => SeedGenuine'
<1> SUFFICES ASSUME TypeOK, SeedGenuine, Next, call' = "seed" PROVE SeedGenuine'
  BY DEF SeedGenuine
<1>1. CASE wolfSSL_new
  <2>1. PICK n \in SeedSizes : Begin(n)
    BY <1>1 DEF wolfSSL_new
  <2>2. n \in Nat /\ WordSize \in Nat
    BY TransportAssumption
  <2> QED BY <2>1, <2>2 DEF Begin, SeedGenuine
<1>2. CASE SeedWord
  <2>1. /\ call = "seed" /\ out \in Seq(Bytes) /\ sz \in Nat /\ drawn \in Nat /\ memcpy
        /\ w' \in Words /\ w' \notin WordsOf(out) /\ drawn' = drawn + 1
    BY <1>2 DEF SeedWord, Draws, New, TypeOK, Bytes
  <2>2. /\ chunk \in 0 .. WordSize /\ WordSize \in Nat /\ sz' = sz - chunk
        /\ Len(out) \in Nat /\ Len(out') = Len(out) + chunk
        /\ DOMAIN out = 1 .. Len(out)
    BY <2>1, Appended, ChunkType, TransportAssumption, LenProperties
  <2>3. Len(out') + sz' \in SeedSizes
    BY <2>1, <2>2 DEF SeedGenuine
  <2>4. Len(out') <= drawn' * WordSize
    <3>1. Len(out) <= drawn * WordSize
      BY <2>1 DEF SeedGenuine
    <3>2. drawn' * WordSize = drawn * WordSize + WordSize /\ drawn * WordSize \in Nat
      BY <2>1, <2>2
    <3> QED BY <3>1, <3>2, <2>2
  <2>5. ASSUME NEW i \in 1 .. Len(out'), NEW j \in 1 .. Len(out'), i < j
        PROVE  out'[i] # out'[j]
    <3>1. CASE j <= Len(out)
      BY <2>1, <2>2, <2>5, <3>1, Appended DEF SeedGenuine
    <3>2. CASE j > Len(out)
      <4>1. j - Len(out) \in 1 .. chunk /\ j = Len(out) + (j - Len(out))
        BY <2>2, <3>2
      <4>2. out'[j] = <<w', j - Len(out)>>
        BY <2>1, <4>1, Appended
      <4>3. CASE i <= Len(out)
        <5>1. i \in 1 .. Len(out) /\ out'[i] = out[i]
          BY <2>1, <2>2, <4>3, Appended
        <5>2. out[i][1] \in WordsOf(out)
          BY <2>2, <5>1 DEF WordsOf
        <5> QED BY <2>1, <4>2, <5>1, <5>2
      <4>4. CASE i > Len(out)
        <5>1. i - Len(out) \in 1 .. chunk /\ i = Len(out) + (i - Len(out))
          BY <2>2, <4>4
        <5>2. out'[i] = <<w', i - Len(out)>>
          BY <2>1, <5>1, Appended
        <5>3. i - Len(out) # j - Len(out)
          BY <2>2, <2>5
        <5> QED BY <4>2, <5>2, <5>3
      <4> QED BY <2>2, <4>3, <4>4
    <3> QED BY <2>2, <3>1, <3>2
  <2>6. \A i, j \in 1 .. Len(out') : i # j => out'[i] # out'[j]
    <3> SUFFICES ASSUME NEW i \in 1 .. Len(out'), NEW j \in 1 .. Len(out'), i # j
                 PROVE  out'[i] # out'[j]
      OBVIOUS
    <3>1. i < j \/ j < i
      OBVIOUS
    <3> QED BY <2>5, <3>1
  <2> QED BY <2>3, <2>4, <2>6 DEF SeedGenuine
<1>3. CASE UNCHANGED <<call, drawVars>>
  BY <1>3 DEF SeedGenuine, drawVars
<1>4. ~wolfSSL_new /\ ~SeedWord => UNCHANGED <<call, drawVars>>
  BY DEF Next, MQTT_TLS_NewContext, ContextNoMemory, ContextRejected, NewContext,
         MQTT_TLS_NewSession, SessionNoMemory, SeedInit, SeedInitFails, SeedFails,
         SessionReady, GiveUp, wolfSSL_free, encrypt_packet, Encrypt,
         generate_nonce, EncryptNoMemory, Encrypted, Generator
<1> QED BY <1>1, <1>2, <1>3, <1>4

-----------------------------------------------------------------------------
(* The nonce: one new word makes it another.                                *)

LEMMA NonceKept == TypeOK /\ NonceInv /\ Next => NonceInv'
<1> SUFFICES ASSUME TypeOK, NonceInv, Next, call' = "nonce", drawn' > 0
             PROVE  w' \in WordsOf(out') /\ (kept' # None => w' \notin WordsOf(kept'))
  BY DEF NonceInv
<1>1. CASE Encrypt
  BY <1>1 DEF Encrypt, Begin
<1>2. CASE generate_nonce
  <2>1. /\ call = "nonce" /\ sz > 0 /\ memcpy /\ kept' = kept
        /\ out \in Seq(Bytes) /\ sz \in Nat /\ drawn \in Nat /\ w' \in Words
    BY <1>2 DEF generate_nonce, Draws, TypeOK, Bytes
  <2>2. /\ chunk \in Nat /\ chunk >= 1
    BY <2>1, TransportAssumption DEF chunk
  <2>3. /\ out' \in Seq(Bytes) /\ Len(out) \in Nat /\ Len(out') = Len(out) + chunk
        /\ out'[Len(out) + 1] = <<w', 1>>
    BY <2>1, <2>2, Appended, LenProperties
  <2>4. Len(out) + 1 \in DOMAIN out'
    BY <2>2, <2>3, LenProperties
  <2>5. w' \in WordsOf(out')
    BY <2>3, <2>4 DEF WordsOf
  <2>6. CASE Draws(hrng)
    BY <2>1, <2>5, <2>6 DEF Draws, New
  <2>7. CASE UNCHANGED <<w, drawn>>
    BY <2>1, <2>5, <2>7 DEF NonceInv
  <2> QED BY <1>2, <2>6, <2>7 DEF generate_nonce
<1>3. CASE UNCHANGED <<call, drawVars, kept>>
  BY <1>3 DEF NonceInv, drawVars
<1>4. ~Encrypt /\ ~generate_nonce => UNCHANGED <<call, drawVars, kept>>
  BY DEF Next, MQTT_TLS_NewContext, ContextNoMemory, ContextRejected, NewContext,
         MQTT_TLS_NewSession, SessionNoMemory, wolfSSL_new, SeedInit, SeedInitFails,
         SeedWord, SeedFails, SessionReady, GiveUp, wolfSSL_free, encrypt_packet,
         EncryptNoMemory, Encrypted, Generator
<1> QED BY <1>1, <1>2, <1>3, <1>4

-----------------------------------------------------------------------------
(* The heap.                                                                *)

LEMMA Products ==
  ASSUME NEW n \in Nat, NEW m \in Nat, NEW c \in Nat
  PROVE  /\ n * c \in Nat /\ (n + 1) * c = n * c + c /\ 0 * c = 0 /\ 1 * c = c
         /\ n <= m => n * c <= m * c
<1>1. ASSUME n <= m PROVE n * c <= m * c
  <2>1. PICK d \in Nat : m = n + d
    <3>1. m - n \in Nat /\ m = n + (m - n)
      BY <1>1
    <3> QED BY <3>1
  <2>2. m * c = n * c + d * c /\ d * c \in Nat /\ n * c \in Nat
    BY <2>1
  <2> QED BY <2>2
<1> QED BY <1>1

(* Sums of counts, and one more block of a kind.                             *)
LEMMA Sums ==
  /\ \A n, m \in Nat : n + m \in Nat
  /\ \A n, c \in Nat : (n + 1) * c = n * c + c
  OBVIOUS

(* What the parts say of the three kinds. *)
LEMMA HeapFacts ==
  ASSUME TypeOK
  PROVE  /\ "ctx" \in Kinds /\ "ssl" \in Kinds /\ "aes" \in Kinds
         /\ \A k \in Kinds : /\ live[k] \in Nat /\ freed[k] \in Nat /\ Count(k) \in Nat
                             /\ Size[k] \in Nat \ {0} /\ Held(k) \in Nat
         /\ max_heap \in Nat /\ RamStart \in Nat \ {0} /\ RamStart <= max_heap
         /\ __sbrk_heap_end \in Nat /\ heap_end \in Nat /\ leaked \in Nat
         /\ OutOfStack => heap_end <= max_heap
<1>1. "ctx" \in Kinds /\ "ssl" \in Kinds /\ "aes" \in Kinds
  BY TransportAssumption
<1>2. \A k \in Kinds : live[k] \in Nat /\ freed[k] \in Nat /\ Size[k] \in Nat \ {0}
  BY HeapAssumption DEF TypeOK, HeapTypeOK
<1>3. \A k \in Kinds : Count(k) \in Nat /\ Held(k) \in Nat
  BY <1>2, Products DEF Count, Held
<1>4. max_heap \in Nat /\ RamStart \in Nat \ {0} /\ RamStart <= max_heap
  BY HeapAssumption DEF TypeOK, HeapTypeOK
<1>5. __sbrk_heap_end \in Nat /\ heap_end \in Nat /\ leaked \in Nat
  BY <1>4 DEF TypeOK, HeapTypeOK, heap_end
<1>6. OutOfStack => heap_end <= max_heap
  BY <1>4 DEF heap_end, OutOfStack
<1> QED BY <1>1, <1>2, <1>3, <1>4, <1>5, <1>6

(* Every call of the heap keeps the account of its kind. *)
Account(k) ==
  /\ max_heap' = max_heap
  /\ \A j \in Kinds \ {k} : live'[j] = live[j] /\ freed'[j] = freed[j]
  /\ heap_end' = heap_end + Held(k)' - Held(k)
  /\ heap_end' <= max_heap /\ __sbrk_heap_end' <= heap_end'

(* A block from the free list leaves the heap as it is, and another makes   *)
(* it longer by its size.                                                   *)
LEMMA TakeAccount ==
  ASSUME TypeOK, HeapInv, NEW k \in Kinds, NEW l \in Nat, NEW f \in Nat,
         live' = [live EXCEPT ![k] = l], freed' = [freed EXCEPT ![k] = f],
         max_heap' = max_heap,
         \/ __sbrk_heap_end' = __sbrk_heap_end /\ l + f = Count(k)
         \/ __sbrk_heap_end' = heap_end /\ l + f = Count(k)
         \/ /\ __sbrk_heap_end' = heap_end + Size[k] /\ l + f = Count(k) + 1
            /\ ~sbrk_fails(Size[k])
  PROVE  Account(k) /\ live'[k] = l /\ freed'[k] = f
<1>1. live'[k] = l /\ freed'[k] = f /\ Count(k)' = l + f
  BY DEF TypeOK, HeapTypeOK, Count
<1>2. \A j \in Kinds \ {k} : live'[j] = live[j] /\ freed'[j] = freed[j]
  BY DEF TypeOK, HeapTypeOK
<1>3. /\ Count(k) \in Nat /\ Size[k] \in Nat \ {0} /\ heap_end \in Nat
      /\ RamStart \in Nat \ {0} /\ max_heap \in Nat /\ __sbrk_heap_end \in Nat
      /\ heap_end <= max_heap /\ Held(k) \in Nat
  BY HeapFacts DEF HeapInv
<1>4. CASE __sbrk_heap_end' \in {__sbrk_heap_end, heap_end} /\ l + f = Count(k)
  <2>1. Held(k)' = Held(k)
    BY <1>1, <1>4 DEF Held
  <2>2. heap_end' = heap_end /\ __sbrk_heap_end' <= heap_end'
    BY <1>3, <1>4 DEF heap_end
  <2> QED BY <1>1, <1>2, <1>3, <2>1, <2>2 DEF Account
<1>5. CASE /\ __sbrk_heap_end' = heap_end + Size[k] /\ l + f = Count(k) + 1
           /\ ~sbrk_fails(Size[k])
  <2>1. Held(k)' = Held(k) + Size[k]
    <3>1. Held(k)' = (Count(k) + 1) * Size[k]
      BY <1>1, <1>5 DEF Held
    <3>2. (Count(k) + 1) * Size[k] = Count(k) * Size[k] + Size[k]
      BY <1>3, Sums
    <3> QED BY <3>1, <3>2 DEF Held
  <2>2. heap_end' = heap_end + Size[k] /\ __sbrk_heap_end' = heap_end'
    BY <1>3, <1>5 DEF heap_end
  <2>3. heap_end + Size[k] <= max_heap
    BY <1>3, <1>5 DEF sbrk_fails
  <2> QED BY <1>1, <1>2, <1>3, <2>1, <2>2, <2>3 DEF Account
<1> QED BY <1>4, <1>5

LEMMA MallocAccount ==
  ASSUME TypeOK, HeapInv, NEW k \in Kinds, malloc(k)
  PROVE  /\ Account(k) /\ live'[k] = live[k] + 1
         /\ live'[k] + freed'[k] = IF freed[k] > 0 THEN Count(k) ELSE live[k] + 1
<1>1. /\ live[k] \in Nat /\ freed[k] \in Nat /\ live' = [live EXCEPT ![k] = live[k] + 1]
      /\ ~malloc_fails(k)
  BY HeapFacts DEF malloc
<1>2. CASE freed[k] > 0
  <2>1. freed' = [freed EXCEPT ![k] = freed[k] - 1] /\ UNCHANGED <<max_heap, __sbrk_heap_end>>
    BY <1>2 DEF malloc
  <2>2. /\ live[k] + 1 \in Nat /\ freed[k] - 1 \in Nat
        /\ (live[k] + 1) + (freed[k] - 1) = Count(k)
    BY <1>1, <1>2 DEF Count
  <2>3. Account(k) /\ live'[k] = live[k] + 1 /\ freed'[k] = freed[k] - 1
    BY <1>1, <2>1, <2>2, TakeAccount
  <2> QED BY <1>2, <2>2, <2>3
<1>3. CASE freed[k] = 0
  <2>1. /\ freed' = [freed EXCEPT ![k] = 0] /\ max_heap' = max_heap
        /\ __sbrk_heap_end' = heap_end + Size[k] /\ ~sbrk_fails(Size[k])
    BY <1>1, <1>3 DEF malloc, malloc_fails, TypeOK, HeapTypeOK
  <2>2. live[k] + 1 \in Nat /\ 0 \in Nat /\ (live[k] + 1) + 0 = Count(k) + 1
    BY <1>1, <1>3 DEF Count
  <2>3. Account(k) /\ live'[k] = live[k] + 1 /\ freed'[k] = 0
    BY <1>1, <2>1, <2>2, TakeAccount
  <2> QED BY <1>1, <1>3, <2>3
<1> QED BY <1>1, <1>2, <1>3

LEMMA FreeAccount ==
  ASSUME TypeOK, HeapInv, NEW k \in Kinds, free(k), live[k] > 0
  PROVE  /\ Account(k) /\ live'[k] = live[k] - 1
         /\ live'[k] + freed'[k] = Count(k)
<1>1. live[k] \in Nat /\ freed[k] \in Nat
  BY HeapFacts
<1>2. /\ live[k] - 1 \in Nat /\ freed[k] + 1 \in Nat
      /\ (live[k] - 1) + (freed[k] + 1) = Count(k)
  BY <1>1 DEF Count
<1>3. Account(k) /\ live'[k] = live[k] - 1 /\ freed'[k] = freed[k] + 1
  BY <1>2, TakeAccount DEF free
<1> QED BY <1>2, <1>3

LEMMA BorrowAccount ==
  ASSUME TypeOK, HeapInv, NEW k \in Kinds, borrow(k)
  PROVE  /\ Account(k) /\ live'[k] = live[k]
         /\ live'[k] + freed'[k] = IF freed[k] > 0 THEN Count(k) ELSE live[k] + 1
<1>1. live[k] \in Nat /\ freed[k] \in Nat /\ live = [live EXCEPT ![k] = live[k]]
  BY HeapFacts DEF TypeOK, HeapTypeOK
<1>2. CASE freed[k] > 0
  <2>1. /\ freed' = [freed EXCEPT ![k] = freed[k]] /\ live' = [live EXCEPT ![k] = live[k]]
        /\ UNCHANGED <<max_heap, __sbrk_heap_end>>
    BY <1>1, <1>2 DEF borrow, heapVars, TypeOK, HeapTypeOK
  <2>2. Account(k) /\ live'[k] = live[k] /\ freed'[k] = freed[k]
    BY <1>1, <2>1, TakeAccount DEF Count
  <2> QED BY <1>2, <2>2 DEF Count
<1>3. CASE freed[k] = 0
  <2>1. /\ freed' = [freed EXCEPT ![k] = 1] /\ live' = [live EXCEPT ![k] = live[k]]
        /\ max_heap' = max_heap
        /\ __sbrk_heap_end' = heap_end + Size[k] /\ ~sbrk_fails(Size[k])
    BY <1>1, <1>3 DEF borrow, malloc_fails
  <2>2. 1 \in Nat /\ live[k] + 1 = Count(k) + 1
    BY <1>1, <1>3 DEF Count
  <2>3. Account(k) /\ live'[k] = live[k] /\ freed'[k] = 1
    BY <1>1, <2>1, <2>2, TakeAccount
  <2> QED BY <1>1, <1>3, <2>3
<1> QED BY <1>1, <1>2, <1>3

LEMMA NoMemoryAccount ==
  ASSUME TypeOK, HeapInv, NEW k \in Kinds, no_memory(k)
  PROVE  Account(k) /\ live'[k] = live[k] /\ live'[k] + freed'[k] = Count(k)
<1>1. live[k] \in Nat /\ freed[k] \in Nat
  BY HeapFacts
<1>2. live' = [live EXCEPT ![k] = live[k]] /\ freed' = [freed EXCEPT ![k] = freed[k]]
  BY DEF no_memory, TypeOK, HeapTypeOK
<1>3. Account(k) /\ live'[k] = live[k] /\ freed'[k] = freed[k]
  BY <1>1, <1>2, TakeAccount DEF no_memory, Count
<1> QED BY <1>3 DEF Count

(* A count of leaked sessions stays one. *)
LEMMA Lost == ASSUME TypeOK' PROVE leaked' \in Nat /\ leaked' + 1 \in Nat
<1>1. leaked' \in Nat
  BY DEF TypeOK
<1> QED BY <1>1, Sums

(* The numbers of blocks, by their owners. *)
Owned ==
  /\ live["ctx"] = (IF s_ctx = None THEN 0 ELSE 1)
  /\ live["ssl"] = leaked + (IF s_ssl = None /\ call # "seed" THEN 0 ELSE 1)
  /\ live["aes"] = 0
  /\ Count("ctx") <= 1 /\ Count("ssl") <= leaked + 1 /\ Count("aes") <= 1

LEMMA OwnedFacts == ASSUME TypeOK PROVE HeapSteady <=> Owned /\ __sbrk_heap_end <= Blocks
<1>1. live["aes"] = 0 => Count("aes") = freed["aes"]
  BY HeapFacts DEF Count
<1> QED BY <1>1 DEF HeapSteady, Owned, Count

(* A call for one kind keeps the invariant when the block has its owner. *)
LEMMA AccountHolds ==
  ASSUME TypeOK, TypeOK', HeapInv, NEW k \in Kinds, Account(k), Owned'
  PROVE  HeapInv'
<1>1. \A j \in Kinds \ {k} : Held(j)' = Held(j)
  BY DEF Account, Held, Count
<1>2. \A j \in Kinds : Held(j)' \in Nat /\ Held(j) \in Nat /\ Count(j)' \in Nat /\ Size[j] \in Nat
  <2> SUFFICES ASSUME NEW j \in Kinds
      PROVE  Held(j)' \in Nat /\ Held(j) \in Nat /\ Count(j)' \in Nat /\ Size[j] \in Nat
    OBVIOUS
  <2>1. Held(j) \in Nat /\ Size[j] \in Nat
    BY HeapFacts
  <2>2. live'[j] + freed'[j] \in Nat
    <3>1. live'[j] \in Nat /\ freed'[j] \in Nat
      BY DEF TypeOK, HeapTypeOK
    <3> QED BY <3>1, Sums
  <2>3. Count(j)' \in Nat /\ Held(j)' = Count(j)' * Size[j]
    BY <2>2 DEF Count, Held
  <2> QED BY <2>1, <2>3, Products
<1>3. heap_end' = RamStart + Held("ctx")' + Held("ssl")' + Held("aes")'
  <2>1. heap_end' = heap_end + Held(k)' - Held(k)
    BY DEF Account
  <2>2. k = "ctx" \/ k = "ssl" \/ k = "aes"
    BY TransportAssumption
  <2>3. heap_end = RamStart + Held("ctx") + Held("ssl") + Held("aes")
    BY DEF HeapInv
  <2> QED BY <1>1, <1>2, <2>1, <2>2, <2>3, HeapFacts
<1>4. /\ Held("ctx")' <= Size["ctx"] /\ Held("aes")' <= Size["aes"]
      /\ Held("ssl")' <= (leaked' + 1) * Size["ssl"] /\ (leaked' + 1) * Size["ssl"] \in Nat
  <2>1. leaked' + 1 \in Nat
    BY Lost
  <2> QED BY <1>2, <2>1, HeapFacts, Products DEF Owned, Held
<1>5. __sbrk_heap_end' <= heap_end' /\ heap_end' <= max_heap /\ max_heap' = max_heap
  BY DEF Account
<1>6. __sbrk_heap_end' \in Nat /\ heap_end' \in Nat /\ max_heap \in Nat
  <2>1. __sbrk_heap_end' \in Nat
    BY DEF TypeOK, HeapTypeOK
  <2> QED BY <2>1, HeapFacts DEF heap_end
<1>7. __sbrk_heap_end' <= Blocks'
  <2>1. Blocks' = RamStart + Size["ctx"] + Size["aes"] + (leaked' + 1) * Size["ssl"]
    BY DEF Blocks
  <2> QED BY <1>2, <1>3, <1>4, <1>5, <1>6, <2>1, HeapFacts
<1>8. HeapSteady'
  <2>1. Count("aes")' = freed'["aes"]
    BY HeapFacts DEF Owned, Count, TypeOK, HeapTypeOK
  <2> QED BY <1>7, <2>1 DEF HeapSteady, Owned, Count
<1>9. OutOfStack'
  BY <1>5, <1>6 DEF OutOfStack
<1> QED BY <1>3, <1>8, <1>9 DEF HeapInv

LEMMA HeapKept == TypeOK /\ TypeOK' /\ SessionInv /\ HeapInv /\ Next => HeapInv'
<1> SUFFICES ASSUME TypeOK, TypeOK', SessionInv, HeapInv, Next PROVE HeapInv'
  OBVIOUS
<1>0. /\ "ctx" \in Kinds /\ "ssl" \in Kinds /\ "aes" \in Kinds /\ Owned
      /\ leaked \in Nat
      /\ \A k \in Kinds : live[k] \in Nat /\ freed[k] \in Nat
  BY HeapFacts, OwnedFacts DEF HeapInv
<1> DEFINE Same(j) == live'[j] = live[j] /\ freed'[j] = freed[j]
<1>a. ASSUME NEW k \in Kinds, Account(k) PROVE \A j \in Kinds \ {k} : Same(j)
  BY <1>a DEF Account
<1>1. CASE MQTT_TLS_NewContext
  <2>1. /\ call = "boot" /\ call' = "idle" /\ s_ctx = None /\ s_ssl = None
        /\ s_ssl' = s_ssl /\ leaked' = leaked
    BY <1>1 DEF MQTT_TLS_NewContext, ContextNoMemory, ContextRejected, NewContext,
                tlsVars, SessionInv
  <2>2. Account("ctx")
    BY <1>0, <1>1, NoMemoryAccount, BorrowAccount, MallocAccount
       DEF MQTT_TLS_NewContext, ContextNoMemory, ContextRejected, NewContext
  <2>3. CASE ContextNoMemory
    BY <1>0, <1>a, <2>1, <2>2, <2>3, NoMemoryAccount, AccountHolds
       DEF ContextNoMemory, tlsVars, Owned, Count
  <2>4. CASE ContextRejected
    BY <1>0, <1>a, <2>1, <2>2, <2>4, BorrowAccount, AccountHolds
       DEF ContextRejected, tlsVars, Owned, Count
  <2>5. CASE NewContext
    <3>1. s_ctx' # None
      BY <2>5, TransportAssumption DEF NewContext
    <3> QED BY <1>0, <1>a, <2>1, <2>2, <2>5, <3>1, MallocAccount, AccountHolds
            DEF NewContext, Owned, Count
  <2> QED BY <1>1, <2>3, <2>4, <2>5 DEF MQTT_TLS_NewContext
<1>2. CASE SessionNoMemory
  <2>1. Account("ssl")
    BY <1>0, <1>2, NoMemoryAccount DEF SessionNoMemory
  <2> QED BY <1>0, <1>a, <1>2, <2>1, NoMemoryAccount, AccountHolds
          DEF SessionNoMemory, Overwrite, Owned, Count
<1>3. CASE wolfSSL_new
  <2>1. Account("ssl")
    BY <1>0, <1>3, MallocAccount DEF wolfSSL_new
  <2>2. call = "idle" /\ call' = "seed" /\ s_ctx' = s_ctx
    BY <1>3 DEF wolfSSL_new, Overwrite
  <2>3. /\ live'["ssl"] = live["ssl"] + 1
        /\ live'["ssl"] + freed'["ssl"]
             = IF freed["ssl"] > 0 THEN live["ssl"] + freed["ssl"] ELSE live["ssl"] + 1
    BY <1>0, <1>3, MallocAccount DEF wolfSSL_new, Count
  <2>4. leaked' = live["ssl"] /\ leaked' >= leaked
    BY <1>0, <1>3, <2>2 DEF wolfSSL_new, Overwrite, Owned
  <2>5. live'["ssl"] = leaked' + 1 /\ live'["ssl"] + freed'["ssl"] <= leaked' + 1
    BY <1>0, <2>3, <2>4 DEF Owned, Count
  <2>6. Owned'
    BY <1>0, <1>a, <2>1, <2>2, <2>5 DEF Owned, Count
  <2> QED BY <1>0, <2>1, <2>6, AccountHolds
<1>4. CASE SeedInitFails \/ SeedFails
  <2>1. GiveUp /\ s_ssl = None
    BY <1>4 DEF SeedInitFails, SeedFails, GiveUp, SessionInv
  <2>2. live["ssl"] = leaked + 1
    BY <1>0, <2>1 DEF GiveUp, Owned
  <2>3. Account("ssl")
    BY <1>0, <2>1, <2>2, FreeAccount DEF GiveUp
  <2>4. /\ live'["ssl"] = live["ssl"] - 1
        /\ live'["ssl"] + freed'["ssl"] = live["ssl"] + freed["ssl"]
    BY <1>0, <2>1, <2>2, FreeAccount DEF GiveUp, Count
  <2>5. Owned'
    BY <1>0, <1>a, <2>1, <2>2, <2>3, <2>4 DEF GiveUp, tlsVars, Owned, Count
  <2> QED BY <1>0, <2>3, <2>5, AccountHolds
<1>5. CASE wolfSSL_free
  <2>1. live["ssl"] = leaked + 1
    BY <1>0, <1>5 DEF wolfSSL_free, Owned
  <2>2. Account("ssl")
    BY <1>0, <1>5, <2>1, FreeAccount DEF wolfSSL_free
  <2>3. /\ live'["ssl"] = live["ssl"] - 1
        /\ live'["ssl"] + freed'["ssl"] = live["ssl"] + freed["ssl"]
    BY <1>0, <1>5, <2>1, FreeAccount DEF wolfSSL_free, Count
  <2>4. Owned'
    BY <1>0, <1>a, <1>5, <2>1, <2>2, <2>3 DEF wolfSSL_free, Owned, Count
  <2> QED BY <1>0, <2>2, <2>4, AccountHolds
<1>6. CASE EncryptNoMemory
  <2>1. Account("aes")
    BY <1>0, <1>6, NoMemoryAccount DEF EncryptNoMemory
  <2> QED BY <1>0, <1>a, <1>6, <2>1, NoMemoryAccount, AccountHolds
          DEF EncryptNoMemory, tlsVars, Owned, Count
<1>7. CASE Encrypted
  <2>1. Account("aes")
    BY <1>0, <1>7, BorrowAccount DEF Encrypted
  <2> QED BY <1>0, <1>a, <1>7, <2>1, BorrowAccount, AccountHolds
          DEF Encrypted, tlsVars, Owned, Count
<1>8. ASSUME UNCHANGED <<heapVars, s_ctx, leaked>>,
             (s_ssl' = None /\ call' # "seed") <=> (s_ssl = None /\ call # "seed")
      PROVE  HeapInv'
  BY <1>8 DEF HeapInv, HeapSteady, OutOfStack, Blocks, Held, Count, heap_end, heapVars
<1>9. CASE SessionReady
  <2>1. s_ssl' # None
    BY <1>9, TransportAssumption DEF SessionReady, SessionInv
  <2> QED BY <1>8, <1>9, <2>1 DEF SessionReady
<1>10. CASE SeedInit \/ SeedWord \/ Encrypt \/ generate_nonce \/ Generator
  BY <1>8, <1>10 DEF SeedInit, SeedWord, Encrypt, generate_nonce, Generator, tlsVars
<1> QED BY <1>1, <1>2, <1>3, <1>4, <1>5, <1>6, <1>7, <1>9, <1>10
        DEF Next, MQTT_TLS_NewSession, encrypt_packet

-----------------------------------------------------------------------------
(* Types, again: every step. *)
LEMMA TypeKept == TypeOK /\ SessionInv /\ HeapInv /\ Next => TypeOK'
<1> SUFFICES ASSUME TypeOK, SessionInv, HeapInv, Next PROVE TypeOK'
  OBVIOUS
<1> DEFINE DrawTypes == /\ w' \in Words /\ out' \in Seq(Bytes) /\ sz' \in Nat
                        /\ drawn' \in Nat
           KeptType == kept' = None \/ kept' \in Seq(Bytes)
           TlsTypes == /\ s_ctx' = None \/ s_ctx' \subseteq Settings
                       /\ s_ssl' = None \/ s_ssl' \subseteq Settings \cup {"sn"}
                       /\ leaked' \in Nat /\ usable' \in [ca : BOOLEAN, suite : BOOLEAN]
                       /\ call' \in {"boot", "idle", "seed", "nonce"}
           RngTypes == /\ rng' \in {"good", "late", "latched"}
                       /\ hrng' \in BOOLEAN /\ s_mqtt_hrng' \in BOOLEAN
                       /\ s_mqtt_hrng_ready' \in BOOLEAN
<1>1. HeapTypeOK'
  <2>1. /\ "ctx" \in Kinds /\ "ssl" \in Kinds /\ "aes" \in Kinds /\ HeapTypeOK
    BY HeapFacts DEF TypeOK
  <2>2. call = "seed" => live["ssl"] > 0
    BY HeapFacts DEF HeapInv, HeapSteady
  <2>3. s_ssl # None => live["ssl"] > 0
    BY HeapFacts DEF HeapInv, HeapSteady
  <2>4. CASE MQTT_TLS_NewContext
    BY <2>1, <2>4, HeapOperations
       DEF MQTT_TLS_NewContext, ContextNoMemory, ContextRejected, NewContext
  <2>5. CASE SessionNoMemory \/ wolfSSL_new
    BY <2>1, <2>5, HeapOperations DEF SessionNoMemory, wolfSSL_new
  <2>6. CASE SeedInitFails \/ SeedFails \/ wolfSSL_free
    BY <2>1, <2>2, <2>3, <2>6, HeapOperations
       DEF SeedInitFails, SeedFails, GiveUp, wolfSSL_free
  <2>7. CASE EncryptNoMemory \/ Encrypted
    BY <2>1, <2>7, HeapOperations DEF EncryptNoMemory, Encrypted
  <2>8. CASE UNCHANGED heapVars
    BY <2>1, <2>8 DEF HeapTypeOK, heapVars
  <2>9. SeedInit \/ SeedWord \/ SessionReady \/ Encrypt \/ generate_nonce \/ Generator
          => UNCHANGED heapVars
    BY DEF SeedInit, SeedWord, SessionReady, Encrypt, generate_nonce, Generator
  <2> QED BY <2>4, <2>5, <2>6, <2>7, <2>8, <2>9
          DEF Next, MQTT_TLS_NewSession, encrypt_packet
<1>2. DrawTypes
  <2>1. CASE UNCHANGED drawVars
    BY <2>1 DEF drawVars, TypeOK, Bytes
  <2>2. CASE wolfSSL_new
    BY <2>2, BeginType, TransportAssumption DEF wolfSSL_new
  <2>3. CASE Encrypt
    BY <2>3, BeginType, TransportAssumption DEF Encrypt
  <2>4. CASE SeedWord \/ generate_nonce
    <3>1. sz > 0 /\ w' \in Words /\ drawn' \in {drawn, drawn + 1} /\ memcpy
      BY <2>4 DEF SeedWord, generate_nonce, Draws, TypeOK
    <3> QED BY <3>1, DrawType
  <2>5. ~wolfSSL_new /\ ~Encrypt /\ ~SeedWord /\ ~generate_nonce => UNCHANGED drawVars
    BY DEF Next, MQTT_TLS_NewContext, ContextNoMemory, ContextRejected, NewContext,
           MQTT_TLS_NewSession, SessionNoMemory, SeedInit, SeedInitFails, SeedFails,
           SessionReady, GiveUp, wolfSSL_free, encrypt_packet, EncryptNoMemory,
           Encrypted, Generator
  <2> QED BY <2>1, <2>2, <2>3, <2>4, <2>5
<1>3. KeptType
  BY DEF TypeOK, Bytes, Next, MQTT_TLS_NewContext, ContextNoMemory, ContextRejected,
         NewContext, MQTT_TLS_NewSession, SessionNoMemory, wolfSSL_new, SeedInit,
         SeedInitFails, SeedWord, SeedFails, SessionReady, GiveUp, wolfSSL_free,
         encrypt_packet, Encrypt, generate_nonce, EncryptNoMemory, Encrypted,
         Generator
<1>4. TlsTypes
  BY DEF TypeOK, SessionInv, tlsVars, Overwrite, Next, MQTT_TLS_NewContext, ContextNoMemory,
         ContextRejected, NewContext, MQTT_TLS_NewSession, SessionNoMemory,
         wolfSSL_new, SeedInit, SeedInitFails, SeedWord, SeedFails, SessionReady,
         GiveUp, wolfSSL_free, encrypt_packet, Encrypt, generate_nonce,
         EncryptNoMemory, Encrypted, Generator
<1>5. RngTypes
  BY DEF TypeOK, rngVars, Next, MQTT_TLS_NewContext, ContextNoMemory,
         ContextRejected, NewContext, MQTT_TLS_NewSession, SessionNoMemory,
         wolfSSL_new, SeedInit, SeedInitFails, SeedWord, SeedFails, SessionReady,
         GiveUp, wolfSSL_free, encrypt_packet, Encrypt, generate_nonce,
         EncryptNoMemory, Encrypted, Generator
<1> QED BY <1>1, <1>2, <1>3, <1>4, <1>5 DEF TypeOK, Bytes

-----------------------------------------------------------------------------
LEMMA InitHolds == Init => IInv
<1> SUFFICES ASSUME Init PROVE IInv
  OBVIOUS
<1> USE DEF Init, HeapInit
<1>1. TypeOK
  <2>1. HeapTypeOK
    BY HeapAssumption DEF HeapTypeOK
  <2>2. <<>> \in Seq(Words \X (1 .. WordSize))
    BY EmptySeq
  <2> QED BY <2>1, <2>2 DEF TypeOK, RNG_Init
<1>2. SessionInv /\ SeedGenuine /\ NonceInv
  BY DEF SessionInv, SeedGenuine, NonceInv
<1>3. HeapInv
  <2>1. max_heap \in Nat /\ RamStart \in Nat \ {0} /\ RamStart <= max_heap
    BY HeapAssumption
  <2>2. /\ "ctx" \in Kinds /\ "ssl" \in Kinds /\ "aes" \in Kinds
        /\ \A k \in Kinds : Size[k] \in Nat
    BY TransportAssumption, HeapAssumption
  <2>3. \A k \in Kinds : live[k] = 0 /\ freed[k] = 0 /\ Held(k) = 0
    BY <2>2, Products DEF Held, Count
  <2>4. HeapSteady
    BY <2>1, <2>2, <2>3, Products DEF HeapSteady, Blocks
  <2> QED BY <2>1, <2>2, <2>3, <2>4 DEF HeapInv, OutOfStack, heap_end
<1> QED BY <1>1, <1>2, <1>3 DEF IInv

LEMMA StepHolds == IInv /\ [Next]_vars => IInv'
<1> SUFFICES ASSUME IInv, [Next]_vars PROVE IInv'
  OBVIOUS
<1>1. CASE Next
  BY <1>1, TypeKept, SessionKept, HeapKept, SeedKept, NonceKept DEF IInv
<1>2. CASE UNCHANGED vars
  BY <1>2 DEF vars, heapVars, tlsVars, drawVars, rngVars, IInv, TypeOK, HeapTypeOK,
              SessionInv, HeapInv, HeapSteady, OutOfStack, Blocks, Held, Count, heap_end,
              SeedGenuine, NonceInv
<1> QED BY <1>1, <1>2

LEMMA Invariance == Spec => []IInv
  BY InitHolds, StepHolds, PTL DEF Spec

-----------------------------------------------------------------------------
(* The variables keep their types: no count of bytes goes below 0. *)
THEOREM TypeCorrect == Spec => []TypeOK
<1>1. IInv => TypeOK
  BY DEF IInv
<1> QED BY <1>1, Invariance, PTL

(* A seed is the generator's alone, complete, without a byte used twice.    *)
THEOREM SeedIsGenuine == Spec => []SeedGenuine
<1>1. IInv => SeedGenuine
  BY DEF IInv
<1> QED BY <1>1, Invariance, PTL

(* A nonce with one word of the generator is none that was used before.     *)
THEOREM NonceIsFresh == Spec => []NonceFresh
<1>1. IInv => NonceFresh
  BY DEF IInv, NonceInv, NonceFresh
<1> QED BY <1>1, Invariance, PTL

(* A session has all its settings, or there is none. *)
THEOREM SessionIsSound == Spec => []SessionSound
<1>1. IInv => SessionSound
  BY DEF IInv, SessionInv, SessionSound
<1> QED BY <1>1, Invariance, PTL

(* Sessions and replies do not use up the heap: only a leaked session does. *)
THEOREM HeapIsSteady == Spec => []HeapSteady
<1>1. IInv => HeapSteady
  BY DEF IInv, HeapInv
<1> QED BY <1>1, Invariance, PTL

(* However many sessions leak, the heap does not reach the stack.           *)
THEOREM HeapStaysOutOfStack == Spec => []OutOfStack
<1>1. IInv => OutOfStack
  BY DEF IInv, HeapInv
<1> QED BY <1>1, Invariance, PTL
=============================================================================
