---------------------------- MODULE TlsTransport ----------------------------
(***************************************************************************)
(* mqtt_tls_socket.c, and the random numbers of secure_cmd.c: what both     *)
(* draw from the one hardware generator, and what they take from the heap.  *)
(*                                                                         *)
(* There is one thread, so that calls do not overlap; but the generator     *)
(* may fail, and recover, between any two words of a call.  A byte in a     *)
(* buffer is <<word, i>>: the i-th byte of that word.                       *)
(***************************************************************************)
EXTENDS Heap, Sequences, FiniteSets

CONSTANTS
  WordSize,     \* sizeof(w)
  NonceLen,     \* NONCE_LEN
  SeedSizes,    \* what wolfSSL asks of its seed callback, in bytes
  Words,        \* values of a word
  None

Settings == {"ca", "verify", "suite", "io"}

ASSUME TransportAssumption ==
  /\ Kinds = {"ctx", "ssl", "aes"}
  /\ WordSize \in Nat \ {0} /\ NonceLen \in Nat \ {0} /\ SeedSizes \subseteq Nat
  /\ None \notin {Settings, Settings \cup {"sn"}}

VARIABLES
  rng,           \* the generator
  hrng,          \* whether secure_cmd.c's handle is initialised
  s_mqtt_hrng, s_mqtt_hrng_ready,  \* the same of mqtt_tls_socket.c, and its flag
  call,          \* the call in execution
  w,             \* its local word
  out,           \* the bytes it has written
  sz,            \* the bytes it has left to write
  drawn,         \* how many words the generator gave it
  kept,          \* some nonce of an earlier reply
  s_ctx, s_ssl,  \* the context and the session: what was set on them, or None
  leaked,        \* sessions in use that s_ssl does not point to any more
  usable         \* the embedded certificate parses; the suite is built in

tlsVars == <<s_ctx, s_ssl, leaked, usable>>
drawVars == <<w, out, sz, drawn>>
rngVars == <<rng, hrng, s_mqtt_hrng, s_mqtt_hrng_ready>>
vars == <<heapVars, tlsVars, drawVars, rngVars, call, kept>>

(* SecureCmd_Init() ignores whether its HAL_RNG_Init() succeeds. *)
RNG_Init == hrng \in BOOLEAN

Init ==
  /\ HeapInit
  /\ rng = "good" /\ RNG_Init /\ s_mqtt_hrng = FALSE /\ s_mqtt_hrng_ready = FALSE
  /\ call = "boot" /\ w \in Words /\ out = <<>> /\ sz = 0 /\ drawn = 0
  /\ kept = None /\ s_ctx = None /\ s_ssl = None /\ leaked = 0
  /\ usable \in [ca : BOOLEAN, suite : BOOLEAN]

-----------------------------------------------------------------------------
(* MQTT_TLS_NewContext(), which MQTT_Client_Init() calls once.              *)

ContextNoMemory ==
  /\ call = "boot" /\ call' = "idle"
  /\ no_memory("ctx")
  /\ UNCHANGED <<tlsVars, drawVars, rngVars, kept>>

(* Mutants of ContextRejected: the context is not freed; it is returned.    *)
ContextRejected_Leak ==
  /\ call = "boot" /\ call' = "idle"
  /\ ~usable.ca \/ ~usable.suite
  /\ malloc("ctx")
  /\ UNCHANGED <<tlsVars, drawVars, rngVars, kept>>
ContextRejected_Used ==
  /\ call = "boot" /\ call' = "idle"
  /\ ~usable.ca \/ ~usable.suite
  /\ malloc("ctx")
  /\ s_ctx' = Settings \ {"ca"}
  /\ UNCHANGED <<s_ssl, leaked, usable, drawVars, rngVars, kept>>

(* load_verify_buffer() or set_cipher_list() fails: the context is freed. *)
ContextRejected ==
  /\ call = "boot" /\ call' = "idle"
  /\ ~usable.ca \/ ~usable.suite
  /\ borrow("ctx")
  /\ UNCHANGED <<tlsVars, drawVars, rngVars, kept>>

NewContext ==
  /\ call = "boot" /\ call' = "idle"
  /\ usable.ca /\ usable.suite
  /\ malloc("ctx")
  /\ s_ctx' = Settings
  /\ UNCHANGED <<s_ssl, leaked, usable, drawVars, rngVars, kept>>

MQTT_TLS_NewContext == ContextNoMemory \/ ContextRejected \/ NewContext

-----------------------------------------------------------------------------
(* Words of the generator.                                                  *)

Begin(n) == w' \in Words /\ out' = <<>> /\ sz' = n /\ drawn' = 0

WordsOf(bytes) == {bytes[i][1] : i \in DOMAIN bytes}

(* A word of the generator is not one that was drawn before. *)
New(word) ==
  word \notin {w} \cup WordsOf(out) \cup IF kept = None THEN {} ELSE WordsOf(kept)

(* Mutant of chunk: whole words only. *)
chunk_Whole == WordSize

chunk == IF sz < WordSize THEN sz ELSE WordSize

memcpy ==
  /\ out' = out \o [i \in 1 .. chunk |-> <<w', i>>]
  /\ sz' = sz - chunk

Draws(handle) ==
  /\ handle /\ rng = "good"
  /\ w' \in Words /\ New(w') /\ drawn' = drawn + 1

DrawFails(handle) == ~handle \/ rng # "good"

-----------------------------------------------------------------------------
(* MQTT_TLS_NewSession(): wolfSSL_new() takes memory and seeds itself.      *)

(* mqtt_client.c assigns what it returns to s_ssl.  The session that a      *)
(* failed write left there (tx_pump does not tear down) stays in use.       *)
Overwrite ==
  /\ s_ssl' = None /\ leaked' = leaked + (IF s_ssl = None THEN 0 ELSE 1)
  /\ UNCHANGED <<s_ctx, usable>>

SessionNoMemory ==
  /\ call = "idle" /\ s_ctx # None
  /\ no_memory("ssl")
  /\ Overwrite
  /\ UNCHANGED <<drawVars, rngVars, call, kept>>

wolfSSL_new ==
  /\ call = "idle" /\ call' = "seed"
  /\ s_ctx # None
  /\ malloc("ssl")
  /\ Overwrite
  /\ \E n \in SeedSizes : Begin(n)
  /\ UNCHANGED <<rngVars, kept>>

(* MQTT_TLS_SeedRNG() returns -1: no session. *)
GiveUp ==
  /\ call = "seed" /\ call' = "idle"
  /\ free("ssl")
  /\ UNCHANGED <<tlsVars, drawVars, kept>>

SeedInit ==
  /\ call = "seed" /\ ~s_mqtt_hrng_ready
  /\ s_mqtt_hrng' = TRUE /\ s_mqtt_hrng_ready' = TRUE
  /\ UNCHANGED <<heapVars, tlsVars, drawVars, rng, hrng, call, kept>>

(* Mutant of SeedInitFails: the flag is set before HAL_RNG_Init(). *)
SeedInitFails_Ready ==
  /\ ~s_mqtt_hrng_ready /\ rng # "good"
  /\ GiveUp
  /\ s_mqtt_hrng_ready' = TRUE
  /\ UNCHANGED <<rng, hrng, s_mqtt_hrng>>

SeedInitFails ==
  /\ ~s_mqtt_hrng_ready /\ rng # "good"
  /\ GiveUp
  /\ UNCHANGED rngVars

SeedWord ==
  /\ call = "seed" /\ s_mqtt_hrng_ready /\ sz > 0
  /\ Draws(s_mqtt_hrng)
  /\ memcpy
  /\ UNCHANGED <<heapVars, tlsVars, rngVars, call, kept>>

(* Mutant of SeedFails: the status is ignored. *)
SeedFails_Ignored ==
  /\ call = "seed" /\ s_mqtt_hrng_ready /\ sz > 0
  /\ DrawFails(s_mqtt_hrng)
  /\ UNCHANGED <<w, drawn>>
  /\ memcpy
  /\ UNCHANGED <<heapVars, tlsVars, rngVars, call, kept>>

SeedFails ==
  /\ s_mqtt_hrng_ready /\ sz > 0
  /\ DrawFails(s_mqtt_hrng)
  /\ GiveUp
  /\ UNCHANGED rngVars

(* Seeded: the session gets the socket as the context of its callbacks. *)
SessionReady ==
  /\ call = "seed" /\ call' = "idle"
  /\ s_mqtt_hrng_ready /\ sz = 0
  /\ s_ssl' = s_ctx \cup {"sn"}
  /\ UNCHANGED <<heapVars, s_ctx, leaked, usable, drawVars, rngVars, kept>>

MQTT_TLS_NewSession ==
  \/ SessionNoMemory \/ wolfSSL_new \/ SeedInit \/ SeedInitFails
  \/ SeedWord \/ SeedFails \/ SessionReady

(* teardown_connection() of mqtt_client.c. *)
wolfSSL_free ==
  /\ call = "idle" /\ s_ssl # None /\ s_ssl' = None
  /\ free("ssl")
  /\ UNCHANGED <<s_ctx, leaked, usable, drawVars, rngVars, call, kept>>

-----------------------------------------------------------------------------
(* encrypt_packet() of secure_cmd.c.                                        *)

Encrypt ==
  /\ call = "idle" /\ call' = "nonce"
  /\ Begin(NonceLen)
  /\ UNCHANGED <<heapVars, tlsVars, rngVars, kept>>

(* Mutant of generate_nonce: one word for all of the nonce, the loop only    *)
(* while it has not been drawn.                                             *)
generate_nonce_Kept ==
  /\ call = "nonce" /\ sz > 0
  /\ UNCHANGED w /\ drawn' = drawn + 1
  /\ memcpy
  /\ UNCHANGED <<heapVars, tlsVars, rngVars, call, kept>>

(* One turn of the loop in generate_nonce().  The status is ignored: the    *)
(* word is then what it was, and before the first one whatever it was.      *)
generate_nonce ==
  /\ call = "nonce" /\ sz > 0
  /\ \/ Draws(hrng)
     \/ DrawFails(hrng) /\ UNCHANGED <<w, drawn>>
  /\ memcpy
  /\ UNCHANGED <<heapVars, tlsVars, rngVars, call, kept>>

(* wolfCrypt's working memory comes from the heap: no reply without.        *)
EncryptNoMemory ==
  /\ call = "nonce" /\ sz = 0 /\ call' = "idle"
  /\ no_memory("aes")
  /\ UNCHANGED <<tlsVars, drawVars, rngVars, kept>>

Encrypted ==
  /\ call = "nonce" /\ sz = 0 /\ call' = "idle"
  /\ borrow("aes")
  /\ kept' \in {kept, out}
  /\ UNCHANGED <<tlsVars, drawVars, rngVars>>

encrypt_packet == Encrypt \/ generate_nonce \/ EncryptNoMemory \/ Encrypted

-----------------------------------------------------------------------------
(* The generator fails to deliver in time, and recovers, or has an error    *)
(* that lasts until somebody restarts it, which nobody does.                *)
Generator ==
  /\ \/ rng = "good" /\ rng' \in {"late", "latched"}
     \/ rng = "late" /\ rng' = "good"
  /\ UNCHANGED <<heapVars, tlsVars, drawVars, hrng, s_mqtt_hrng, s_mqtt_hrng_ready,
                 call, kept>>

Next ==
  \/ MQTT_TLS_NewContext \/ MQTT_TLS_NewSession \/ wolfSSL_free \/ encrypt_packet
  \/ Generator

Spec == Init /\ [][Next]_vars

(* A call goes on, and the MQTT client that has no session asks for one     *)
(* again and again.                                                         *)
FairSpec ==
  /\ Spec
  /\ WF_vars(MQTT_TLS_NewContext)
  /\ WF_vars(call = "seed" /\ MQTT_TLS_NewSession)
  /\ WF_vars(call = "nonce" /\ encrypt_packet)
  /\ SF_vars(call = "idle" /\ s_ssl = None /\ MQTT_TLS_NewSession)

-----------------------------------------------------------------------------
(* Properties.                                                              *)

(* The types of the variables. *)
TypeOK ==
  /\ HeapTypeOK
  /\ rng \in {"good", "late", "latched"}
  /\ hrng \in BOOLEAN /\ s_mqtt_hrng \in BOOLEAN /\ s_mqtt_hrng_ready \in BOOLEAN
  /\ call \in {"boot", "idle", "seed", "nonce"}
  /\ w \in Words /\ out \in Seq(Words \X (1 .. WordSize)) /\ sz \in Nat /\ drawn \in Nat
  /\ kept = None \/ kept \in Seq(Words \X (1 .. WordSize))
  /\ s_ctx = None \/ s_ctx \subseteq Settings
  /\ s_ssl = None \/ s_ssl \subseteq Settings \cup {"sn"}
  /\ leaked \in Nat /\ usable \in [ca : BOOLEAN, suite : BOOLEAN]

(* Whatever wolfSSL asks for, its seed has that many bytes, all of them the  *)
(* generator's, and no byte of a word twice.                                *)
SeedGenuine ==
  call = "seed" =>
    /\ Len(out) + sz \in SeedSizes
    /\ Len(out) <= drawn * WordSize
    /\ \A i, j \in 1 .. Len(out) : i # j => out[i] # out[j]

(* secure_cmd.c:48: a fresh nonce for each reply.  One word that the         *)
(* generator does deliver makes it so; the status of none is looked at.     *)
NonceFresh ==
  call = "nonce" /\ sz = 0 /\ drawn > 0 /\ kept # None => out # kept

(* A session verifies its peer by the certificate, with the suite the build *)
(* was tuned for, and reaches the network through the socket's callbacks.   *)
SessionSound ==
  s_ssl # None => usable.ca /\ usable.suite /\ s_ssl = Settings \cup {"sn"}

(* However often sessions, replies and their failures repeat, the heap has  *)
(* had to grow by one block of each kind at most, and by one for every      *)
(* session that s_ssl was overwritten with another; and all but those of    *)
(* the context, the session and the leaked sessions are free.               *)
Blocks == RamStart + Size["ctx"] + Size["aes"] + (leaked + 1) * Size["ssl"]
HeapSteady ==
  /\ live["ctx"] = IF s_ctx = None THEN 0 ELSE 1
  /\ live["ssl"] = leaked + IF s_ssl = None /\ call # "seed" THEN 0 ELSE 1
  /\ live["aes"] = 0
  /\ live["ctx"] + freed["ctx"] <= 1 /\ freed["aes"] <= 1
  /\ live["ssl"] + freed["ssl"] <= leaked + 1
  /\ __sbrk_heap_end <= Blocks

(* With memory for all, a generator that is late now and then does not keep *)
(* the MQTT client from a session for ever.                                 *)
Ample == Blocks <= max_heap
SessionsResume ==
  [](Ample /\ rng # "latched") /\ <>[](rng = "good")
    => [](call = "idle" /\ s_ctx # None => <>(s_ssl # None))
=============================================================================
