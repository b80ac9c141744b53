-------------------------------- MODULE Heap --------------------------------
(***************************************************************************)
(* sysmem.c: the heap that wolfSSL allocates from, between the end of .bss  *)
(* and the RAM reserved for the stack.                                      *)
(*                                                                         *)
(* newlib's malloc() is external: it takes a block that was freed, of the   *)
(* same kind here, or asks _sbrk() for more, and never gives any back.      *)
(***************************************************************************)
EXTENDS Integers

CONSTANTS
  RamStart,      \* _end
  RamEnds,       \* _estack - _Min_Stack_Size, as the linker script may set it
  Kinds, Size    \* what is allocated, and the size of each

ASSUME HeapAssumption ==
  /\ RamStart \in Nat \ {0}
  /\ RamEnds \subseteq Nat /\ \A e \in RamEnds : e >= RamStart
  /\ Size \in [Kinds -> Nat \ {0}]

VARIABLES
  max_heap,            \* the end of the heap's RAM, one of RamEnds
  __sbrk_heap_end,     \* 0: NULL
  live, freed          \* blocks of each kind in use, and on the free list

heapVars == <<max_heap, __sbrk_heap_end, live, freed>>

HeapInit ==
  /\ max_heap \in RamEnds
  /\ __sbrk_heap_end = 0
  /\ live = [k \in Kinds |-> 0] /\ freed = [k \in Kinds |-> 0]

-----------------------------------------------------------------------------
(* _sbrk(incr): at the first call the heap is empty. *)
heap_end == IF __sbrk_heap_end = 0 THEN RamStart ELSE __sbrk_heap_end

(* Mutant of sbrk_fails: the stack's reserve is not looked at. *)
sbrk_fails_Never(incr) == FALSE

sbrk_fails(incr) == heap_end + incr > max_heap

malloc_fails(k) == freed[k] = 0 /\ sbrk_fails(Size[k])

malloc(k) ==
  /\ ~malloc_fails(k)
  /\ live' = [live EXCEPT ![k] = @ + 1]
  /\ IF freed[k] > 0
     THEN /\ freed' = [freed EXCEPT ![k] = @ - 1]
          /\ UNCHANGED <<max_heap, __sbrk_heap_end>>
     ELSE /\ __sbrk_heap_end' = heap_end + Size[k]
          /\ UNCHANGED <<max_heap, freed>>

(* A failed _sbrk() has set the heap's start, and nothing else. *)
no_memory(k) ==
  /\ malloc_fails(k)
  /\ __sbrk_heap_end' = heap_end
  /\ UNCHANGED <<max_heap, live, freed>>

free(k) ==
  /\ live' = [live EXCEPT ![k] = @ - 1]
  /\ freed' = [freed EXCEPT ![k] = @ + 1]
  /\ UNCHANGED <<max_heap, __sbrk_heap_end>>

(* malloc() and free() within one call of the code. *)
borrow(k) ==
  /\ ~malloc_fails(k)
  /\ IF freed[k] > 0
     THEN UNCHANGED heapVars
     ELSE /\ __sbrk_heap_end' = heap_end + Size[k]
          /\ freed' = [freed EXCEPT ![k] = @ + 1]
          /\ UNCHANGED <<max_heap, live>>

-----------------------------------------------------------------------------
HeapTypeOK ==
  /\ max_heap \in RamEnds /\ __sbrk_heap_end \in Nat
  /\ live \in [Kinds -> Nat] /\ freed \in [Kinds -> Nat]

(* The heap stays out of the stack's reserve. *)
OutOfStack == __sbrk_heap_end <= max_heap
=============================================================================
