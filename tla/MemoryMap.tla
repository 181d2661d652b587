----------------------------- MODULE MemoryMap ------------------------------
(***************************************************************************)
(* The arithmetic of mm_init_memmap() and pagetbl_init(): what is where in *)
(* memory behind the kernel's image.  Addresses are page numbers, except   *)
(* where a comment says bytes; the sizes are those of the code.            *)
(*                                                                         *)
(*   image | directory and page tables | list of user pages | user pages   *)
(***************************************************************************)
EXTENDS Integers

PAGE_SIZE == 4096
TablePages == 1024          \* pages a page table maps: 4 MB
NodeBytes == 12             \* sizeof(MEM_LIST)
SIZE == 4                   \* bytes kmalloc() keeps for itself
AddressPages == 1048576     \* of 32 bits

PagesOfBytes(n) == (n + PAGE_SIZE - 1) \div PAGE_SIZE

\* mem_begin, from the end of the image in bytes.
MemBegin(end) == PagesOfBytes(end)

\* The directory and, it is meant, all tables.
PagetblPages(size) == size \div TablePages + 1

\* A node for each page of memory.
KernelPages(size) == PagesOfBytes(size * NodeBytes)

KernelStart(size, end) == MemBegin(end) + PagetblPages(size)
UserStart(size, end) == KernelStart(size, end) + KernelPages(size)
UserPages(size, end) == (size - UserStart(size, end)) % AddressPages

\* Where the list ends, in bytes from kernel_start: kmalloc() of all entries, and
\* mem_create_user() makes one more.
ListBytes(size, end) == SIZE + (UserPages(size, end) + 1) * NodeBytes

\* The loop of pagetbl_init() ends when an address that is a multiple of 4 MB is not
\* below the end of memory; behind the last one comes 0 again.
TablesEnding(size) == size <= AddressPages - TablePages

\* It makes a table for every 4 MB begun, then.
TablesMade(size) == (size + TablePages - 1) \div TablePages
TablesEnd(size, end) == MemBegin(end) + 1 + TablesMade(size)

ProtectedInclusive(from, to) == from \div PAGE_SIZE .. to \div PAGE_SIZE

\* The pages pagetbl_chgprotect() changes for addresses from .. to: at least one.
Protected(from, to) ==
    {p \in from \div PAGE_SIZE .. to \div PAGE_SIZE : p * PAGE_SIZE < to \/ p = from \div PAGE_SIZE}

Text == 1048576             \* __text_st

NotPresent == Protected(0, 4095) \cup Protected(851968, 983039)
ReadOnly(text_en) == Protected(786432, 1048575) \cup Protected(Text, text_en)
=============================================================================
