----------------------------- MODULE UserAccess -----------------------------
(***************************************************************************)
(* System calls that read or write the caller's memory, byte by byte:      *)
(* ensure_user_range and with_user_access of syscall.rs, the calls read,   *)
(* write, getcwd and uname that use them, and wait's store, which does     *)
(* not.  The kernel is not interrupted between the check and the copy, so  *)
(* a call is one step.                                                     *)
(*                                                                         *)
(* The caller's space has a few pages: its own, which may be shared with   *)
(* another process since a fork, and the kernel's, which every space has,  *)
(* the console's and those of the map of RAM, through which the kernel     *)
(* reaches the frames of every process.  Addresses are numbers below       *)
(* AddrLimit that lookup() reduces to VaBytes, as it ignores the bits      *)
(* above bit 38; for the hardware an address above VaBytes is a page       *)
(* fault.                                                                  *)
(***************************************************************************)
EXTENDS Integers, SequencesExt, FiniteSetsExt

CONSTANTS
  PageBytes,      \* 4096
  VaPages,        \* pages of the virtual address space
  AddrLimit,      \* 2^64
  WordBytes,      \* size_of::<usize>()
  UTS_FIELD_LEN,
  UtsValues,      \* the strings of sys_uname, as sequences of bytes
  Kind,           \* what the pages of the caller's space may be
  MaxSpare,       \* bound: frames left to allocate
  MaxLen,         \* bound: longest buffer of a call
  MaxCalls        \* bound: calls in a behaviour

VaBytes == VaPages * PageBytes
Page == 0 .. VaPages - 1
Addr == 0 .. AddrLimit - 1
Frame == 0 .. 2 * VaPages - 1     \* page p starts in frame p and is copied
Copy(p) == VaPages + p            \* to frame VaPages + p
Cwd == <<47, 0>>                  \* "/\0"

ASSUME AccessAssumption ==
  /\ PageBytes \in Nat \ {0} /\ VaPages \in Nat \ {0}
  /\ AddrLimit >= VaBytes /\ AddrLimit % PageBytes = 0
  /\ PageBytes % WordBytes = 0

VARIABLES
  pt,       \* pt[p]: the caller's leaf for page p
  refs,     \* refs[f]: references to frame f
  mem,      \* mem[f]: the bytes of frame f
  spare,    \* frames alloc_frame can still return
  output,   \* what the last write has put on the console
  last,     \* the last call: its name, buffer, length and result
  calls, power

vars == <<pt, refs, mem, spare, output, last, calls, power>>

EBADF == -9
EFAULT == -14
ERANGE == -34
Ok == 0
None == [v |-> FALSE, r |-> FALSE, w |-> FALSE, u |-> FALSE, cow |-> FALSE, f |-> 0]

(* A page of a kind: not mapped, code, data, one of mmap without read      *)
(* permission, or copy-on-write, with or without other users.  Or one of   *)
(* the kernel's: the console's, or, of the map of RAM, the page of a frame *)
(* of another process ("ram") or of the frame of page 1 ("mirror").        *)
KernelKind == {"uart", "ram", "mirror"}

Leaf(kind, p) ==
  IF kind = "none" THEN None
  ELSE [v |-> TRUE, f |-> IF kind = "mirror" THEN 1 ELSE p,
        r |-> kind # "exec", w |-> kind \in KernelKind \cup {"data"},
        u |-> kind \notin KernelKind, cow |-> kind \in {"shared", "sole"}]

Refs(kind) ==
  CASE kind \in {"none", "uart", "mirror"} -> 0
    [] kind = "shared" -> 2
    [] OTHER -> 1

Spaces ==
  {k \in [Page -> Kind] : /\ k[0] = "none"     \* nothing maps page 0
                          /\ k[1] \notin KernelKind}

Init ==
  \E kind \in Spaces :
    /\ pt = [p \in Page |-> Leaf(kind[p], p)]
    /\ refs = [f \in Frame |-> IF f \in Page THEN Refs(kind[f]) ELSE 0]
    /\ mem = [f \in Frame |-> [i \in 0 .. PageBytes - 1 |-> 1]]
    /\ spare \in 0 .. MaxSpare
    /\ output = <<>>
    /\ last = [call |-> "none", ptr |-> 0, len |-> 0, result |-> Ok]
    /\ calls = 0
    /\ power = "on"

-----------------------------------------------------------------------------
(* The address translation, as the kernel and as the hardware does it.     *)

PageOf(a) == (a % VaBytes) \div PageBytes
Lookup(t, a) == t[PageOf(a)]

Loads(t, a) == a < VaBytes /\ Lookup(t, a).v /\ Lookup(t, a).r
Stores(t, a) == a < VaBytes /\ Lookup(t, a).v /\ Lookup(t, a).w
ByteAt(t, m, a) == m[Lookup(t, a).f][a % PageBytes]

Bytes(ptr, len) == ptr .. ptr + len - 1
PutBytes(m, t, ptr, s) ==
  FoldLeft(LAMBDA a, i : [a EXCEPT ![Lookup(t, ptr + i - 1).f]
                                    [(ptr + i - 1) % PageBytes] = s[i]],
           m, [i \in 1 .. Len(s) |-> i])

-----------------------------------------------------------------------------
(* handle_cow_fault on state s, a record of pt, refs, mem, spare and how   *)
(* the check has gone so far: "ok", "fault" or "panic".                    *)

Now == [pt |-> pt, refs |-> refs, mem |-> mem, spare |-> spare, check |-> "ok"]
IsCow(e) == e.cow /\ e.r /\ ~e.w
Mine(e) == [e EXCEPT !.w = TRUE, !.cow = FALSE]

(* Mutant: a frame with two users is taken for one's own.                  *)
HandleCowFaultOffByOne(s, p) ==
  LET e == s.pt[p]
  IN  IF s.refs[e.f] <= 2
      THEN [s EXCEPT !.pt[p] = Mine(e)]
      ELSE [s EXCEPT !.check = "panic"]

HandleCowFault(s, p) ==
  LET e == s.pt[p]
  IN  IF s.refs[e.f] = 1
      THEN [s EXCEPT !.pt[p] = Mine(e)]
      ELSE IF s.spare = 0 THEN [s EXCEPT !.check = "panic"]
      ELSE [s EXCEPT !.pt[p] = [Mine(e) EXCEPT !.f = Copy(p)],
                     !.refs[e.f] = @ - 1, !.refs[Copy(p)] = 1,
                     !.mem[Copy(p)] = s.mem[e.f], !.spare = @ - 1]

(* One round of the loop in ensure_user_range.                             *)
CheckPage(s, p, write) ==
  LET e == s.pt[p]
      after == IF write /\ IsCow(e) THEN HandleCowFault(s, p) ELSE s
  IN  IF s.check # "ok" THEN s
      ELSE IF ~e.v \/ ~e.u THEN [s EXCEPT !.check = "fault"]
      ELSE IF after.check = "panic" THEN after
      ELSE IF (IF write THEN after.pt[p].w ELSE e.r) THEN after
      ELSE [after EXCEPT !.check = "fault"]

PagesFrom(first, last_) == [i \in 1 .. last_ - first + 1 |-> first + i - 1]

(* Mutant: the range ends one byte late.                                   *)
EnsureOneMore(ptr, len, write) ==
  IF len = 0 THEN Now
  ELSE IF ptr = 0 \/ ptr + len >= AddrLimit THEN [Now EXCEPT !.check = "fault"]
  ELSE FoldLeft(LAMBDA s, n : CheckPage(s, n % VaPages, write), Now,
                PagesFrom(ptr \div PageBytes, (ptr + len) \div PageBytes))

EnsureUserRange(ptr, len, write) ==
  IF len = 0 THEN Now
  ELSE IF ptr = 0 \/ ptr + len - 1 >= AddrLimit THEN [Now EXCEPT !.check = "fault"]
  ELSE FoldLeft(LAMBDA s, n : CheckPage(s, n % VaPages, write), Now,
                PagesFrom(ptr \div PageBytes, (ptr + len - 1) \div PageBytes))

-----------------------------------------------------------------------------
(* The system calls.                                                       *)

Running == power = "on" /\ calls < MaxCalls

Returns(name, ptr, len, result) ==
  /\ last' = [call |-> name, ptr |-> ptr, len |-> len, result |-> result]
  /\ calls' = calls + 1

(* A call that fails before it looks at its buffer.                        *)
Refuse(name, ptr, len, errno) ==
  /\ Running
  /\ Returns(name, ptr, len, errno)
  /\ output' = <<>>
  /\ UNCHANGED <<pt, refs, mem, spare, power>>

Traps(t, ptr, len, write) ==
  \E a \in Bytes(ptr, len) : ~(IF write THEN Stores(t, a) ELSE Loads(t, a))

(* Mutant: the bytes of the pages that pass are copied before the check of *)
(* the others fails.                                                       *)
TransferAsChecked(name, ptr, len, bytes, result) ==
  LET write == name # "write"
      s == EnsureUserRange(ptr, len, write)
  IN  /\ Running
      /\ pt' = s.pt /\ refs' = s.refs /\ spare' = s.spare
      /\ mem' = IF s.check = "fault" /\ write /\ ptr > 0 /\ Stores(s.pt, ptr)
                THEN PutBytes(s.mem, s.pt, ptr, <<bytes[1]>>) ELSE s.mem
      /\ output' = <<>>
      /\ Returns(name, ptr, len, IF s.check = "fault" THEN EFAULT ELSE result)
      /\ UNCHANGED power

(* Check the buffer, then copy bytes to it or, for write, from it.         *)
Transfer(name, ptr, len, bytes, result) ==
  LET write == name # "write"
      s == EnsureUserRange(ptr, len, write)
      copied == s.check = "ok" /\ ~Traps(s.pt, ptr, len, write)
  IN  /\ Running
      /\ pt' = s.pt /\ refs' = s.refs /\ spare' = s.spare
      /\ mem' = IF copied /\ write THEN PutBytes(s.mem, s.pt, ptr, bytes)
                ELSE s.mem
      /\ output' = IF copied /\ ~write
                   THEN [i \in 1 .. len |-> ByteAt(s.pt, s.mem, ptr + i - 1)]
                   ELSE <<>>
      /\ Returns(name, ptr, len, IF s.check = "fault" THEN EFAULT ELSE result)
      /\ power' = CASE s.check = "panic" -> "panic"
                    [] s.check = "ok" /\ ~copied -> "trap"
                    [] OTHER -> power

(* The console's bytes are told apart by their position.                   *)
Input(len) == [i \in 1 .. len |-> 10 + i]

SysRead(fd, buf, len) ==
  IF fd # 0 THEN Refuse("read", buf, len, EBADF)
  ELSE Transfer("read", buf, len, Input(len), len)

SysWrite(fd, buf, len) ==
  IF fd \notin {1, 2} THEN Refuse("write", buf, len, EBADF)
  ELSE Transfer("write", buf, len, <<>>, len)

SysGetcwd(buf, size) ==
  IF size < Len(Cwd) THEN Refuse("getcwd", buf, Len(Cwd), ERANGE)
  ELSE Transfer("getcwd", buf, Len(Cwd), Cwd, Len(Cwd))

UtsField(v) ==   \* write_uts_field, on zeroed memory
  [k \in 1 .. UTS_FIELD_LEN |-> IF k <= Min({Len(v), UTS_FIELD_LEN - 1})
                                THEN v[k] ELSE 0]
Uts == FoldLeft(LAMBDA s, v : s \o UtsField(v), <<>>, UtsValues)

SysUname(buf) == Transfer("uname", buf, Len(Uts), Uts, 0)

(* Mutant: wait stores without looking for copy-on-write.                  *)
StoreOnly(ptr) == Now

(* wait, once it has found a zombie: copy-on-write is handled for the page *)
(* the pointer is in and for no other, and nothing else is checked.        *)
CowBeforeStore(ptr) ==
  LET e == Lookup(pt, ptr)
  IN  IF e.v /\ e.u /\ IsCow(e) THEN HandleCowFault(Now, PageOf(ptr)) ELSE Now

SysWait(ptr, code) ==
  LET s == CowBeforeStore(ptr)
      bytes == [i \in 1 .. WordBytes |-> IF i = 1 THEN code ELSE 0]
      trap == ptr # 0 /\ Traps(s.pt, ptr, WordBytes, TRUE)
  IN  /\ Running
      /\ IF ptr = 0 \/ s.check = "panic"
         THEN UNCHANGED <<pt, refs, spare, mem>>
         ELSE /\ pt' = s.pt /\ refs' = s.refs /\ spare' = s.spare
              /\ mem' = IF trap THEN s.mem ELSE PutBytes(s.mem, s.pt, ptr, bytes)
      /\ output' = <<>>
      /\ Returns("wait", ptr, WordBytes, Ok)
      /\ power' = CASE ptr = 0 -> power
                    [] s.check = "panic" -> "panic"
                    [] trap -> "trap"
                    [] OTHER -> power

Next ==
  \/ \E buf \in Addr, len \in 0 .. MaxLen :
       \/ \E fd \in 0 .. 1 : SysRead(fd, buf, len) \/ SysWrite(fd, buf, len)
       \/ SysGetcwd(buf, len)
  \/ \E buf \in Addr : SysUname(buf) \/ SysWait(buf, 42)

Spec == Init /\ [][Next]_vars

-----------------------------------------------------------------------------
CallMade == calls' # calls
UsesCheck == CallMade /\ last'.call # "wait" /\ last'.result \notin {EBADF, ERANGE}
InVa == last'.ptr + last'.len <= VaBytes

(* A buffer the program may use: each of its bytes is at an address of the *)
(* hardware's, on a user page that it can read or, for a call that writes, *)
(* may write once its own copy of a shared page has been made.             *)
Accessible(a, write) ==
  LET e == Lookup(pt, a)
  IN  /\ e.v /\ e.u
      /\ IF write THEN e.w \/ IsCow(e) ELSE e.r

MayAccess(ptr, len, write) ==
  \/ len = 0
  \/ ptr # 0 /\ \A a \in Bytes(ptr, len) : a < VaBytes /\ Accessible(a, write)

(* A buffer the program may not use, since it reaches above the addresses  *)
(* of the hardware, that it could use if those bits were not there.        *)
Aliased(ptr, len, write) ==
  /\ ~MayAccess(ptr, len, write)
  /\ ptr # 0 /\ ptr + len <= AddrLimit
  /\ \A a \in Bytes(ptr, len) : Accessible(a, write)

(* A call that uses ensure_user_range, which steps through the pages, gets *)
(* past it without a fault in S-mode if the program may access every byte  *)
(* of the buffer, and returns EFAULT if there is a byte it may not access: *)
(* at the edges of pages and of the 64-bit addresses, for an empty buffer, *)
(* a null pointer and the pages of the kernel.  There is one exception.    *)
(* lookup() ignores the bits from 39 on, so a buffer that reaches above    *)
(* them is accepted if the pages it aliases are accessible: then the copy  *)
(* faults, which stops the kernel.                                         *)
CheckExact ==
  [][UsesCheck /\ power' # "panic" =>
       LET write == last'.call # "write"
       IN  CASE MayAccess(last'.ptr, last'.len, write) ->
                  last'.result # EFAULT /\ power' = "on"
             [] Aliased(last'.ptr, last'.len, write) -> power' = "trap"
             [] OTHER -> last'.result = EFAULT /\ power' = "on"]_vars

(* A call that returns an error has changed no byte that the program can   *)
(* see and has written nothing to the console, although it may have made   *)
(* copies of shared pages.                                                 *)
ErrorIsClean ==
  [][CallMade /\ power' = "on" /\ last'.result < 0 =>
       /\ output' = <<>>
       /\ \A a \in 0 .. VaBytes - 1 :
            Lookup(pt, a).v => ByteAt(pt', mem', a) = ByteAt(pt, mem, a)]_vars

PlainPointer(ptr) ==
  ptr # 0 /\ ptr % WordBytes = 0 /\ (Lookup(pt, ptr).v => Lookup(pt, ptr).u)

(* A fault in S-mode stops the machine.  Once ensure_user_range has        *)
(* accepted a buffer below 2^39, the copy that read, write, getcwd or      *)
(* uname make does not fault.  wait does not check its pointer: for an     *)
(* aligned one that is neither null nor into the kernel's own pages its    *)
(* store faults in exactly the cases in which the check of the other calls *)
(* would have returned EFAULT.                                             *)
OnlyWaitTraps ==
  [][CallMade /\ InVa /\ power' # "panic" =>
       /\ last'.call # "wait" => power' # "trap"
       /\ last'.call = "wait" /\ PlainPointer(last'.ptr) =>
            (power' = "trap" <=> ~MayAccess(last'.ptr, WordBytes, TRUE))]_vars

OwnRefs(f) == IF \E p \in Page : pt[p].v /\ pt[p].u /\ pt[p].f = f THEN 1 ELSE 0

(* The call is a wait whose word has its byte b of frame f on a page of    *)
(* the kernel's.                                                           *)
KernelStore(f, b) ==
  /\ last'.call = "wait" /\ last'.ptr # 0
  /\ \E a \in Bytes(last'.ptr, WordBytes) :
       LET e == Lookup(pt, a)
       IN  e.v /\ ~e.u /\ e.f = f /\ a % PageBytes = b

(* A call changes a byte of a frame that another process refers to in one  *)
(* case only: wait, which does not check its pointer, stores through a     *)
(* page of the kernel's map of RAM.  The checked calls never do, and       *)
(* through the caller's own pages, with their shared frames, wait does not *)
(* either.                                                                 *)
OthersUntouched ==
  [][\A f \in Frame, b \in 0 .. PageBytes - 1 :
       refs[f] > OwnRefs(f) /\ mem'[f][b] # mem[f][b] => KernelStore(f, b)]_vars

=============================================================================
