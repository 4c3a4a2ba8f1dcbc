---------------------------- MODULE AudioUpload -----------------------------
(***************************************************************************)
(* example/go2/typego_audio_interface.cpp: /upload_play, handled by        *)
(* several workers, saves the uploaded file under the name the client      *)
(* gives it and plays it from there, buffer by buffer, through ALSA.       *)
(*                                                                         *)
(* An upload is a header, of which the size of a frame matters, and a      *)
(* number of bytes; a byte is the worker whose upload it belongs to and    *)
(* its place there.  Saving a file first truncates it, under the feet of   *)
(* whoever plays it.  The write to the file is not checked, and the PCM    *)
(* device may fail, run dry or take only a part at any time.               *)
(***************************************************************************)
EXTENDS Integers, Sequences

CONSTANTS
  Workers,
  Names,       \* the file names clients use
  Uploads,     \* what they send: the bytes of a frame and of all the data
  BUFFER_SIZE,
  Lacks        \* bound: how many bytes, or frames, a write may fall short by

VARIABLES
  pc,        \* where each worker is
  name,      \* the name of its upload
  upload,    \* what it was sent
  file,      \* the files: the frame in the header, 0 if there is none, and the data
  frame,     \* numChannels * (bitsPerSample / 8)
  pos,       \* how many bytes the worker has read
  played,    \* the bytes the device took from it
  answer,    \* the status of its last answer
  lossy,     \* history: the disk or the device lost something of it
  disturbed  \* history: its file was saved by another worker, too

vars == <<pc, name, upload, file, frame, pos, played, answer, lossy, disturbed>>

\* The first n bytes of the upload of w.
Bytes(w, n) == [i \in 1..n |-> <<w, i>>]

Empty == [frame |-> 0, data |-> <<>>]

Init ==
  /\ pc = [w \in Workers |-> "idle"]
  /\ name = [w \in Workers |-> CHOOSE n \in Names : TRUE]
  /\ upload = [w \in Workers |-> CHOOSE u \in Uploads : TRUE]
  /\ file = [n \in Names |-> Empty]
  /\ frame = [w \in Workers |-> 1]
  /\ pos = [w \in Workers |-> 0]
  /\ played = [w \in Workers |-> <<>>]
  /\ answer = [w \in Workers |-> "none"]
  /\ lossy = [w \in Workers |-> FALSE]
  /\ disturbed = [w \in Workers |-> FALSE]

Goes(w, to) == pc' = [pc EXCEPT ![w] = to]

\* The handler returns, and its locals are gone.
Returns(w, status) ==
  /\ Goes(w, "idle")
  /\ answer' = [answer EXCEPT ![w] = status]
  /\ frame' = [frame EXCEPT ![w] = 1]
  /\ pos' = [pos EXCEPT ![w] = 0]

\* A request that failed leaves no history.
Fails(w) ==
  /\ Returns(w, "ERROR")
  /\ played' = [played EXCEPT ![w] = <<>>]
  /\ lossy' = [lossy EXCEPT ![w] = FALSE] /\ disturbed' = [disturbed EXCEPT ![w] = FALSE]
  /\ UNCHANGED <<name, upload, file>>

-----------------------------------------------------------------------------
(* The route.                                                              *)

\* No audio part, no .wav, or the file cannot be opened.
Refuse(w) == pc[w] = "idle" /\ Fails(w)

\* std::ofstream outfile(filepath): the file is empty from here on.
OpenOut(w, n, u) ==
  /\ pc[w] = "idle"
  /\ Goes(w, "save")
  /\ name' = [name EXCEPT ![w] = n]
  /\ upload' = [upload EXCEPT ![w] = u]
  /\ file' = [file EXCEPT ![n] = Empty]
  /\ disturbed' = [v \in Workers |->
       LET other == v # w /\ pc[v] # "idle" /\ name[v] = n
       IN IF v = w THEN \E x \in Workers \ {w} : pc[x] # "idle" /\ name[x] = n
          ELSE disturbed[v] \/ other]
  /\ played' = [played EXCEPT ![w] = <<>>]
  /\ answer' = [answer EXCEPT ![w] = "none"]
  /\ lossy' = [lossy EXCEPT ![w] = FALSE]
  /\ UNCHANGED <<frame, pos>>

\* The first n bytes of an upload, written over what another worker has saved.
Over(w, n, data) == Bytes(w, n) \o SubSeq(data, n + 1, Len(data))

\* outfile.write and close: nobody looks whether bytes were lacking.
Save(w, lack) ==
  /\ pc[w] = "save" /\ lack <= upload[w].size
  /\ Goes(w, "open")
  /\ file' = [file EXCEPT ![name[w]] =
       [frame |-> upload[w].frame, data |-> Over(w, upload[w].size - lack, @.data)]]
  /\ lossy' = [lossy EXCEPT ![w] = lack > 0]
  /\ UNCHANGED <<name, upload, frame, pos, played, answer, disturbed>>

\* Not even the header does.
SaveFails(w) ==
  /\ pc[w] = "save"
  /\ Goes(w, "open")
  /\ lossy' = [lossy EXCEPT ![w] = TRUE]
  /\ UNCHANGED <<name, upload, file, frame, pos, played, answer, disturbed>>

-----------------------------------------------------------------------------
(* playWav.                                                                *)

\* The file cannot be opened or is no PCM, no device can be opened, or the bit
\* depth, the parameters or the preparation of the device fail.  A header that
\* was truncated away is not initialised, and may look like anything.
PlayRefused(w) == pc[w] = "open" /\ Fails(w)

\* The header is read, and a device opened, configured for its channels and
\* prepared.
OpenDevice(w, f) ==
  /\ pc[w] = "open"
  /\ file[name[w]].frame \in {0, f}
  /\ Goes(w, "play")
  /\ frame' = [frame EXCEPT ![w] = f]
  /\ UNCHANGED <<name, upload, file, pos, played, answer, lossy, disturbed>>

\* bytes_read
BytesRead(w) ==
  LET left == Len(file[name[w]].data) - pos[w]
  IN IF left > BUFFER_SIZE THEN BUFFER_SIZE ELSE left

\* Mutation of Left: eof is tested before the bytes that met it are played.
LeftEof(w) == pos[w] + BUFFER_SIZE <= Len(file[name[w]].data)

\* The read returns something.
Left(w) == pos[w] < Len(file[name[w]].data)

\* Whole frames only: the rest of the buffer is not played.
Frames(w) == BytesRead(w) \div frame[w]

\* What snd_pcm_writei returns: a number of frames, -EPIPE or another error.
Results == {"frames", "underrun", "error"}

\* A pass of the loop.  What a short write or an underrun lost is not written
\* again, and after another error, or at eof, the loop is left.  (What the device
\* takes for a frame of 24 bit samples, four bytes each, is not modelled.)
PlayBuffer(w, result, lack) ==
  /\ pc[w] = "play" /\ Left(w)
  /\ lack <= Frames(w)
  /\ pos' = [pos EXCEPT ![w] = @ + BytesRead(w)]
  /\ played' = IF result = "frames"
               THEN [played EXCEPT ![w] = @ \o SubSeq(file[name[w]].data, pos[w] + 1,
                                                     pos[w] + (Frames(w) - lack) * frame[w])]
               ELSE played
  /\ lossy' = [lossy EXCEPT ![w] = @ \/ result # "frames" \/ lack > 0]
  /\ Goes(w, IF result = "error" \/ BytesRead(w) < BUFFER_SIZE THEN "finish" ELSE "play")
  /\ UNCHANGED <<name, upload, file, frame, answer, disturbed>>

\* bytes_read == 0
EndOfFile(w) ==
  /\ pc[w] = "play" /\ ~Left(w)
  /\ Goes(w, "finish")
  /\ UNCHANGED <<name, upload, file, frame, pos, played, answer, lossy, disturbed>>

\* snd_pcm_drain, snd_pcm_close, return true
Finish(w) ==
  /\ pc[w] = "finish"
  /\ Returns(w, "SUCCESS")
  /\ UNCHANGED <<name, upload, file, played, lossy, disturbed>>

Next ==
  \E w \in Workers :
    \/ Refuse(w)
    \/ \E n \in Names, u \in Uploads : OpenOut(w, n, u)
    \/ \E lack \in Lacks : Save(w, lack)
    \/ SaveFails(w)
    \/ PlayRefused(w)
    \/ \E u \in Uploads : OpenDevice(w, u.frame)
    \/ \E result \in Results, lack \in Lacks : PlayBuffer(w, result, lack)
    \/ EndOfFile(w)
    \/ Finish(w)

Spec == Init /\ [][Next]_vars

-----------------------------------------------------------------------------
(* Properties.                                                             *)

\* A request that reports success, of which neither disk nor device lost anything
\* and whose file no other worker saved at the same time, has played all whole
\* frames of its upload, from the first to the last, whatever the other workers
\* were doing, if frames do not straddle buffers.  (They do in 24 bit files or
\* those of six channels: each buffer then loses the bytes of the last one.)
PlayedWhole ==
  \A w \in Workers :
    LET u == upload[w]
    IN (/\ answer[w] = "SUCCESS"
        /\ ~lossy[w] /\ ~disturbed[w]
        /\ BUFFER_SIZE % u.frame = 0)
       => played[w] = Bytes(w, u.size - (u.size % u.frame))

=============================================================================
