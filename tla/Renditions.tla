----------------------------- MODULE Renditions -----------------------------
(***************************************************************************)
(* What internal/transcode/transcode.go asks ffmpeg for, given the height  *)
(* and the duration that Probe found in the source.                        *)
(***************************************************************************)
EXTENDS Times, Sequences

Rendition(name, height) == [name |-> name, height |-> height]

(* Slips: highest first; the thumbnail of a short video after 2 s.         *)
HighestFirst ==
    <<Rendition("1080p", 1080), Rendition("720p", 720), Rendition("360p", 360)>>

SeekTwoSeconds(duration) ==
    IF duration > 400 * Hundredth THEN duration \div 4 ELSE 200 * Hundredth

DefaultRenditions ==
    <<Rendition("360p", 360), Rendition("720p", 720), Rendition("1080p", 1080)>>

(* selected[n] is what the loop has selected of the first n candidates.   *)
SelectRenditions(height, candidates) ==
    LET selected[n \in 0..Len(candidates)] ==
            IF n = 0 THEN <<>>
            ELSE IF candidates[n].height > height THEN selected[n - 1]
            ELSE Append(selected[n - 1], candidates[n])
        fitting == selected[Len(candidates)]
    IN  IF fitting = <<>> /\ candidates # <<>> THEN <<candidates[1]>> ELSE fitting

(* BuildFFmpegArgs: rendition i is scaled by the filter on output stream i *)
(* and written under the name its var_stream_map entry gives that stream.  *)
StreamMap(renditions) ==
    [i \in DOMAIN renditions |-> [stream |-> i - 1, name |-> renditions[i].name,
                                  filter |-> i - 1, scale |-> renditions[i].height]]

(* extractThumbnail: where the frame is taken.  %.2f prints the nearest     *)
(* hundredth, the even one of two.                                         *)
SeekTime(duration) ==
    LET below == duration \div (4 * Hundredth)
        rest == duration - 4 * Hundredth * below
        up == rest > 2 * Hundredth \/ (rest = 2 * Hundredth /\ below % 2 = 1)
    IN  IF duration > 400 * Hundredth
        THEN Hundredth * (IF up THEN below + 1 ELSE below)
        ELSE 100 * Hundredth
=============================================================================
