------------------------- MODULE VideoEncoderQueue -------------------------
(***************************************************************************)
(* VideoEncoder implements FrameQueue: the buffers of the encoder are the  *)
(* one Read works on and those of mBufferQueue, in this order.             *)
(***************************************************************************)
EXTENDS VideoEncoder

Line == (IF inBuffer = NoBuffer THEN <<>> ELSE <<inBuffer>>) \o mBufferQueue

Queue == INSTANCE FrameQueue WITH
    hand     <- resBuffer,
    line     <- Line,
    stopping <- mIsStoped,
    closed   <- pc = "done"

\* The in-flight thread, the result thread and stop() pass the camera buffers on
\* as FrameQueue allows: frames are encoded in the order the camera delivered
\* them, stop()'s drain neither overtakes the buffer that Read works on nor puts
\* one back twice, and nothing is left in the queue that stop() deletes.
ImplementsFrameQueue == Queue!Spec
=============================================================================
