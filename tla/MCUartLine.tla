----------------------------- MODULE MCUartLine -----------------------------
(***************************************************************************)
(* UartLine on a line that was a console, a line of seven bits with even   *)
(* parity, or one with odd parity and hardware flow control.               *)
(***************************************************************************)
EXTENDS UartLine

Console == [speed |-> 9600, cflag |-> {"S0", "S1", "CREAD", "HUPCL"},
            iflag |-> {"ICRNL", "IXON"}, oflag |-> {"OPOST", "ONLCR"},
            lflag |-> {"ICANON", "ECHO", "ECHOE", "ISIG"}]
SevenEven == [speed |-> 1200, cflag |-> {"S1", "CREAD", "PARENB", "CSTOPB"},
              iflag |-> {"INPCK", "ISTRIP"}, oflag |-> {}, lflag |-> {}]
SixOdd == [speed |-> 115200, cflag |-> {"S0", "CREAD", "PARENB", "PARODD", "CRTSCTS"},
           iflag |-> {"INPCK"}, oflag |-> {}, lflag |-> {}]
AnyLeft == {Console, SevenEven, SixOdd}

Args(speed, flow_ctrl, databits, stopbits, parity) ==
  [speed |-> speed, flow_ctrl |-> flow_ctrl, databits |-> databits,
   stopbits |-> stopbits, parity |-> parity]
AnyAsked == {Args(14400, 1, 7, 2, "E"), Args(1200, 2, 6, 1, "o"),
             Args(9600, 0, 5, 2, "s"), Args(9600, 0, 9, 1, "n")}
=============================================================================
